---------------------------- MODULE CaptureLoop ----------------------------
(***************************************************************************)
(* The capture loop of a streaming session (transport.rs, capture_thread): *)
(* it captures the compositor's output when something changed              *)
(* (screencopy.rs), encodes what it captured, rebuilds the encoder when    *)
(* the size changes, and repeats the last frame until the encoder and the  *)
(* client's decoder have let go of it.                                     *)
(*                                                                         *)
(* A picture is a version number, its size and whether the pointer was     *)
(* drawn into it.  The counters frames_in, packets_out and newest only     *)
(* matter relative to each other: behind is frames_in - packets_out, due   *)
(* is newest - packets_out, or -1 once that is negative.  Stop messages,   *)
(* the compositor's death and the channel to the session loop are in       *)
(* SessionStream; a packet that is sent here has been sent there.          *)
(***************************************************************************)
EXTENDS Integers, Sequences

CONSTANTS
    Size,              \* output sizes
    NoSize,            \* no resize request
    NoRequest,         \* no pending screencopy request
    Delay,             \* frames the encoder holds back
    Settle,            \* SETTLE_FRAMES and LEGACY_SETTLE_FRAMES, by video_may_idle
    Shared,            \* somebody else may change the output's mode
    ResizeCanFail,     \* the compositor may refuse a mode
    MaxContent,        \* bound: versions of the picture
    MaxResizes,        \* bound: resize requests of the client
    MaxToggles,        \* bound: CursorMode messages
    MaxCaptureErrors,  \* bound: failed captures
    MaxEncodeErrors    \* bound: failed encodes

ASSUME CaptureAssumption ==
    /\ NoSize \notin Size
    /\ NoRequest \notin [size : Size, cursor : BOOLEAN]
    /\ Delay \in Nat /\ Settle \in [BOOLEAN -> Nat] /\ MaxContent \in Nat \ {0}
    /\ MaxResizes \in Nat /\ MaxToggles \in Nat
    /\ MaxCaptureErrors \in Nat /\ MaxEncodeErrors \in Nat
    /\ Shared \in BOOLEAN /\ ResizeCanFail \in BOOLEAN

VARIABLES
    \* --- chosen when the session starts
    video_may_idle,  \* the client copes with no frames while nothing changes
    full,            \* --capture-mode full
    \* --- the compositor
    screen,        \* version and size of its output
    dirty,         \* damage since the last copy_with_damage
    \* --- the session loop
    asked,         \* latest resize request in the channel
    overlay,       \* overlay_cursor
    \* --- the capture thread
    phase,         \* where its loop is
    pending,       \* pending copy_with_damage
    last,          \* the most recent frame captured
    need_full,     \* capture without waiting for damage
    settle_left,   \* repeats still to send
    encoder_dims,  \* size the encoder was built for
    held,          \* frames inside the encoder
    behind, due,   \* the counters, relative
    shown,         \* the last packet sent: its frame and the size it is labelled with
    sent,          \* the last round of the loop sent a packet
    \* --- bounds
    resizes, toggles,              \* messages of the client so far
    captureErrors, encodeErrors    \* failures so far

modeVars    == <<video_may_idle, full>>
envVars     == <<modeVars, screen, dirty, asked, overlay>>
encoderVars == <<encoder_dims, held, behind, due, shown>>
loopVars    == <<phase, pending, last, need_full, settle_left, sent>>
usedVars    == <<resizes, toggles, captureErrors, encodeErrors>>
vars        == <<envVars, encoderVars, loopVars, usedVars>>

\* Version 0 stands for "no frame": the screen starts with version 1.
Frame == [content : 0..MaxContent, size : Size, cursor : BOOLEAN]

Init ==
    /\ video_may_idle \in BOOLEAN /\ full \in BOOLEAN
    /\ screen \in [content : {1}, size : Size]
    /\ dirty = TRUE
    /\ asked = NoSize /\ overlay = FALSE
    /\ phase = "top" /\ pending = NoRequest
    /\ encoder_dims \in Size
    /\ last = [content |-> 0, size |-> encoder_dims, cursor |-> FALSE]
    /\ need_full = TRUE /\ settle_left = 0
    /\ held = <<>> /\ behind = 0 /\ due = -1
    /\ shown = [frame |-> last, label |-> encoder_dims]
    /\ sent = FALSE
    /\ resizes = 0 /\ toggles = 0 /\ captureErrors = 0 /\ encodeErrors = 0

----------------------------------------------------------------------------
(***************************************************************************)
(* What happens around the loop.                                           *)
(***************************************************************************)

\* An application draws.
ScreenChanges ==
    /\ screen.content < MaxContent
    /\ screen' = [screen EXCEPT !.content = @ + 1]
    /\ dirty' = TRUE
    /\ UNCHANGED <<modeVars, asked, overlay, encoderVars, loopVars, usedVars>>

\* Another connection to the same session, or a tool inside it, changes the
\* output's mode.
OutputChanges(z) ==
    /\ Shared /\ screen.size # z
    /\ screen.content < MaxContent
    /\ screen' = [content |-> screen.content + 1, size |-> z]
    /\ dirty' = TRUE
    /\ UNCHANGED <<modeVars, asked, overlay, encoderVars, loopVars, usedVars>>

\* SessionResize is put into the channel; only the latest one counts.
SessionResize(z) ==
    /\ resizes < MaxResizes /\ resizes' = resizes + 1
    /\ asked' = z
    /\ UNCHANGED <<modeVars, screen, dirty, overlay, encoderVars, loopVars, toggles,
                   captureErrors, encodeErrors>>

\* CursorMode sets the shared flag.
CursorMode ==
    /\ toggles < MaxToggles /\ toggles' = toggles + 1
    /\ overlay' = ~overlay
    /\ UNCHANGED <<modeVars, screen, dirty, asked, encoderVars, loopVars, resizes,
                   captureErrors, encodeErrors>>

----------------------------------------------------------------------------
(***************************************************************************)
(* One round of the loop.                                                  *)
(***************************************************************************)

Stuck == due >= 0

\* The channel is drained, and the output resized if its latest request is not
\* for the size the encoder has.  The compositor may refuse.
DrainResize ==
    /\ phase = "top" /\ phase' = "capture"
    /\ asked' = NoSize
    /\ \/ /\ asked \in {NoSize, encoder_dims}
          /\ UNCHANGED <<screen, dirty, need_full>>
       \/ /\ asked \notin {NoSize, encoder_dims}
          /\ need_full' = TRUE
          /\ \/ screen' = [screen EXCEPT !.size = asked] /\ dirty' = TRUE
             \/ ResizeCanFail /\ UNCHANGED <<screen, dirty>>
    /\ UNCHANGED <<modeVars, overlay, encoderVars, pending, last, settle_left, sent, usedVars>>

CaptureNow == full \/ need_full \/ last.content = 0

\* A frame has been captured.
Captured(pointer) ==
    /\ last' = [content |-> screen.content, size |-> screen.size, cursor |-> pointer]
    /\ phase' = "encode" /\ pending' = NoRequest
    /\ need_full' = FALSE
    /\ due' = behind
    /\ settle_left' = Settle[video_may_idle]
    /\ UNCHANGED <<modeVars, asked, overlay, screen, encoder_dims, held, behind,
                   shown, sent>>

\* Mutant of CaptureFrame: the pointer is drawn as in the frame before.
CaptureFrameOldPointer ==
    /\ phase = "capture" /\ CaptureNow
    /\ Captured(last.cursor)
    /\ UNCHANGED <<dirty, usedVars>>

\* capture_frame abandons a pending request and copies at once.
CaptureFrame ==
    /\ phase = "capture" /\ CaptureNow
    /\ Captured(overlay)
    /\ UNCHANGED <<dirty, usedVars>>

\* The request capture_damaged waits for: the pending one, or a new one.
Request == IF pending = NoRequest THEN [size |-> screen.size, cursor |-> overlay]
                                  ELSE pending

\* capture_damaged: the copy completes, with the pointer as it was requested.
CaptureDamaged ==
    /\ phase = "capture" /\ ~CaptureNow
    /\ dirty /\ Request.size = screen.size
    /\ dirty' = FALSE
    /\ Captured(Request.cursor)
    /\ UNCHANGED usedVars

\* A capture has failed; the next one does not wait for damage.
TryAgain ==
    /\ phase = "capture" /\ phase' = "top"
    /\ need_full' = TRUE /\ pending' = NoRequest /\ sent' = FALSE
    /\ UNCHANGED <<envVars, encoderVars, last, settle_left>>

\* The buffer of the pending request no longer fits the output, and the
\* compositor fails it.
RequestOutdated ==
    /\ TryAgain
    /\ ~CaptureNow /\ dirty /\ Request.size # screen.size
    /\ UNCHANGED usedVars

\* Any other failure of a capture.
CaptureFails ==
    /\ TryAgain
    /\ captureErrors < MaxCaptureErrors /\ captureErrors' = captureErrors + 1
    /\ UNCHANGED <<resizes, toggles, encodeErrors>>

\* Mutant of Waited: the request is given up, and the change with it.
WaitedForgets ==
    /\ phase = "capture" /\ ~CaptureNow
    /\ pending' = NoRequest /\ dirty' = FALSE
    /\ UNCHANGED <<modeVars, screen, asked, overlay, encoderVars, last, need_full, usedVars>>

\* capture_damaged has waited in vain.  The request stays pending.  A new
\* request that wants the pointer drawn differently makes the compositor
\* repaint it.
Waited ==
    /\ phase = "capture" /\ ~CaptureNow
    /\ pending' = Request
    /\ dirty' = (dirty \/ Request.cursor # last.cursor)
    /\ UNCHANGED <<modeVars, screen, asked, overlay, encoderVars, last, need_full, usedVars>>

\* Mutant of RepeatLast: the countdown does not stop at 0.
RepeatLastUnderflow ==
    /\ Waited
    /\ \/ Stuck /\ UNCHANGED settle_left
       \/ ~Stuck /\ settle_left' = settle_left - 1
    /\ phase' = "encode"
    /\ UNCHANGED sent

\* Mutant of RepeatLast: repeats are not counted down.
RepeatLastForever ==
    /\ Waited
    /\ Stuck \/ settle_left > 0
    /\ phase' = "encode"
    /\ UNCHANGED <<settle_left, sent>>

\* Nothing changed, and a repeat of the last frame is owed.
RepeatLast ==
    /\ Waited
    /\ \/ Stuck /\ UNCHANGED settle_left
       \/ ~Stuck /\ settle_left > 0 /\ settle_left' = settle_left - 1
    /\ phase' = "encode"
    /\ UNCHANGED sent

\* Mutant of LegacyFrame: the flag is read the wrong way round.
LegacyFrameInverted ==
    /\ Waited
    /\ ~Stuck /\ settle_left = 0 /\ video_may_idle
    /\ phase' = "encode"
    /\ UNCHANGED <<settle_left, sent>>

\* Nothing changed for LEGACY_IDLE_INTERVAL, and the client needs frames.
LegacyFrame ==
    /\ Waited
    /\ ~Stuck /\ settle_left = 0 /\ ~video_may_idle
    /\ phase' = "encode"
    /\ UNCHANGED <<settle_left, sent>>

\* Nothing changed, and nothing is owed (yet).
Idle ==
    /\ Waited
    /\ ~Stuck /\ settle_left = 0
    /\ phase' = "top" /\ sent' = FALSE
    /\ UNCHANGED settle_left

----------------------------------------------------------------------------
\* What the encoder holds and how far it is behind when the frame goes in: a
\* frame of another size gets a new encoder, and the counters start afresh.
DimsChanged == last.size # encoder_dims
Queue       == Append(IF DimsChanged THEN <<>> ELSE held, last)
Behind      == IF DimsChanged THEN 0 ELSE behind
Due         == IF DimsChanged THEN due - behind ELSE due

NotBelow(n) == IF n < -1 THEN -1 ELSE n

\* Mutant of Encode: the encoder survives a change of size.
EncodeKeepsQueue ==
    /\ phase = "encode" /\ phase' = "top"
    /\ encoder_dims' = last.size
    /\ LET q == Append(held, last) IN
       \/ /\ Len(q) <= Delay
          /\ held' = q /\ behind' = behind + 1 /\ due' = due
          /\ sent' = FALSE /\ UNCHANGED shown
       \/ /\ Len(q) > Delay
          /\ held' = Tail(q) /\ behind' = behind /\ due' = NotBelow(due - 1)
          /\ shown' = [frame |-> Head(q), label |-> last.size]
          /\ sent' = TRUE
    /\ UNCHANGED <<envVars, pending, last, need_full, settle_left, usedVars>>

\* Mutant of Encode: a packet is counted that has not come out.
EncodeCountsAhead ==
    /\ phase = "encode" /\ phase' = "top"
    /\ encoder_dims' = last.size
    /\ \/ /\ Len(Queue) <= Delay
          /\ held' = Queue /\ behind' = Behind /\ due' = NotBelow(Due - 1)
          /\ sent' = FALSE /\ UNCHANGED shown
       \/ /\ Len(Queue) > Delay
          /\ held' = Tail(Queue) /\ behind' = Behind /\ due' = NotBelow(Due - 1)
          /\ shown' = [frame |-> Head(Queue), label |-> last.size]
          /\ sent' = TRUE
    /\ UNCHANGED <<envVars, pending, last, need_full, settle_left, usedVars>>

\* The frame goes into the encoder.  What comes out, if anything, is the oldest
\* frame inside; it is labelled with the size of the frame that went in.
Encode ==
    /\ phase = "encode" /\ phase' = "top"
    /\ encoder_dims' = last.size
    /\ \/ /\ Len(Queue) <= Delay
          /\ held' = Queue /\ behind' = Behind + 1 /\ due' = Due
          /\ sent' = FALSE /\ UNCHANGED shown
       \/ /\ Len(Queue) > Delay
          /\ held' = Tail(Queue) /\ behind' = Behind /\ due' = NotBelow(Due - 1)
          /\ shown' = [frame |-> Head(Queue), label |-> last.size]
          /\ sent' = TRUE
    /\ UNCHANGED <<envVars, pending, last, need_full, settle_left, usedVars>>

\* encode_frame fails, before the encoder took the frame or after (then what it
\* gave back is lost too).  packets_out is set to frames_in.
EncodeFails ==
    /\ phase = "encode" /\ phase' = "top"
    /\ encodeErrors < MaxEncodeErrors /\ encodeErrors' = encodeErrors + 1
    /\ encoder_dims' = last.size
    /\ \/ held' = IF DimsChanged THEN <<>> ELSE held
       \/ held' = IF Len(Queue) > Delay THEN Tail(Queue) ELSE Queue
    /\ behind' = 0 /\ due' = -1
    /\ sent' = FALSE
    /\ UNCHANGED <<envVars, shown, pending, last, need_full, settle_left, resizes,
                   toggles, captureErrors>>

----------------------------------------------------------------------------
Environment ==
    \/ ScreenChanges \/ CursorMode
    \/ \E z \in Size : OutputChanges(z) \/ SessionResize(z)

LoopStep ==
    \/ DrainResize \/ CaptureFrame \/ CaptureDamaged \/ RequestOutdated \/ CaptureFails
    \/ RepeatLast \/ LegacyFrame \/ Idle
    \/ Encode \/ EncodeFails

Next == Environment \/ LoopStep

Spec == Init /\ [][Next]_vars

(***************************************************************************)
(* Fairness.  The loop runs; the compositor completes or fails a           *)
(* copy_with_damage for which there is damage; time passes.  Nothing makes *)
(* the screen, the client or an error happen.                              *)
(***************************************************************************)
Fairness ==
    /\ WF_vars(LoopStep)
    /\ SF_vars(CaptureDamaged) /\ SF_vars(RequestOutdated)
    /\ SF_vars(LegacyFrame)

FairSpec == Spec /\ Fairness

----------------------------------------------------------------------------
(***************************************************************************)
(* Properties.                                                             *)
(***************************************************************************)

EnvOK ==
    /\ video_may_idle \in BOOLEAN /\ full \in BOOLEAN
    /\ screen \in [content : 1..MaxContent, size : Size]
    /\ dirty \in BOOLEAN /\ overlay \in BOOLEAN
    /\ asked \in Size \cup {NoSize}

LoopOK ==
    /\ phase \in {"top", "capture", "encode"}
    /\ pending \in [size : Size, cursor : BOOLEAN] \cup {NoRequest}
    /\ last \in Frame /\ need_full \in BOOLEAN /\ sent \in BOOLEAN
    /\ settle_left \in 0..Settle[video_may_idle]

EncoderOK ==
    /\ encoder_dims \in Size
    /\ held \in Seq(Frame) /\ Len(held) <= Delay
    /\ behind \in 0..Delay /\ due \in -1..Delay
    /\ shown \in [frame : Frame, label : Size]

BoundsOK ==
    /\ resizes \in 0..MaxResizes /\ toggles \in 0..MaxToggles
    /\ captureErrors \in 0..MaxCaptureErrors /\ encodeErrors \in 0..MaxEncodeErrors

\* Every variable keeps its type, and the encoder holds at most Delay frames.
TypeOK == EnvOK /\ LoopOK /\ EncoderOK /\ BoundsOK

\* A packet is announced with the size it was encoded in, although the label is
\* taken from the frame that went in and the packet may be an older one.
LabelsTrue == shown.label = shown.frame.size

\* What packets_out > newest is taken for, as long as no encode has failed: the
\* client has been sent the latest content.
OutMeansShown ==
    encodeErrors = 0 /\ phase = "top" /\ ~Stuck =>
        shown.frame.content = last.content

\* Types, labels and counters in one invariant.
PacketsTrue == TypeOK /\ LabelsTrue /\ OutMeansShown

Fresh == shown.frame.content = screen.content /\ shown.frame.size = screen.size

\* Frames only go out when something changed.
OnDemand == video_may_idle /\ ~full

\* Once the screen stops changing the client gets to see what it shows, unless
\* an encode has failed and frames are sent on demand: EncodeFails forgets that
\* older frames are still inside the encoder.
FreshUnlessError == <>[](Fresh \/ (OnDemand /\ encodeErrors > 0))

\* A client that copes with it is sent nothing once nothing changes any more.
EventuallyQuiet == <>[](OnDemand => ~sent)

\* Every other client is sent frames for ever.
NeverSilent == []<>(sent \/ OnDemand)

\* With --capture-mode full, the pointer ends up in the picture exactly when the
\* client wants it there.
CursorModeHonoured == <>[](full => shown.frame.cursor = overlay)
============================================================================
