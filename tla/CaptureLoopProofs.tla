------------------------- MODULE CaptureLoopProofs -------------------------
(***************************************************************************)
(* What holds of the capture loop for every encoder delay, every set of    *)
(* sizes and every bound on the environment.                               *)
(***************************************************************************)
EXTENDS CaptureLoop, TLAPS

\* A frame of another size is always a fresh one, so that restarting the
\* counters leaves it the next to come out.
FreshInv ==
    /\ phase # "encode" => last.size = encoder_dims
    /\ last.size # encoder_dims => due = behind

\* The counters never claim more than the encoder holds.
CountInv == behind <= Len(held) /\ due <= behind

\* Whatever the encoder holds was captured in the size it was built for.
HeldInv == \A i \in 1..Len(held) : held[i].size = encoder_dims

IInv == TypeOK /\ FreshInv /\ CountInv /\ HeldInv /\ LabelsTrue

\* What the encoder holds from position due + 1 on is the latest content, and
\* once due is -1 it has come out.
Tracked ==
    /\ behind = Len(held)
    /\ \A i \in 1..Len(held) : i > due => held[i].content = last.content
    /\ due = -1 => shown.frame.content = last.content

OutInv == encodeErrors = 0 => Tracked

----------------------------------------------------------------------------
\* The queue of an encode: the frames held, unless the encoder is new, and the
\* frame that goes in.
LEMMA QueueShape ==
    ASSUME TypeOK, HeldInv
    PROVE  /\ Queue \in Seq(Frame)
           /\ Len(Queue) = (IF DimsChanged THEN 1 ELSE Len(held) + 1)
           /\ Queue # <<>>
           /\ \A i \in 1..Len(Queue) : Queue[i].size = last.size
           /\ ~DimsChanged => \A i \in 1..Len(held) : Queue[i] = held[i]
           /\ Queue[Len(Queue)] = last
<1> DEFINE h == IF DimsChanged THEN <<>> ELSE held
<1>1. h \in Seq(Frame) /\ last \in Frame
  BY DEF TypeOK, LoopOK, EncoderOK
<1>2. Queue = Append(h, last)
  BY DEF Queue
<1>3. Len(h) = IF DimsChanged THEN 0 ELSE Len(held)
  OBVIOUS
<1>4. \A i \in 1..Len(h) : h[i].size = last.size
  BY <1>3 DEF HeldInv, DimsChanged
<1>5. ~DimsChanged => h = held
  OBVIOUS
<1> HIDE DEF h
<1>6. /\ Queue \in Seq(Frame) /\ Len(Queue) = Len(h) + 1
      /\ Queue[Len(h) + 1] = last /\ \A i \in 1..Len(h) : Queue[i] = h[i]
  BY <1>1, <1>2
<1> QED
  BY <1>1, <1>3, <1>4, <1>5, <1>6

\* Taking the oldest frame out of a queue.
LEMMA TailShape ==
    ASSUME NEW q \in Seq(Frame), q # <<>>
    PROVE  /\ Tail(q) \in Seq(Frame) /\ Len(Tail(q)) = Len(q) - 1
           /\ Head(q) = q[1] /\ Head(q) \in Frame /\ Len(q) >= 1
           /\ \A i \in 1..Len(Tail(q)) : Tail(q)[i] = q[i + 1]
  OBVIOUS

\* The bounds are natural numbers.
LEMMA Naturals ==
    /\ Delay \in Nat /\ Settle \in [BOOLEAN -> Nat]
    /\ MaxContent \in Nat /\ MaxContent >= 1
    /\ MaxResizes \in Nat /\ MaxToggles \in Nat
    /\ MaxCaptureErrors \in Nat /\ MaxEncodeErrors \in Nat
  BY CaptureAssumption

LEMMA InitInv == Init => IInv
<1> SUFFICES ASSUME Init PROVE IInv
  OBVIOUS
<1>1. last \in Frame /\ shown \in [frame : Frame, label : Size]
  BY Naturals DEF Init, Frame
<1>2. EnvOK
  <2>1. /\ screen \in [content : {1}, size : Size]
        /\ video_may_idle \in BOOLEAN /\ full \in BOOLEAN
        /\ dirty = TRUE /\ overlay = FALSE /\ asked = NoSize
    BY DEF Init
  <2>2. screen \in [content : 1..MaxContent, size : Size]
    BY <2>1, Naturals
  <2> QED
    BY <2>1, <2>2 DEF EnvOK
<1>3. LoopOK
  <2>1. phase = "top" /\ pending = NoRequest /\ need_full = TRUE /\ sent = FALSE
        /\ settle_left = 0
    BY DEF Init
  <2> QED
    <3>1. settle_left \in 0..Settle[video_may_idle]
      BY <2>1, Naturals DEF Init
    <3> QED
      BY <1>1, <2>1, <3>1 DEF LoopOK
<1>4. EncoderOK
  <2>1. encoder_dims \in Size /\ held = <<>> /\ behind = 0 /\ due = -1
    BY DEF Init
  <2> QED
    BY <1>1, <2>1, Naturals DEF EncoderOK
<1>5. BoundsOK
  BY Naturals DEF Init, BoundsOK
<1>6. FreshInv /\ CountInv /\ HeldInv /\ LabelsTrue
  BY DEF Init, FreshInv, CountInv, HeldInv, LabelsTrue
<1> QED
  BY <1>2, <1>3, <1>4, <1>5, <1>6 DEF IInv, TypeOK

\* Nothing about the encoder and the last frame changes: neither do the
\* conjuncts about them, if the loop does not leave phase "encode".
LEMMA EncoderUntouched ==
    ASSUME IInv, UNCHANGED <<encoderVars, last>>, phase # "encode" \/ phase' = phase
    PROVE  EncoderOK' /\ FreshInv' /\ CountInv' /\ HeldInv' /\ LabelsTrue'
<1>1. UNCHANGED <<encoder_dims, held, behind, due, shown, last>>
  BY DEF encoderVars
<1>2. EncoderOK'
  BY <1>1 DEF IInv, TypeOK, EncoderOK
<1>3. FreshInv' /\ CountInv' /\ HeldInv' /\ LabelsTrue'
  BY <1>1 DEF IInv, FreshInv, CountInv, HeldInv, LabelsTrue
<1> QED
  BY <1>2, <1>3

\* A new frame of the screen's size and version.
LEMMA CapturedInv ==
    ASSUME IInv, NEW pointer \in BOOLEAN, Captured(pointer), UNCHANGED usedVars,
           dirty' \in BOOLEAN
    PROVE  IInv'
<1>1. last' \in Frame
  BY Naturals DEF IInv, TypeOK, EnvOK, Frame, Captured
<1>2. EnvOK'
  BY DEF IInv, TypeOK, EnvOK, Captured, modeVars
<1>3. LoopOK'
  <2>1. phase' = "encode" /\ pending' = NoRequest /\ need_full' = FALSE
        /\ settle_left' = Settle[video_may_idle] /\ UNCHANGED <<sent, video_may_idle>>
    BY DEF Captured, modeVars
  <2>2. settle_left' \in (0..Settle[video_may_idle])'
    BY <2>1, Naturals DEF IInv, TypeOK, EnvOK
  <2> QED
    BY <1>1, <2>1, <2>2 DEF IInv, TypeOK, LoopOK
<1>4. EncoderOK'
  BY DEF IInv, TypeOK, EncoderOK, Captured
<1>5. BoundsOK'
  BY DEF IInv, TypeOK, BoundsOK, usedVars
<1>6. FreshInv' /\ CountInv' /\ HeldInv' /\ LabelsTrue'
  BY DEF IInv, TypeOK, EncoderOK, FreshInv, CountInv, HeldInv, LabelsTrue, Captured
<1> QED
  BY <1>2, <1>3, <1>4, <1>5, <1>6 DEF IInv, TypeOK

LEMMA RequestType ==
    ASSUME TypeOK PROVE Request \in [size : Size, cursor : BOOLEAN]
  BY DEF TypeOK, EnvOK, LoopOK, Request

\* Every step keeps the invariant.
LEMMA StepInv == IInv /\ [Next]_vars => IInv'
<1> SUFFICES ASSUME IInv, [Next]_vars PROVE IInv'
  OBVIOUS
<1>env. ASSUME UNCHANGED <<encoderVars, loopVars, modeVars>>, EnvOK', BoundsOK'
        PROVE IInv'
  <2>1. LoopOK'
    BY <1>env DEF loopVars, modeVars, IInv, TypeOK, LoopOK
  <2> QED
    BY <1>env, <2>1, EncoderUntouched DEF loopVars, IInv, TypeOK
<1>a. CASE ScreenChanges
  <2>1. EnvOK'
    BY <1>a, Naturals DEF IInv, TypeOK, EnvOK, ScreenChanges, modeVars
  <2>2. BoundsOK'
    BY <1>a DEF IInv, TypeOK, BoundsOK, ScreenChanges, usedVars
  <2> QED
    BY <1>a, <2>1, <2>2, <1>env DEF ScreenChanges
<1>b. ASSUME NEW z \in Size, OutputChanges(z) PROVE IInv'
  <2>1. EnvOK'
    BY <1>b, Naturals DEF IInv, TypeOK, EnvOK, OutputChanges, modeVars
  <2>2. BoundsOK'
    BY <1>b DEF IInv, TypeOK, BoundsOK, OutputChanges, usedVars
  <2> QED
    BY <1>b, <2>1, <2>2, <1>env DEF OutputChanges
<1>c. ASSUME NEW z \in Size, SessionResize(z) PROVE IInv'
  <2>1. EnvOK'
    BY <1>c DEF IInv, TypeOK, EnvOK, SessionResize, modeVars
  <2>2. BoundsOK'
    BY <1>c, Naturals DEF IInv, TypeOK, BoundsOK, SessionResize
  <2> QED
    BY <1>c, <2>1, <2>2, <1>env DEF SessionResize
<1>d. CASE CursorMode
  <2>1. EnvOK'
    BY <1>d DEF IInv, TypeOK, EnvOK, CursorMode, modeVars
  <2>2. BoundsOK'
    BY <1>d, Naturals DEF IInv, TypeOK, BoundsOK, CursorMode
  <2> QED
    BY <1>d, <2>1, <2>2, <1>env DEF CursorMode
<1>e. CASE DrainResize
  <2>1. EnvOK'
    BY <1>e DEF IInv, TypeOK, EnvOK, DrainResize, modeVars
  <2>2. LoopOK'
    BY <1>e DEF IInv, TypeOK, LoopOK, DrainResize, modeVars
  <2>3. BoundsOK'
    BY <1>e DEF IInv, TypeOK, BoundsOK, DrainResize, usedVars
  <2> QED
    BY <1>e, <2>1, <2>2, <2>3, EncoderUntouched DEF DrainResize, IInv, TypeOK
<1>f. CASE CaptureFrame
  <2>1. overlay \in BOOLEAN /\ dirty' \in BOOLEAN
    BY <1>f DEF IInv, TypeOK, EnvOK, CaptureFrame
  <2> QED
    BY <1>f, <2>1, CapturedInv DEF CaptureFrame
<1>g. CASE CaptureDamaged
  <2>1. Request.cursor \in BOOLEAN
    BY RequestType DEF IInv
  <2> QED
    BY <1>g, <2>1, CapturedInv DEF CaptureDamaged
<1>h. ASSUME TryAgain, BoundsOK' PROVE IInv'
  <2>1. EnvOK'
    BY <1>h DEF IInv, TypeOK, EnvOK, TryAgain, envVars, modeVars
  <2>2. LoopOK'
    BY <1>h DEF IInv, TypeOK, LoopOK, TryAgain, envVars, modeVars
  <2> QED
    BY <1>h, <2>1, <2>2, EncoderUntouched DEF TryAgain, IInv, TypeOK
<1>i. CASE RequestOutdated
  BY <1>h, <1>i DEF RequestOutdated, IInv, TypeOK, BoundsOK, usedVars
<1>j. CASE CaptureFails
  BY <1>h, <1>j, Naturals DEF CaptureFails, IInv, TypeOK, BoundsOK
<1>k. ASSUME Waited, phase' \in {"top", "encode"}, sent' \in BOOLEAN,
             settle_left' \in 0..Settle[video_may_idle]
      PROVE  IInv'
  <2>1. EnvOK'
    BY <1>k DEF IInv, TypeOK, EnvOK, Waited, modeVars
  <2>2. LoopOK'
    BY <1>k, RequestType DEF IInv, TypeOK, LoopOK, Waited, modeVars
  <2>3. BoundsOK'
    BY <1>k DEF IInv, TypeOK, BoundsOK, Waited, usedVars
  <2> QED
    BY <1>k, <2>1, <2>2, <2>3, EncoderUntouched DEF Waited, IInv, TypeOK
<1>l. CASE RepeatLast
  <2>1. Settle[video_may_idle] \in Nat
    BY Naturals DEF IInv, TypeOK, EnvOK
  <2>2. settle_left' \in 0..Settle[video_may_idle]
    BY <1>l, <2>1 DEF RepeatLast, IInv, TypeOK, LoopOK
  <2> QED
    BY <1>k, <1>l, <2>2 DEF RepeatLast, IInv, TypeOK, LoopOK
<1>m. CASE LegacyFrame
  BY <1>k, <1>m DEF LegacyFrame, IInv, TypeOK, LoopOK
<1>n. CASE Idle
  BY <1>k, <1>n DEF Idle, IInv, TypeOK, LoopOK
<1> DEFINE q == Queue
<1>q. /\ q \in Seq(Frame)
      /\ Len(q) = (IF DimsChanged THEN 1 ELSE Len(held) + 1)
      /\ q # <<>>
      /\ \A i \in 1..Len(q) : q[i].size = last.size
  BY QueueShape DEF IInv
<1>r. /\ Tail(q) \in Seq(Frame) /\ Len(Tail(q)) = Len(q) - 1
      /\ Head(q) = q[1] /\ Head(q) \in Frame /\ Len(q) >= 1
      /\ \A i \in 1..Len(Tail(q)) : Tail(q)[i] = q[i + 1]
  BY <1>q, TailShape
<1>s. /\ Behind \in 0..Delay /\ Due \in -1..Delay /\ Due <= Behind
      /\ Behind + 1 <= Len(q) /\ Len(q) <= Delay + 1
  BY <1>q, Naturals DEF IInv, TypeOK, EncoderOK, FreshInv, CountInv, Behind, Due,
                        DimsChanged
<1>v. last \in Frame /\ last.size \in Size
  BY DEF IInv, TypeOK, LoopOK, Frame
<1> HIDE DEF q
<1>t. ASSUME phase = "encode", phase' = "top", encoder_dims' = last.size,
             UNCHANGED <<envVars, last, pending, need_full, settle_left>>,
             sent' \in BOOLEAN, BoundsOK',
             \A i \in 1..Len(held') : held'[i].size = last.size
      PROVE  EnvOK' /\ LoopOK' /\ FreshInv' /\ HeldInv'
  <2>1. EnvOK'
    BY <1>t DEF IInv, TypeOK, EnvOK, envVars, modeVars
  <2>2. LoopOK'
    BY <1>t DEF IInv, TypeOK, LoopOK, envVars, modeVars
  <2>3. FreshInv' /\ HeldInv'
    BY <1>t DEF FreshInv, HeldInv
  <2> QED
    BY <2>1, <2>2, <2>3
<1>w. \A i \in 1..Len(Tail(q)) : Tail(q)[i].size = last.size
  BY <1>q, <1>r
<1>o. CASE Encode
  <2>0. /\ phase = "encode" /\ phase' = "top" /\ encoder_dims' = last.size
        /\ UNCHANGED <<envVars, last, pending, need_full, settle_left, usedVars>>
    BY <1>o DEF Encode
  <2>b. BoundsOK'
    BY <2>0 DEF IInv, TypeOK, BoundsOK, usedVars
  <2>1. CASE /\ Len(q) <= Delay /\ held' = q /\ behind' = Behind + 1 /\ due' = Due
             /\ sent' = FALSE /\ UNCHANGED shown
    <3>1. EncoderOK'
      <4>1. behind' \in 0..Delay /\ due' \in -1..Delay
        BY <2>1, <1>q, <1>s, Naturals
      <4> QED
        BY <2>0, <2>1, <4>1, <1>q, <1>v DEF IInv, TypeOK, EncoderOK
    <3>2. CountInv' /\ LabelsTrue'
      BY <2>1, <1>q, <1>s DEF IInv, CountInv, LabelsTrue
    <3>3. \A i \in 1..Len(held') : held'[i].size = last.size
      BY <2>1, <1>q
    <3>4. EnvOK' /\ LoopOK' /\ FreshInv' /\ HeldInv'
      BY <2>0, <2>b, <2>1, <3>3, <1>t
    <3> QED
      BY <2>b, <3>1, <3>2, <3>4 DEF IInv, TypeOK
  <2>2. CASE /\ Len(q) > Delay /\ held' = Tail(q) /\ behind' = Behind
             /\ due' = NotBelow(Due - 1)
             /\ shown' = [frame |-> Head(q), label |-> last.size] /\ sent' = TRUE
    <3>1. due' \in -1..Delay /\ due' <= behind'
      BY <2>2, <1>s, Naturals DEF NotBelow
    <3>2. Len(held') <= Delay /\ behind' <= Len(held') /\ held' \in Seq(Frame)
      <4>1. Len(held') = Len(q) - 1 /\ held' \in Seq(Frame)
        BY <2>2, <1>r
      <4> QED
        BY <2>2, <4>1, <1>q, <1>s, Naturals
    <3>3. shown' \in [frame : Frame, label : Size]
      BY <2>2, <1>r, <1>v
    <3>4. LabelsTrue'
      <4>1. Head(q).size = last.size
        BY <1>q, <1>r
      <4> QED
        BY <2>2, <4>1 DEF LabelsTrue
    <3>5. EncoderOK' /\ CountInv'
      BY <2>0, <2>2, <3>1, <3>2, <3>3, <1>s, <1>v DEF EncoderOK, CountInv
    <3>6. \A i \in 1..Len(held') : held'[i].size = last.size
      BY <2>2, <1>w
    <3>7. EnvOK' /\ LoopOK' /\ FreshInv' /\ HeldInv'
      BY <2>0, <2>b, <2>2, <3>6, <1>t
    <3> QED
      BY <2>b, <3>4, <3>5, <3>7 DEF IInv, TypeOK
  <2> QED
    BY <1>o, <2>1, <2>2 DEF Encode, q
<1>p. CASE EncodeFails
  <2>0. /\ phase = "encode" /\ phase' = "top" /\ encoder_dims' = last.size
        /\ behind' = 0 /\ due' = -1 /\ sent' = FALSE
        /\ UNCHANGED <<envVars, shown, last, pending, need_full, settle_left>>
    BY <1>p DEF EncodeFails
  <2>1. BoundsOK'
    BY <1>p, Naturals DEF EncodeFails, IInv, TypeOK, BoundsOK
  <2>2. \/ held' = q /\ Len(q) <= Delay
        \/ held' = Tail(q) /\ Len(q) > Delay
        \/ held' = <<>>
        \/ held' = held /\ ~DimsChanged
    <3>1. Len(q) \in Nat
      BY <1>q
    <3> QED
      BY <1>p, <3>1, Naturals DEF EncodeFails, q
  <2>3. /\ held' \in Seq(Frame) /\ Len(held') <= Delay
        /\ \A i \in 1..Len(held') : held'[i].size = last.size
    <3>1. CASE held' = q /\ Len(q) <= Delay
      BY <3>1, <1>q
    <3>2. CASE held' = Tail(q) /\ Len(q) > Delay
      <4>1. Len(held') = Len(q) - 1 /\ held' \in Seq(Frame)
        BY <3>2, <1>r
      <4>2. Len(held') <= Delay
        BY <4>1, <1>q, <1>s, Naturals
      <4> QED
        BY <3>2, <4>1, <4>2, <1>w
    <3>3. CASE held' = <<>>
      BY <3>3, Naturals
    <3>4. CASE held' = held /\ ~DimsChanged
      BY <3>4 DEF IInv, TypeOK, EncoderOK, HeldInv, DimsChanged
    <3> QED
      BY <2>2, <3>1, <3>2, <3>3, <3>4
  <2>4. EncoderOK' /\ CountInv' /\ LabelsTrue'
    BY <2>0, <2>3, <1>v, Naturals DEF IInv, TypeOK, EncoderOK, CountInv, LabelsTrue
  <2>5. EnvOK' /\ LoopOK' /\ FreshInv' /\ HeldInv'
    BY <2>0, <2>1, <2>3, <1>t
  <2> QED
    BY <2>1, <2>4, <2>5 DEF IInv, TypeOK
<1>u. CASE UNCHANGED vars
  <2>1. EnvOK' /\ BoundsOK'
    BY <1>u DEF vars, envVars, modeVars, usedVars, IInv, TypeOK, EnvOK, BoundsOK
  <2> QED
    BY <1>u, <2>1, <1>env DEF vars, envVars
<1> QED
  BY <1>a, <1>b, <1>c, <1>d, <1>e, <1>f, <1>g, <1>i, <1>j, <1>l, <1>m, <1>n,
     <1>o, <1>p, <1>u DEF Next, Environment, LoopStep

\* The inductive invariant holds throughout.
THEOREM Invariance == Spec => []IInv
  BY InitInv, StepInv, PTL DEF Spec

\* The variables keep their types; in particular the encoder never holds more
\* than Delay frames and no counter of capture_thread goes below its floor.
THEOREM TypeCorrect == Spec => []TypeOK
<1>1. IInv => TypeOK
  BY DEF IInv
<1> QED
  BY Invariance, <1>1, PTL

\* Every packet is announced with the size it was encoded in, whatever the
\* encoder's delay and however often the size changes.
THEOREM LabelsCorrect == Spec => []LabelsTrue
<1>1. IInv => LabelsTrue
  BY DEF IInv
<1> QED
  BY Invariance, <1>1, PTL

----------------------------------------------------------------------------
LEMMA InitOut == Init => OutInv
  BY DEF Init, OutInv, Tracked

LEMMA StepOut == IInv /\ OutInv /\ [Next]_vars => OutInv'
<1> SUFFICES ASSUME IInv, OutInv, [Next]_vars, encodeErrors' = 0 PROVE Tracked'
  BY DEF OutInv
<1>4. encodeErrors = 0 /\ ~EncodeFails
  <2>1. encodeErrors \in Nat
    BY Naturals DEF IInv, TypeOK, BoundsOK
  <2>2. EncodeFails => encodeErrors' = encodeErrors + 1
    BY DEF EncodeFails
  <2>3. encodeErrors' = encodeErrors \/ EncodeFails
    BY DEF Next, Environment, LoopStep, vars, usedVars, ScreenChanges, OutputChanges,
           SessionResize, CursorMode, DrainResize, CaptureFrame, CaptureDamaged,
           RequestOutdated, CaptureFails, RepeatLast, LegacyFrame, Idle, Waited, Encode
  <2> QED
    BY <2>1, <2>2, <2>3
<1>0. Tracked
  BY <1>4 DEF OutInv
<1>1. CASE UNCHANGED <<encoderVars, last>>
  BY <1>0, <1>1 DEF encoderVars, Tracked
<1>2. ASSUME NEW pointer, Captured(pointer) PROVE Tracked'
  BY <1>0, <1>2 DEF Captured, Tracked, IInv, TypeOK, EncoderOK
<1>3. CASE Encode
  <2> DEFINE q == Queue
  <2>1. /\ q \in Seq(Frame)
        /\ Len(q) = (IF DimsChanged THEN 1 ELSE Len(held) + 1)
        /\ q # <<>>
        /\ ~DimsChanged => \A i \in 1..Len(held) : q[i] = held[i]
        /\ q[Len(q)] = last
    BY QueueShape DEF IInv
  <2>2. /\ Tail(q) \in Seq(Frame) /\ Len(Tail(q)) = Len(q) - 1
        /\ Head(q) = q[1] /\ Len(q) >= 1
        /\ \A i \in 1..Len(Tail(q)) : Tail(q)[i] = q[i + 1]
    BY <2>1, TailShape
  <2>3. Behind + 1 = Len(q) /\ Due \in -1..Delay /\ Due <= Behind
    BY <1>0, <2>1, Naturals DEF IInv, TypeOK, EncoderOK, FreshInv, CountInv, Tracked,
                                Behind, Due, DimsChanged
  <2>4. \A i \in 1..Len(q) : i > Due => q[i].content = last.content
    <3>1. CASE DimsChanged
      BY <2>1, <3>1
    <3>2. CASE ~DimsChanged
      BY <1>0, <2>1, <3>2 DEF Due, Tracked, IInv, TypeOK, EncoderOK
    <3> QED
      BY <3>1, <3>2
  <2>5. Due = -1 => shown.frame.content = last.content
    BY <1>0 DEF Due, Tracked, IInv, TypeOK, EncoderOK, FreshInv, DimsChanged
  <2> HIDE DEF q
  <2>6. CASE held' = q /\ behind' = Behind + 1 /\ due' = Due /\ UNCHANGED <<shown, last>>
    BY <2>3, <2>4, <2>5, <2>6 DEF Tracked
  <2>7. CASE /\ held' = Tail(q) /\ behind' = Behind /\ due' = NotBelow(Due - 1)
             /\ shown'.frame = Head(q) /\ UNCHANGED last
    <3>1. behind' = Len(held')
      <4>1. Behind \in Nat /\ Len(q) \in Nat
        BY <2>1 DEF IInv, TypeOK, EncoderOK, Behind
      <4>2. Behind = Len(q) - 1
        BY <2>3, <4>1
      <4> QED
        BY <2>2, <2>7, <4>2
    <3>2. \A i \in 1..Len(held') : i > due' => held'[i].content = last.content
      BY <2>2, <2>3, <2>4, <2>7 DEF NotBelow
    <3>3. due' = -1 => shown'.frame.content = last.content
      BY <2>2, <2>3, <2>4, <2>7 DEF NotBelow
    <3> QED
      BY <2>7, <3>1, <3>2, <3>3 DEF Tracked
  <2> QED
    BY <1>3, <2>6, <2>7 DEF Encode, q
<1>5. CASE Environment
  BY <1>1, <1>5 DEF Environment, ScreenChanges, CursorMode, OutputChanges,
                    SessionResize, loopVars
<1>6. CASE DrainResize \/ RequestOutdated \/ CaptureFails
  BY <1>1, <1>6 DEF DrainResize, RequestOutdated, CaptureFails, TryAgain
<1>7. CASE RepeatLast \/ LegacyFrame \/ Idle
  BY <1>1, <1>7 DEF RepeatLast, LegacyFrame, Idle, Waited
<1>8. CASE CaptureFrame \/ CaptureDamaged
  BY <1>2, <1>8 DEF CaptureFrame, CaptureDamaged
<1>9. CASE UNCHANGED vars
  BY <1>1, <1>9 DEF vars, loopVars
<1> QED
  BY <1>3, <1>4, <1>5, <1>6, <1>7, <1>8, <1>9 DEF Next, LoopStep

\* While no encode fails, the counters mean what capture_thread takes them for:
\* when nothing is stuck in the encoder, the latest content has been sent.
THEOREM OutIsShown == Spec => []OutMeansShown
<1>1. OutInv /\ IInv => OutMeansShown
  BY Naturals DEF OutInv, Tracked, IInv, TypeOK, EncoderOK, OutMeansShown, Stuck
<1>2. IInv /\ OutInv /\ [Next]_vars => OutInv'
  BY StepOut
<1> QED
  BY InitOut, Invariance, <1>1, <1>2, PTL DEF Spec

\* What goes out is what it is said to be, and the loop knows when all of it is out.
THEOREM PacketsAreTrue == Spec => []PacketsTrue
BY TypeCorrect, LabelsCorrect, OutIsShown, PTL DEF PacketsTrue
============================================================================
