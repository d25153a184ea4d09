------------------------- MODULE SessionLoopProofs -------------------------
(***************************************************************************)
(* Proofs about the two ends of a session: the mobile core's loop, for any *)
(* number of sessions, and the server's streaming loop (SessionStream),    *)
(* for any set of watchers; both for any capacities of their queues.       *)
(***************************************************************************)
EXTENDS SessionStream, MobileSession, FiniteSetTheorems, SequenceTheorems, TLAPS

(***************************************************************************)
(* The mobile core: the header of a frame.                                 *)
(***************************************************************************)

\* A sequence of bytes whose first ones, read as a number of that width, are v.
Is16(b, v) == b \in Seq(Nat) /\ Len(b) = 2 /\ U16At(b, 1) = v
Is32(b, v) == b \in Seq(Nat) /\ Len(b) = 4 /\ U32At(b, 1) = v
Is64(b, v) == b \in Seq(Nat) /\ Len(b) = 8 /\ U64At(b, 1) = v

\* u is s with t behind it.
JoinOf(S, u, s, t) ==
    /\ u \in Seq(S) /\ Len(u) = Len(s) + Len(t)
    /\ \A i \in 1 .. Len(s) : u[i] = s[i]
    /\ \A i \in 1 .. Len(t) : u[Len(s) + i] = t[i]

\* What is read from u at i is what is read from s there, or from t that much further.
ReadsAs(u, s, t, i) ==
    /\ i + 1 =< Len(s) => U16At(u, i) = U16At(s, i)
    /\ i + 3 =< Len(s) => U32At(u, i) = U32At(s, i)
    /\ i + 7 =< Len(s) => U64At(u, i) = U64At(s, i)
    /\ i + 1 =< Len(t) => U16At(u, Len(s) + i) = U16At(t, i)
    /\ i + 3 =< Len(t) => U32At(u, Len(s) + i) = U32At(t, i)
    /\ i + 7 =< Len(t) => U64At(u, Len(s) + i) = U64At(t, i)

LEMMA Joined ==
    ASSUME NEW S, NEW s \in Seq(S), NEW t \in Seq(S)
    PROVE  JoinOf(S, s \o t, s, t)
BY ConcatProperties DEF JoinOf

\* What is read from two sequences joined is read from the one it lies in.
LEMMA ReadJoined ==
    ASSUME NEW s \in Seq(Nat), NEW t \in Seq(Nat), NEW i \in Nat \ {0}
    PROVE  ReadsAs(s \o t, s, t, i)
<1> DEFINE u == s \o t
<1>1. /\ \A j \in 1 .. Len(s) : u[j] = s[j]
      /\ \A j \in 1 .. Len(t) : u[Len(s) + j] = t[j]
    <2>1. JoinOf(Nat, u, s, t)
        BY Joined
    <2> QED BY <2>1 DEF JoinOf
<1>2. Len(s) \in Nat /\ Len(t) \in Nat
    OBVIOUS
<1> HIDE DEF u
<1>3. ASSUME NEW j \in Nat \ {0}
      PROVE  /\ j + 1 =< Len(s) => U16At(u, j) = U16At(s, j)
             /\ j + 3 =< Len(s) => U32At(u, j) = U32At(s, j)
             /\ j + 1 =< Len(t) => U16At(u, Len(s) + j) = U16At(t, j)
             /\ j + 3 =< Len(t) => U32At(u, Len(s) + j) = U32At(t, j)
    <2>1. ASSUME NEW k \in Nat \ {0}
          PROVE  /\ k + 1 =< Len(s) => U16At(u, k) = U16At(s, k)
                 /\ k + 1 =< Len(t) => U16At(u, Len(s) + k) = U16At(t, k)
        <3>1. k + 1 \in Nat /\ Len(s) + (k + 1) = (Len(s) + k) + 1
            BY <1>2
        <3>2. /\ k + 1 =< Len(s) => u[k] = s[k] /\ u[k + 1] = s[k + 1]
              /\ k + 1 =< Len(t) => u[Len(s) + k] = t[k] /\ u[(Len(s) + k) + 1] = t[k + 1]
            <4>1. ASSUME k + 1 =< Len(s) PROVE u[k] = s[k] /\ u[k + 1] = s[k + 1]
                <5>1. k \in 1 .. Len(s) /\ k + 1 \in 1 .. Len(s)
                    BY <4>1, <1>2, <3>1
                <5> QED BY <5>1, <1>1
            <4>2. ASSUME k + 1 =< Len(t)
                  PROVE  u[Len(s) + k] = t[k] /\ u[Len(s) + (k + 1)] = t[k + 1]
                <5>1. k \in 1 .. Len(t) /\ k + 1 \in 1 .. Len(t)
                    BY <4>2, <1>2, <3>1
                <5> QED BY <5>1, <1>1
            <4> QED BY <4>1, <4>2, <3>1
        <3> QED BY <3>2 DEF U16At
    <2>2. j + 2 \in Nat \ {0} /\ Len(s) + (j + 2) = (Len(s) + j) + 2
        BY <1>2
    <2>3. /\ j + 3 =< Len(s) => U16At(u, j + 2) = U16At(s, j + 2)
          /\ j + 3 =< Len(t) => U16At(u, Len(s) + (j + 2)) = U16At(t, j + 2)
        BY <2>1, <2>2, <1>2
    <2> QED BY <2>1, <2>2, <2>3, <1>2 DEF U32At
<1>4. i + 4 \in Nat \ {0} /\ Len(s) + (i + 4) = (Len(s) + i) + 4
    BY <1>2
<1>5. /\ i + 7 =< Len(s) => U32At(u, i + 4) = U32At(s, i + 4)
      /\ i + 7 =< Len(t) => U32At(u, Len(s) + (i + 4)) = U32At(t, i + 4)
    BY <1>3, <1>4, <1>2
<1>6. /\ i + 7 =< Len(s) => U64At(u, i) = U64At(s, i)
      /\ i + 7 =< Len(t) => U64At(u, Len(s) + i) = U64At(t, i)
    <2>1. /\ i + 7 =< Len(s) => i + 3 =< Len(s)
          /\ i + 7 =< Len(t) => i + 3 =< Len(t)
        BY <1>2
    <2>2. /\ i + 7 =< Len(s) => U32At(u, i) = U32At(s, i)
          /\ i + 7 =< Len(t) => U32At(u, Len(s) + i) = U32At(t, i)
        BY <1>3, <2>1
    <2>3. /\ i + 7 =< Len(t) => U32At(u, (Len(s) + i) + 4) = U32At(t, i + 4)
        BY <1>5, <1>4
    <2> QED BY <2>2, <2>3, <1>5 DEF U64At
<1> QED BY <1>3, <1>6 DEF u, ReadsAs

\* The remainders of a word's bytes, and what they come to.
LEMMA Bytes ==
    ASSUME NEW v \in Nat
    PROVE  /\ v % 256 \in Nat /\ (v \div 256) % 256 \in Nat
           /\ (v % 256) + 256 * ((v \div 256) % 256) = v % 65536
           /\ v = (v % 65536) + 65536 * (v \div 65536)
           /\ v \div 65536 \in Nat /\ v % 65536 \in Nat
OBVIOUS

LEMMA Word ==
    ASSUME NEW v \in Nat
    PROVE  Is16(LE16(v), v % 65536)
<1>1. v % 256 \in Nat /\ (v \div 256) % 256 \in Nat
    BY Bytes
<1>2. (v % 256) + 256 * ((v \div 256) % 256) = v % 65536
    BY Bytes
<1> QED BY <1>1, <1>2 DEF LE16, Is16, U16At

LEMMA LongWord ==
    ASSUME NEW v \in Nat
    PROVE  Is32(LE32(v), (v % 65536) + 65536 * ((v \div 65536) % 65536))
<1> DEFINE a == LE16(v)
           b == LE16(v \div 65536)
<1>1. v \div 65536 \in Nat /\ v % 65536 \in Nat
    BY Bytes
<1>2. Is16(a, v % 65536) /\ Is16(b, (v \div 65536) % 65536)
    BY <1>1, Word
<1> HIDE DEF a, b
<1>3. a \in Seq(Nat) /\ b \in Seq(Nat) /\ Len(a) = 2 /\ Len(b) = 2
    BY <1>2 DEF Is16
<1>4. JoinOf(Nat, a \o b, a, b) /\ ReadsAs(a \o b, a, b, 1)
    BY <1>3, Joined, ReadJoined
<1>5. a \o b \in Seq(Nat) /\ Len(a \o b) = 4
    BY <1>3, <1>4 DEF JoinOf
<1>6. U16At(a \o b, 1) = v % 65536
    BY <1>2, <1>3, <1>4 DEF Is16, ReadsAs
<1>7. U16At(a \o b, 3) = (v \div 65536) % 65536
    BY <1>2, <1>3, <1>4 DEF Is16, ReadsAs
<1> QED BY <1>5, <1>6, <1>7 DEF LE32, a, b, Is32, U32At

LEMMA VeryLongWord ==
    ASSUME NEW v \in Nat, (v \div 65536) \div 65536 < 65536 * 65536
    PROVE  Is64(LE64(v), v)
<1> DEFINE m == v \div 65536
           w == m \div 65536
           a == LE32(v)
           b == LE32(w)
<1>1. /\ m \in Nat /\ v = (v % 65536) + 65536 * m /\ v % 65536 \in Nat
      /\ w \in Nat /\ m = (m % 65536) + 65536 * w /\ m % 65536 \in Nat
    BY Bytes
<1>2. /\ Is32(a, (v % 65536) + 65536 * (m % 65536))
      /\ Is32(b, (w % 65536) + 65536 * ((w \div 65536) % 65536))
    BY <1>1, LongWord, SMTT(30)
<1>3. (w % 65536) + 65536 * ((w \div 65536) % 65536) = w
    <2>1. w < 65536 * 65536
        BY <1>1
    <2>2. w \div 65536 \in Nat /\ w = (w % 65536) + 65536 * (w \div 65536) /\ w % 65536 \in Nat
        BY <1>1, Bytes
    <2> HIDE DEF w
    <2>3. w \div 65536 < 65536
        BY <2>1, <2>2
    <2>4. (w \div 65536) % 65536 = w \div 65536
        BY <2>2, <2>3
    <2> QED BY <2>2, <2>4
<1>4. Is32(b, w)
    BY <1>2, <1>3
<1> HIDE DEF m, w, a, b
<1>5. a \in Seq(Nat) /\ b \in Seq(Nat) /\ Len(a) = 4 /\ Len(b) = 4
    BY <1>2, <1>4 DEF Is32
<1>6. JoinOf(Nat, a \o b, a, b) /\ ReadsAs(a \o b, a, b, 1)
    BY <1>5, Joined, ReadJoined
<1>7. a \o b \in Seq(Nat) /\ Len(a \o b) = 8
    BY <1>5, <1>6 DEF JoinOf
<1>8. U32At(a \o b, 1) = (v % 65536) + 65536 * (m % 65536)
    BY <1>2, <1>5, <1>6 DEF Is32, ReadsAs
<1>9. U32At(a \o b, 5) = w
    BY <1>4, <1>5, <1>6 DEF Is32, ReadsAs
<1>a. U64At(a \o b, 1) = v
    <2>1. U64At(a \o b, 1) = ((v % 65536) + 65536 * (m % 65536)) + 65536 * (65536 * w)
        BY <1>8, <1>9 DEF U64At
    <2> QED BY <2>1, <1>1
<1> QED BY <1>7, <1>a DEF LE64, a, b, m, w, Is64

\* A codec's tag is its place among the five, counted from 0.
LEMMA TagOf ==
    ASSUME NEW c \in Codec
    PROVE  codec_tag(c) \in 0 .. 4 /\ Tags[codec_tag(c) + 1] = c
<1> DEFINE k == CHOOSE i \in DOMAIN Tags : Tags[i] = c
<1>1. DOMAIN Tags = 1 .. 5
    BY DEF Tags
<1>2. \E i \in DOMAIN Tags : Tags[i] = c
    <2>1. /\ Tags[1] = "Av1" /\ Tags[2] = "Vp9" /\ Tags[3] = "Vp8" /\ Tags[4] = "H265"
          /\ Tags[5] = "H264"
        BY DEF Tags
    <2> QED BY <2>1, <1>1 DEF Codec
<1>3. k \in DOMAIN Tags /\ Tags[k] = c
    BY <1>2
<1> HIDE DEF k
<1>4. k \in 1 .. 5 /\ (k - 1) + 1 = k /\ k - 1 \in 0 .. 4
    BY <1>1, <1>3
<1>5. codec_tag(c) = k - 1
    BY DEF codec_tag, k
<1> QED BY <1>3, <1>4, <1>5

\* What a header can say: the widths of its fields.
U16 == {v \in Nat : v < 65536}
U32 == {v \in Nat : v < 65536 * 65536}
U64 == {v \in Nat : (v \div 65536) \div 65536 \in U32}
HeaderFields ==
    [codec : Codec, keyframe : BOOLEAN, width : U16, height : U16, time : U64, len : U32]

(***************************************************************************)
(* What the mobile core reads from the 18 bytes of a header is what the    *)
(* server wrote there (q2.rs video_header_bytes, session.rs                *)
(* parse_video_header), for every codec, size, time and length.            *)
(***************************************************************************)
THEOREM HeaderReadBack ==
    \A f \in HeaderFields :
        /\ Len(video_header_bytes(f)) = 18
        /\ parse_video_header(video_header_bytes(f)) = f
<1> TAKE f \in HeaderFields
<1> DEFINE key == IF f.keyframe THEN 1 ELSE 0
           p == <<codec_tag(f.codec), key>>
           w == LE16(f.width)
           h == LE16(f.height)
           t == LE64(f.time)
           l == LE32(f.len)
           q1 == p \o w
           q2 == q1 \o h
           q3 == q2 \o t
           q4 == q3 \o l
<1>1. /\ f.codec \in Codec /\ f.keyframe \in BOOLEAN
      /\ f.width \in Nat /\ f.width < 65536 /\ f.height \in Nat /\ f.height < 65536
      /\ f.time \in Nat /\ (f.time \div 65536) \div 65536 < 65536 * 65536
      /\ f.len \in Nat /\ f.len < 65536 * 65536
      /\ f = [codec |-> f.codec, keyframe |-> f.keyframe, width |-> f.width, height |-> f.height,
              time |-> f.time, len |-> f.len]
    <2>1. /\ f.codec \in Codec /\ f.keyframe \in BOOLEAN
          /\ f.width \in U16 /\ f.height \in U16 /\ f.time \in U64 /\ f.len \in U32
        BY DEF HeaderFields
    <2>2. f = [codec |-> f.codec, keyframe |-> f.keyframe, width |-> f.width,
               height |-> f.height, time |-> f.time, len |-> f.len]
        BY DEF HeaderFields
    <2>3. /\ f.time \in Nat /\ (f.time \div 65536) \div 65536 < 65536 * 65536
          /\ f.len \in Nat /\ f.len < 65536 * 65536
        BY <2>1 DEF U32, U64
    <2>4. f.width \in Nat /\ f.width < 65536 /\ f.height \in Nat /\ f.height < 65536
        BY <2>1 DEF U16
    <2> QED BY <2>1, <2>2, <2>3, <2>4
<1>2. p \in Seq(Nat) /\ Len(p) = 2 /\ p[1] = codec_tag(f.codec) /\ p[2] = key
    BY <1>1, TagOf
<1>3. Is16(w, f.width) /\ Is16(h, f.height)
    <2>1. f.width % 65536 = f.width /\ f.height % 65536 = f.height
        BY <1>1
    <2>2. Is16(w, f.width % 65536) /\ Is16(h, f.height % 65536)
        BY <1>1, Word
    <2> QED BY <2>1, <2>2
<1>4. Is64(t, f.time)
    BY <1>1, VeryLongWord
<1>5. Is32(l, f.len)
    <2> DEFINE v == f.len
    <2>1. Is32(l, (v % 65536) + 65536 * ((v \div 65536) % 65536))
        BY <1>1, LongWord
    <2>2. v \in Nat /\ v < 65536 * 65536
        BY <1>1
    <2> HIDE DEF v
    <2>3. v = (v % 65536) + 65536 * (v \div 65536) /\ v \div 65536 \in Nat /\ v % 65536 \in Nat
        BY <2>2, Bytes
    <2>4. (v \div 65536) % 65536 = v \div 65536
        BY <2>2, <2>3
    <2> QED BY <2>1, <2>3, <2>4 DEF v
<1>6. /\ w \in Seq(Nat) /\ Len(w) = 2 /\ h \in Seq(Nat) /\ Len(h) = 2
      /\ t \in Seq(Nat) /\ Len(t) = 8 /\ l \in Seq(Nat) /\ Len(l) = 4
    BY <1>3, <1>4, <1>5 DEF Is16, Is32, Is64
<1>7. video_header_bytes(f) = q4
    BY DEF video_header_bytes
<1> HIDE DEF p, w, h, t, l
<1>8. JoinOf(Nat, q1, p, w) /\ ReadsAs(q1, p, w, 1)
    BY <1>2, <1>6, Joined, ReadJoined
<1>9. /\ q1 \in Seq(Nat) /\ Len(q1) = 4 /\ q1[1] = p[1] /\ q1[2] = p[2]
      /\ U16At(q1, 3) = f.width
    BY <1>2, <1>3, <1>6, <1>8 DEF JoinOf, ReadsAs, Is16
<1> HIDE DEF q1
<1>a. JoinOf(Nat, q2, q1, h) /\ ReadsAs(q2, q1, h, 3) /\ ReadsAs(q2, q1, h, 1)
    BY <1>9, <1>6, Joined, ReadJoined
<1>b. /\ q2 \in Seq(Nat) /\ Len(q2) = 6 /\ q2[1] = p[1] /\ q2[2] = p[2]
      /\ U16At(q2, 3) = f.width /\ U16At(q2, 5) = f.height
    <2>1. q2 \in Seq(Nat) /\ Len(q2) = 6 /\ q2[1] = q1[1] /\ q2[2] = q1[2]
        <3>1. 1 \in 1 .. Len(q1) /\ 2 \in 1 .. Len(q1)
            BY <1>9
        <3>2. /\ q2 \in Seq(Nat) /\ Len(q2) = Len(q1) + Len(h)
              /\ \A i \in 1 .. Len(q1) : q2[i] = q1[i]
            BY <1>a DEF JoinOf
        <3>3. q2[1] = q1[1] /\ q2[2] = q1[2]
            BY <3>1, <3>2
        <3> QED BY <3>2, <3>3, <1>9, <1>6
    <2>2. U16At(q2, 3) = U16At(q1, 3)
        BY <1>9, <1>a DEF ReadsAs
    <2>3. U16At(q2, 5) = U16At(h, 1)
        BY <1>9, <1>6, <1>a DEF ReadsAs
    <2> QED BY <2>1, <2>2, <2>3, <1>9, <1>3 DEF Is16
<1> HIDE DEF q2
<1>c. JoinOf(Nat, q3, q2, t) /\ ReadsAs(q3, q2, t, 1) /\ ReadsAs(q3, q2, t, 3) /\ ReadsAs(q3, q2, t, 5)
    BY <1>b, <1>6, Joined, ReadJoined
<1>d. /\ q3 \in Seq(Nat) /\ Len(q3) = 14 /\ q3[1] = p[1] /\ q3[2] = p[2]
      /\ U16At(q3, 3) = f.width /\ U16At(q3, 5) = f.height /\ U64At(q3, 7) = f.time
    <2>1. q3 \in Seq(Nat) /\ Len(q3) = 14 /\ q3[1] = q2[1] /\ q3[2] = q2[2]
        <3>1. 1 \in 1 .. Len(q2) /\ 2 \in 1 .. Len(q2)
            BY <1>b
        <3>2. /\ q3 \in Seq(Nat) /\ Len(q3) = Len(q2) + Len(t)
              /\ \A i \in 1 .. Len(q2) : q3[i] = q2[i]
            BY <1>c DEF JoinOf
        <3>3. q3[1] = q2[1] /\ q3[2] = q2[2]
            BY <3>1, <3>2
        <3> QED BY <3>2, <3>3, <1>b, <1>6
    <2>2. U16At(q3, 3) = U16At(q2, 3) /\ U16At(q3, 5) = U16At(q2, 5)
        BY <1>b, <1>c DEF ReadsAs
    <2>3. U64At(q3, 7) = U64At(t, 1)
        BY <1>b, <1>6, <1>c DEF ReadsAs
    <2> QED BY <2>1, <2>2, <2>3, <1>b, <1>4 DEF Is64
<1> HIDE DEF q3
<1>e. /\ JoinOf(Nat, q4, q3, l) /\ ReadsAs(q4, q3, l, 1) /\ ReadsAs(q4, q3, l, 3)
      /\ ReadsAs(q4, q3, l, 5) /\ ReadsAs(q4, q3, l, 7)
    BY <1>d, <1>6, Joined, ReadJoined
<1>f. /\ Len(q4) = 18 /\ q4[1] = p[1] /\ q4[2] = p[2]
      /\ U16At(q4, 3) = f.width /\ U16At(q4, 5) = f.height /\ U64At(q4, 7) = f.time
      /\ U32At(q4, 15) = f.len
    <2>1. q4 \in Seq(Nat) /\ Len(q4) = 18 /\ q4[1] = q3[1] /\ q4[2] = q3[2]
        <3>1. 1 \in 1 .. Len(q3) /\ 2 \in 1 .. Len(q3)
            BY <1>d
        <3>2. /\ q4 \in Seq(Nat) /\ Len(q4) = Len(q3) + Len(l)
              /\ \A i \in 1 .. Len(q3) : q4[i] = q3[i]
            BY <1>e DEF JoinOf
        <3>3. q4[1] = q3[1] /\ q4[2] = q3[2]
            BY <3>1, <3>2
        <3> QED BY <3>2, <3>3, <1>d, <1>6
    <2>2. U16At(q4, 3) = U16At(q3, 3) /\ U16At(q4, 5) = U16At(q3, 5)
        BY <1>d, <1>e DEF ReadsAs
    <2>3. U64At(q4, 7) = U64At(q3, 7)
        BY <1>d, <1>e DEF ReadsAs
    <2>4. U32At(q4, 15) = U32At(l, 1)
        BY <1>d, <1>6, <1>e DEF ReadsAs
    <2> QED BY <2>1, <2>2, <2>3, <2>4, <1>d, <1>5 DEF Is32
<1> HIDE DEF q4
<1>g. q4[1] \in 0 .. 4 /\ Tags[q4[1] + 1] = f.codec
    BY <1>1, <1>2, <1>f, TagOf
<1>h. (q4[2] = 1) = f.keyframe
    BY <1>1, <1>2, <1>f
<1>i. parse_video_header(q4) =
          [codec |-> f.codec, keyframe |-> f.keyframe, width |-> f.width, height |-> f.height,
           time |-> f.time, len |-> f.len]
    <2>1. Len(Tags) = 5
        BY DEF Tags
    <2>2. (IF q4[1] < Len(Tags) THEN Tags[q4[1] + 1] ELSE Unset) = f.codec
        BY <2>1, <1>g
    <2> QED BY <2>2, <1>f, <1>h DEF parse_video_header
<1>j. parse_video_header(q4) = f
    BY <1>i, <1>1
<1> QED BY <1>7, <1>f, <1>j
-----------------------------------------------------------------------------
(* What may lie in the queues of a session whose server has sent k frames. *)

Full(j) == Frame("Vp9", Width, Height, j)
Bare(j) == Frame(Unset, 0, 0, j)
Sound(f) == f.keyframe = (f.time = 1000)
Packets(k) ==
    {f \in [codec : Codec, keyframe : BOOLEAN, width : {Width}, height : {Height},
            time : {1000 * j : j \in 1 .. k}, len : {300}] : Sound(f)}

Events(k) == {Video(f) : f \in Packets(k)} \cup [is : {"ready", "error", "disconnected"}]
Messages(k) ==
    {Video(Full(j)) : j \in 1 .. k} \cup {Video(Bare(j)) : j \in 1 .. k}
    \cup [is : {"empty", "audio", "clipboard", "end"}]
Channel(k) == {Video(Full(j)) : j \in 1 .. k}
Coded(k) == {OnStream(video_header_bytes(Full(j))) : j \in 1 .. k} \cup {Fin}

\* What the reader will find in the stream.
Shows(e) == IF e = Fin THEN Fin ELSE Video(parse_video_header(e.head))
Unread(s) == [i \in 1 .. Len(s) |-> Shows(s[i])]

\* Frames rise in time along a queue, and those of one queue are before those of the next.
IsVideo(x) == x.is = "video"
Precedes(x, y) == IsVideo(x) /\ IsVideo(y) => x.frame.time < y.frame.time
Rising(s) == \A i, j \in 1 .. Len(s) : i < j => Precedes(s[i], s[j])
Earlier(s, t) == \A i \in 1 .. Len(s), j \in 1 .. Len(t) : Precedes(s[i], t[j])
Silent(s) == \A i \in 1 .. Len(s) : ~ IsVideo(s[i])

\* "ready" first and only there, "disconnected" last when it is over, and only there.
WellTold(s, over) ==
    /\ s # <<>> /\ s[1].is = "ready"
    /\ \A i \in 1 .. Len(s) : s[i].is = "ready" => i = 1
    /\ \A i \in 1 .. Len(s) : s[i].is = "disconnected" <=> over /\ i = Len(s)
-----------------------------------------------------------------------------
(* The inductive invariant. *)

Numbers ==
    /\ quic \in BOOLEAN /\ installed \in {NoSession} \cup Session
    /\ started \in 0 .. MaxSessions /\ traffic \in 0 .. MaxTraffic
    /\ call \in [Session -> {"none", "opening", "spawned", "returned"}]
    /\ sender \in [Session -> BOOLEAN] /\ connected \in [Session -> BOOLEAN]
    /\ loop \in [Session -> {"none", "running", "ended"}]
    /\ server \in [Session -> {"none", "up", "ended"}]
    /\ queued \in [Session -> Nat] /\ achan \in [Session -> Nat] /\ sent \in [Session -> Nat]
    /\ ready \in [Session -> Codec \cup {Unset}]
    /\ \A n \in Session : queued[n] =< traffic /\ sent[n] =< traffic /\ achan[n] =< AudioCap

Queues ==
    /\ DOMAIN control = Session /\ DOMAIN stream = Session
    /\ DOMAIN vchan = Session /\ DOMAIN seen = Session
    /\ \A n \in Session :
           /\ control[n] \in Seq(Messages(sent[n])) /\ stream[n] \in Seq(Coded(sent[n]))
           /\ vchan[n] \in Seq(Channel(sent[n])) /\ Len(vchan[n]) =< VideoCap
           /\ seen[n] \in Seq(Events(sent[n]))

\* A session that is not open has nothing; one that is being installed or may be
\* installed has a call that got that far.
Untouched(n) ==
    /\ ~ sender[n] /\ ~ connected[n] /\ server[n] = "none"
    /\ control[n] = <<>> /\ stream[n] = <<>> /\ vchan[n] = <<>> /\ seen[n] = <<>>
Calls ==
    \A n \in Session :
        /\ n > started => call[n] = "none"
        /\ call[n] \in {"none", "opening"} => loop[n] = "none"
        /\ n = installed => call[n] = "returned"
        /\ loop[n] = "none" => Untouched(n)
        /\ loop[n] # "none" => ready[n] \in Codec
        /\ sender[n] => installed = n \/ call[n] = "spawned"
        /\ connected[n] => loop[n] = "running"

Told == \A n \in Session : loop[n] # "none" => WellTold(seen[n], loop[n] = "ended")

\* Frames come one way only, and in order along it.
Aligned(overQuic, shown, passed, ctl, unread) ==
    /\ overQuic => Silent(ctl)
    /\ ~ overQuic => Silent(unread) /\ Silent(passed)
    /\ Rising(shown) /\ Rising(passed) /\ Rising(ctl) /\ Rising(unread)
    /\ Earlier(shown, passed) /\ Earlier(shown, ctl) /\ Earlier(shown, unread)
    /\ Earlier(passed, unread)
InOrder ==
    \A n \in Session : Aligned(quic, seen[n], vchan[n], control[n], Unread(stream[n]))

MobileInv == Numbers /\ Queues /\ Calls /\ Told /\ InOrder
-----------------------------------------------------------------------------
(* Queues joined, and what their order comes to. *)

Entries == Events(MaxTraffic) \cup Messages(MaxTraffic) \cup Channel(MaxTraffic) \cup {Fin}

OrderOf(s, t, u) ==
    /\ Rising(s \o t) <=> Rising(s) /\ Rising(t) /\ Earlier(s, t)
    /\ Earlier(s \o t, u) <=> Earlier(s, u) /\ Earlier(t, u)
    /\ Earlier(u, s \o t) <=> Earlier(u, s) /\ Earlier(u, t)
    /\ Silent(s \o t) <=> Silent(s) /\ Silent(t)

LEMMA Order ==
    ASSUME NEW S, NEW s \in Seq(S), NEW t \in Seq(S), NEW u \in Seq(S)
    PROVE  OrderOf(s, t, u)
<1> DEFINE st == s \o t
<1>1. JoinOf(S, st, s, t)
    BY Joined
<1> HIDE DEF st
<1>2. /\ Len(s) \in Nat /\ Len(t) \in Nat /\ Len(u) \in Nat /\ Len(st) = Len(s) + Len(t)
      /\ \A i \in 1 .. Len(s) : st[i] = s[i]
      /\ \A i \in 1 .. Len(t) : st[Len(s) + i] = t[i]
    BY <1>1 DEF JoinOf
\* A place in the whole is one in the first part or one in the second.
<1>3. ASSUME NEW i \in 1 .. Len(st), ~ (i \in 1 .. Len(s))
      PROVE  \E j \in 1 .. Len(t) : i = Len(s) + j
    <2>1. i - Len(s) \in 1 .. Len(t) /\ i = Len(s) + (i - Len(s))
        BY <1>2, <1>3
    <2> QED BY <2>1
<1>4. /\ \A i \in 1 .. Len(s) : i \in 1 .. Len(st)
      /\ \A i \in 1 .. Len(t) : Len(s) + i \in 1 .. Len(st)
      /\ \A i \in 1 .. Len(s), j \in 1 .. Len(t) : i < Len(s) + j
      /\ \A i, j \in 1 .. Len(t) : i < j <=> Len(s) + i < Len(s) + j
    BY <1>2
<1>5. Rising(st) => Rising(s) /\ Rising(t) /\ Earlier(s, t)
    <2> SUFFICES ASSUME Rising(st) PROVE Rising(s) /\ Rising(t) /\ Earlier(s, t)
        OBVIOUS
    <2>0. \A i, j \in 1 .. Len(st) : i < j => Precedes(st[i], st[j])
        BY DEF Rising
    <2>1. Rising(s)
        BY <2>0, <1>2, <1>4 DEF Rising
    <2>2. Rising(t)
        <3> SUFFICES ASSUME NEW i \in 1 .. Len(t), NEW j \in 1 .. Len(t), i < j
                     PROVE  Precedes(t[i], t[j])
            BY DEF Rising
        <3>1. Precedes(st[Len(s) + i], st[Len(s) + j])
            BY <2>0, <1>4
        <3> QED BY <3>1, <1>2
    <2>3. Earlier(s, t)
        <3> SUFFICES ASSUME NEW i \in 1 .. Len(s), NEW j \in 1 .. Len(t)
                     PROVE  Precedes(s[i], t[j])
            BY DEF Earlier
        <3>1. Precedes(st[i], st[Len(s) + j])
            BY <2>0, <1>4
        <3> QED BY <3>1, <1>2
    <2> QED BY <2>1, <2>2, <2>3
<1>6. Rising(s) /\ Rising(t) /\ Earlier(s, t) => Rising(st)
    <2> SUFFICES ASSUME Rising(s), Rising(t), Earlier(s, t),
                        NEW i \in 1 .. Len(st), NEW j \in 1 .. Len(st), i < j
                 PROVE  Precedes(st[i], st[j])
        BY DEF Rising
    <2>1. CASE j \in 1 .. Len(s)
        <3>1. i \in 1 .. Len(s)
            BY <2>1, <1>2
        <3> QED BY <3>1, <2>1, <1>2 DEF Rising
    <2>2. CASE ~ (j \in 1 .. Len(s)) /\ i \in 1 .. Len(s)
        <3>1. PICK b \in 1 .. Len(t) : j = Len(s) + b
            BY <2>2, <1>3
        <3>2. Precedes(s[i], t[b])
            BY <2>2 DEF Earlier
        <3> QED BY <3>1, <3>2, <2>2, <1>2
    <2>3. CASE ~ (j \in 1 .. Len(s)) /\ ~ (i \in 1 .. Len(s))
        <3>1. PICK b \in 1 .. Len(t) : j = Len(s) + b
            BY <2>3, <1>3
        <3>2. PICK a \in 1 .. Len(t) : i = Len(s) + a
            BY <2>3, <1>3
        <3>3. a < b
            BY <3>1, <3>2, <1>4
        <3>4. Precedes(t[a], t[b])
            BY <3>3 DEF Rising
        <3> QED BY <3>1, <3>2, <3>4, <1>2
    <2> QED BY <2>1, <2>2, <2>3
<1>7. Earlier(st, u) <=> Earlier(s, u) /\ Earlier(t, u)
    <2>1. ASSUME Earlier(st, u) PROVE Earlier(s, u) /\ Earlier(t, u)
        <3>1. \A i \in 1 .. Len(st), j \in 1 .. Len(u) : Precedes(st[i], u[j])
            BY <2>1 DEF Earlier
        <3>2. \A i \in 1 .. Len(s), j \in 1 .. Len(u) : Precedes(s[i], u[j])
            BY <3>1, <1>2, <1>4
        <3>3. \A i \in 1 .. Len(t), j \in 1 .. Len(u) : Precedes(st[Len(s) + i], u[j])
            BY <3>1, <1>4
        <3> QED BY <3>2, <3>3, <1>2 DEF Earlier
    <2>2. ASSUME Earlier(s, u), Earlier(t, u), NEW i \in 1 .. Len(st), NEW j \in 1 .. Len(u)
          PROVE  Precedes(st[i], u[j])
        <3>1. CASE i \in 1 .. Len(s)
            BY <3>1, <2>2, <1>2 DEF Earlier
        <3>2. CASE ~ (i \in 1 .. Len(s))
            <4>1. PICK a \in 1 .. Len(t) : i = Len(s) + a
                BY <3>2, <1>3
            <4>2. Precedes(t[a], u[j])
                BY <2>2 DEF Earlier
            <4> QED BY <4>1, <4>2, <1>2
        <3> QED BY <3>1, <3>2
    <2> QED BY <2>1, <2>2 DEF Earlier
<1>8. Earlier(u, st) <=> Earlier(u, s) /\ Earlier(u, t)
    <2>1. ASSUME Earlier(u, st) PROVE Earlier(u, s) /\ Earlier(u, t)
        <3>1. \A i \in 1 .. Len(u), j \in 1 .. Len(st) : Precedes(u[i], st[j])
            BY <2>1 DEF Earlier
        <3>2. \A i \in 1 .. Len(u), j \in 1 .. Len(s) : Precedes(u[i], s[j])
            BY <3>1, <1>2, <1>4
        <3>3. \A i \in 1 .. Len(u), j \in 1 .. Len(t) : Precedes(u[i], st[Len(s) + j])
            BY <3>1, <1>4
        <3> QED BY <3>2, <3>3, <1>2 DEF Earlier
    <2>2. ASSUME Earlier(u, s), Earlier(u, t), NEW i \in 1 .. Len(u), NEW j \in 1 .. Len(st)
          PROVE  Precedes(u[i], st[j])
        <3>1. CASE j \in 1 .. Len(s)
            BY <3>1, <2>2, <1>2 DEF Earlier
        <3>2. CASE ~ (j \in 1 .. Len(s))
            <4>1. PICK b \in 1 .. Len(t) : j = Len(s) + b
                BY <3>2, <1>3
            <4>2. Precedes(u[i], t[b])
                BY <2>2 DEF Earlier
            <4> QED BY <4>1, <4>2, <1>2
        <3> QED BY <3>1, <3>2
    <2> QED BY <2>1, <2>2 DEF Earlier
<1>9. Silent(st) <=> Silent(s) /\ Silent(t)
    <2>1. ASSUME Silent(st) PROVE Silent(s) /\ Silent(t)
        BY <2>1, <1>2, <1>4 DEF Silent
    <2>2. ASSUME Silent(s), Silent(t), NEW i \in 1 .. Len(st)
          PROVE  ~ IsVideo(st[i])
        <3>1. CASE i \in 1 .. Len(s)
            BY <3>1, <2>2, <1>2 DEF Silent
        <3>2. CASE ~ (i \in 1 .. Len(s))
            <4>1. PICK a \in 1 .. Len(t) : i = Len(s) + a
                BY <3>2, <1>3
            <4> QED BY <4>1, <2>2, <1>2 DEF Silent
        <3> QED BY <3>1, <3>2
    <2> QED BY <2>1, <2>2 DEF Silent
<1> QED BY <1>5, <1>6, <1>7, <1>8, <1>9 DEF OrderOf, st

\* A queue without frames orders with anything.
LEMMA SilentOrder ==
    ASSUME NEW s, NEW t, Silent(s)
    PROVE  Rising(s) /\ Earlier(s, t) /\ Earlier(t, s)
BY DEF Silent, Rising, Earlier, Precedes

LEMMA SingleOrder ==
    ASSUME NEW x
    PROVE  Rising(<<x>>) /\ (~ IsVideo(x) => Silent(<<x>>))
<1>1. Len(<<x>>) = 1 /\ <<x>>[1] = x
    OBVIOUS
<1> QED BY <1>1 DEF Rising, Silent

\* A queue is its head and the rest.
LEMMA Taken ==
    ASSUME NEW S, NEW s \in Seq(S), s # <<>>
    PROVE  /\ Head(s) \in S /\ <<Head(s)>> \in Seq(S) /\ Tail(s) \in Seq(S)
           /\ s = <<Head(s)>> \o Tail(s)
           /\ Len(Tail(s)) =< Len(s) - 1
<1>1. /\ Head(s) \in S /\ Tail(s) \in Seq(S) /\ Len(Tail(s)) = Len(s) - 1
    BY HeadTailProperties
<1>2. s = <<Head(s)>> \o Tail(s)
    BY ConcatProperties, HeadTailProperties
<1> QED BY <1>1, <1>2
-----------------------------------------------------------------------------
(* What the queues hold. *)

\* The server's frames: what the header can say, and what the observer may be shown.
LEMMA FullFrame ==
    ASSUME NEW k \in Nat, NEW j \in 1 .. k, k =< MaxTraffic
    PROVE  /\ Full(j) \in HeaderFields /\ Full(j) \in Packets(k)
           /\ Full(j).time = 1000 * j /\ Bare(j).time = 1000 * j
<1>1. j \in Nat /\ j =< 2000000000
    BY MobileAssumption, SMT DEF MostFrames
<1>2. /\ 1000 * j \in U64 /\ 1280 \in U16 /\ 720 \in U16 /\ 300 \in U32
    <2> DEFINE v == 1000 * j
    <2>1. v \in Nat /\ v =< 2000000000000
        BY <1>1, SMT
    <2> HIDE DEF v
    <2>2. /\ v \div 65536 \in Nat /\ v = (v % 65536) + 65536 * (v \div 65536) /\ v % 65536 \in Nat
        BY <2>1, Bytes
    <2> DEFINE m == v \div 65536
    <2>3. m \in Nat /\ m =< 2000000000000
        BY <2>1, <2>2, SMT
    <2> HIDE DEF m
    <2>4. /\ m \div 65536 \in Nat /\ m = (m % 65536) + 65536 * (m \div 65536) /\ m % 65536 \in Nat
        BY <2>3, Bytes
    <2>5. m \div 65536 < 65536 * 65536
        BY <2>3, <2>4, SMT
    <2>6. v \in U64
        BY <2>1, <2>4, <2>5 DEF U64, U32, m
    <2>7. 300 < 65536 * 65536 /\ 1280 < 65536 /\ 720 < 65536
        BY SMT
    <2> QED BY <2>6, <2>7 DEF U16, U32, v
<1>3. "Vp9" \in Codec /\ (j = 1) \in BOOLEAN /\ (j = 1) = (1000 * j = 1000)
    BY <1>1 DEF Codec
<1>4. Full(j) \in HeaderFields
    BY <1>2, <1>3 DEF Full, Frame, HeaderFields, Width, Height
<1>5. 1000 * j \in {1000 * i : i \in 1 .. k}
    OBVIOUS
<1>6. Full(j) \in [codec : Codec, keyframe : BOOLEAN, width : {Width}, height : {Height},
                    time : {1000 * i : i \in 1 .. k}, len : {300}]
    BY <1>3, <1>5 DEF Full, Frame
<1>7. Sound(Full(j))
    BY <1>3 DEF Full, Frame, Sound
<1>8. Full(j).time = 1000 * j /\ Bare(j).time = 1000 * j
    BY DEF Full, Bare, Frame
<1> QED BY <1>4, <1>6, <1>7, <1>8 DEF Packets

\* The reader makes of the server's bytes the frame they came from.
LEMMA Read ==
    ASSUME NEW k \in Nat, NEW j \in 1 .. k, k =< MaxTraffic
    PROVE  LET e == OnStream(video_header_bytes(Full(j)))
           IN  e # Fin /\ Readable(e) /\ Shows(e) = Video(Full(j))
                       /\ Video(parse_video_header(e.head)) = Video(Full(j))
<1> DEFINE e == OnStream(video_header_bytes(Full(j)))
<1>1. e.head = video_header_bytes(Full(j)) /\ e.is = "frame" /\ Fin.is = "fin"
    BY DEF OnStream, Fin
<1>2. e # Fin
    BY <1>1
<1>3. parse_video_header(video_header_bytes(Full(j))) = Full(j)
    BY FullFrame, HeaderReadBack
<1>4. Full(j).codec # Unset
    BY DEF Full, Frame, Unset
<1> HIDE DEF e
<1> QED BY <1>1, <1>2, <1>3, <1>4 DEF Readable, Shows, e

\* What one more frame leaves in a queue is what was there.
LEMMA Grow ==
    ASSUME NEW k \in Nat, NEW m \in Nat, k =< m
    PROVE  /\ \A s \in Seq(Events(k)) : s \in Seq(Events(m))
           /\ \A s \in Seq(Messages(k)) : s \in Seq(Messages(m))
           /\ \A s \in Seq(Channel(k)) : s \in Seq(Channel(m))
           /\ \A s \in Seq(Coded(k)) : s \in Seq(Coded(m))
<1>1. \A j \in 1 .. k : j \in 1 .. m
    OBVIOUS
<1>2. Messages(k) \subseteq Messages(m)
    BY <1>1 DEF Messages
<1>3. Channel(k) \subseteq Channel(m)
    BY <1>1 DEF Channel
<1>4. Coded(k) \subseteq Coded(m)
    BY <1>1 DEF Coded
<1>5. Events(k) \subseteq Events(m)
    <2>1. {1000 * j : j \in 1 .. k} \subseteq {1000 * j : j \in 1 .. m}
        BY <1>1
    <2> DEFINE Fields(T) == [codec : Codec, keyframe : BOOLEAN, width : {Width},
                             height : {Height}, time : T, len : {300}]
    <2>2. Fields({1000 * j : j \in 1 .. k}) \subseteq Fields({1000 * j : j \in 1 .. m})
        BY <2>1
    <2>3. Packets(k) \subseteq Packets(m)
        BY <2>2 DEF Packets
    <2> QED BY <2>3 DEF Events
<1> QED BY <1>2, <1>3, <1>4, <1>5, SeqMonotonic

LEMMA Entered ==
    ASSUME NEW k \in Nat, k =< MaxTraffic
    PROVE  /\ \A x \in Events(k) \cup Messages(k) \cup Channel(k) : x \in Entries
           /\ \A s \in Seq(Events(k)) : s \in Seq(Entries)
           /\ \A s \in Seq(Messages(k)) : s \in Seq(Entries)
           /\ \A s \in Seq(Channel(k)) : s \in Seq(Entries)
<1> DEFINE m == MaxTraffic
<1>1. m \in Nat
    BY MobileAssumption
<1>2. /\ Events(m) \subseteq Entries /\ Messages(m) \subseteq Entries
      /\ Channel(m) \subseteq Entries
    BY DEF Entries
<1> HIDE DEF m
<1>3. /\ \A s \in Seq(Events(m)) : s \in Seq(Entries)
      /\ \A s \in Seq(Messages(m)) : s \in Seq(Entries)
      /\ \A s \in Seq(Channel(m)) : s \in Seq(Entries)
    BY <1>2, SeqMonotonic
<1>4. k =< m
    BY DEF m
<1>5. \A j \in 1 .. k : j \in 1 .. m
    BY <1>1, <1>4
<1>6. Messages(k) \subseteq Messages(m) /\ Channel(k) \subseteq Channel(m)
    BY <1>5 DEF Messages, Channel
<1>7. ASSUME NEW x \in Events(k) PROVE x \in Entries
    <2>1. <<x>> \in Seq(Events(k)) /\ Len(<<x>>) = 1 /\ <<x>>[1] = x
        OBVIOUS
    <2>2. <<x>> \in Seq(Entries)
        BY <1>1, <1>3, <1>4, <2>1, Grow
    <2> QED BY <2>1, <2>2
<1> QED BY <1>1, <1>2, <1>3, <1>4, <1>6, <1>7, Grow

\* What the reader finds in a stream of the server's, taken apart as the stream is.
LEMMA UnreadIs ==
    ASSUME NEW k \in Nat, k =< MaxTraffic, NEW s \in Seq(Coded(k))
    PROVE  Unread(s) \in Seq(Entries) /\ Len(Unread(s)) = Len(s)
<1>1. ASSUME NEW i \in 1 .. Len(s) PROVE Shows(s[i]) \in Entries
    <2>1. s[i] \in Coded(k)
        BY ElementOfSeq
    <2>2. CASE s[i] = Fin
        BY <2>2 DEF Shows, Entries
    <2>3. CASE \E j \in 1 .. k : s[i] = OnStream(video_header_bytes(Full(j)))
        <3>1. PICK j \in 1 .. k : s[i] = OnStream(video_header_bytes(Full(j)))
            BY <2>3
        <3>2. Shows(s[i]) = Video(Full(j))
            BY <3>1, Read
        <3>3. j \in 1 .. MaxTraffic
            BY MobileAssumption
        <3> QED BY <3>2, <3>3 DEF Entries, Channel
    <2> QED BY <2>1, <2>2, <2>3 DEF Coded
<1>2. Len(s) \in Nat
    OBVIOUS
<1>3. [i \in 1 .. Len(s) |-> Shows(s[i])] \in Seq(Entries)
    BY <1>1, <1>2, SeqDef
<1> QED BY <1>2, <1>3 DEF Unread

LEMMA UnreadJoined ==
    ASSUME NEW k \in Nat, k =< MaxTraffic, NEW s \in Seq(Coded(k)), NEW t \in Seq(Coded(k))
    PROVE  Unread(s \o t) = Unread(s) \o Unread(t)
<1> DEFINE st == s \o t
           u == Unread(st)
           v == Unread(s) \o Unread(t)
<1>1. JoinOf(Coded(k), st, s, t)
    BY Joined
<1> HIDE DEF st
<1>2. st \in Seq(Coded(k))
    BY <1>1 DEF JoinOf
<1>3. /\ Unread(s) \in Seq(Entries) /\ Len(Unread(s)) = Len(s)
      /\ Unread(t) \in Seq(Entries) /\ Len(Unread(t)) = Len(t)
      /\ u \in Seq(Entries) /\ Len(u) = Len(st)
    BY <1>2, UnreadIs
<1>4. JoinOf(Entries, v, Unread(s), Unread(t))
    BY <1>3, Joined
<1> HIDE DEF v
<1>5. /\ Len(s) \in Nat /\ Len(t) \in Nat /\ Len(st) = Len(s) + Len(t)
      /\ \A i \in 1 .. Len(s) : st[i] = s[i]
      /\ \A i \in 1 .. Len(t) : st[Len(s) + i] = t[i]
    BY <1>1 DEF JoinOf
<1>6. /\ v \in Seq(Entries) /\ Len(v) = Len(s) + Len(t)
      /\ \A i \in 1 .. Len(s) : v[i] = Unread(s)[i]
      /\ \A i \in 1 .. Len(t) : v[Len(s) + i] = Unread(t)[i]
    BY <1>3, <1>4 DEF JoinOf
<1>7. /\ \A i \in 1 .. Len(s) : Unread(s)[i] = Shows(s[i])
      /\ \A i \in 1 .. Len(t) : Unread(t)[i] = Shows(t[i])
      /\ \A i \in 1 .. Len(st) : u[i] = Shows(st[i])
    BY DEF Unread
<1> HIDE DEF u
<1>8. ASSUME NEW i \in 1 .. Len(u) PROVE u[i] = v[i]
    <2>1. i \in 1 .. Len(st)
        BY <1>3
    <2>2. CASE i \in 1 .. Len(s)
        BY <2>1, <2>2, <1>5, <1>6, <1>7
    <2>3. CASE ~ (i \in 1 .. Len(s))
        <3>1. i - Len(s) \in 1 .. Len(t) /\ i = Len(s) + (i - Len(s))
            BY <2>1, <2>3, <1>5
        <3>2. PICK j \in 1 .. Len(t) : i = Len(s) + j
            BY <3>1
        <3>3. st[i] = t[j] /\ v[i] = Unread(t)[j]
            BY <3>2, <1>5, <1>6
        <3> QED BY <3>3, <2>1, <1>7
    <2> QED BY <2>2, <2>3
<1>9. Len(u) = Len(v)
    BY <1>3, <1>5, <1>6
<1>a. u = v
    BY <1>3, <1>6, <1>8, <1>9, SeqEqual
<1> QED BY <1>a DEF u, v, st

LEMMA UnreadOne ==
    ASSUME NEW e
    PROVE  Unread(<<e>>) = <<Shows(e)>>
<1>1. Len(<<e>>) = 1 /\ <<e>>[1] = e
    OBVIOUS
<1>2. \A i \in 1 .. 1 : i = 1
    OBVIOUS
<1> QED BY <1>1, <1>2 DEF Unread

\* The next frame is later than all there is.
Timely(s, k) ==
    \A i \in 1 .. Len(s) : IsVideo(s[i]) => s[i].frame.time \in Nat /\ s[i].frame.time =< 1000 * k

LEMMA TimesOf ==
    ASSUME NEW k \in Nat, k =< MaxTraffic
    PROVE  /\ \A s \in Seq(Events(k)) : Timely(s, k)
           /\ \A s \in Seq(Messages(k)) : Timely(s, k)
           /\ \A s \in Seq(Channel(k)) : Timely(s, k)
           /\ \A s \in Seq(Coded(k)) : Timely(Unread(s), k)
<1>1. \A j \in 1 .. k : 1000 * j \in Nat /\ 1000 * j =< 1000 * k
    OBVIOUS
<1>2. \A f : Video(f).is = "video" /\ Video(f).frame = f
    BY DEF Video
<1>3. \A j \in 1 .. k : Full(j).time = 1000 * j /\ Bare(j).time = 1000 * j
    BY FullFrame
<1>4. ASSUME NEW s \in Seq(Events(k)) PROVE Timely(s, k)
    <2> SUFFICES ASSUME NEW i \in 1 .. Len(s), IsVideo(s[i])
                 PROVE  s[i].frame.time \in Nat /\ s[i].frame.time =< 1000 * k
        BY DEF Timely
    <2>1. s[i] \in Events(k)
        BY ElementOfSeq
    <2>2. PICK f \in Packets(k) : s[i] = Video(f)
        BY <2>1 DEF Events, IsVideo
    <2>3. f.time \in {1000 * j : j \in 1 .. k}
        BY DEF Packets
    <2> QED BY <2>2, <2>3, <1>1, <1>2
<1>5. ASSUME NEW s \in Seq(Messages(k)) PROVE Timely(s, k)
    <2> SUFFICES ASSUME NEW i \in 1 .. Len(s), IsVideo(s[i])
                 PROVE  s[i].frame.time \in Nat /\ s[i].frame.time =< 1000 * k
        BY DEF Timely
    <2>1. s[i] \in Messages(k)
        BY ElementOfSeq
    <2>2. PICK j \in 1 .. k : s[i] = Video(Full(j)) \/ s[i] = Video(Bare(j))
        BY <2>1 DEF Messages, IsVideo
    <2> QED BY <2>2, <1>1, <1>2, <1>3
<1>6. ASSUME NEW s \in Seq(Channel(k)) PROVE Timely(s, k)
    <2> SUFFICES ASSUME NEW i \in 1 .. Len(s), IsVideo(s[i])
                 PROVE  s[i].frame.time \in Nat /\ s[i].frame.time =< 1000 * k
        BY DEF Timely
    <2>1. s[i] \in Channel(k)
        BY ElementOfSeq
    <2>2. PICK j \in 1 .. k : s[i] = Video(Full(j))
        BY <2>1 DEF Channel
    <2> QED BY <2>2, <1>1, <1>2, <1>3
<1>7. ASSUME NEW s \in Seq(Coded(k)) PROVE Timely(Unread(s), k)
    <2> SUFFICES ASSUME NEW i \in 1 .. Len(Unread(s)), IsVideo(Unread(s)[i])
                 PROVE  Unread(s)[i].frame.time \in Nat /\ Unread(s)[i].frame.time =< 1000 * k
        BY DEF Timely
    <2>1. i \in 1 .. Len(s) /\ Unread(s)[i] = Shows(s[i])
        BY UnreadIs DEF Unread
    <2>2. s[i] \in Coded(k)
        BY <2>1, ElementOfSeq
    <2>3. s[i] # Fin
        BY <2>1 DEF Shows, IsVideo, Fin
    <2>4. PICK j \in 1 .. k : s[i] = OnStream(video_header_bytes(Full(j)))
        BY <2>2, <2>3 DEF Coded
    <2>5. Shows(s[i]) = Video(Full(j))
        BY <2>4, Read
    <2> QED BY <2>1, <2>5, <1>1, <1>2, <1>3
<1> QED BY <1>4, <1>5, <1>6, <1>7

LEMMA NextFrame ==
    ASSUME NEW k \in Nat, NEW s, Timely(s, k), NEW f, f.time = 1000 * (k + 1)
    PROVE  Earlier(s, <<Video(f)>>)
<1>1. Len(<<Video(f)>>) = 1 /\ <<Video(f)>>[1].frame.time = 1000 * (k + 1)
    BY DEF Video
<1>2. ASSUME NEW i \in 1 .. Len(s), IsVideo(s[i]) PROVE s[i].frame.time < 1000 * (k + 1)
    BY <1>2 DEF Timely
<1>3. \A j \in 1 .. 1 : j = 1
    OBVIOUS
<1> QED BY <1>1, <1>2, <1>3 DEF Earlier, Precedes

\* What a message leaves out is filled in, and its time is kept.
LEMMA PacketOf ==
    ASSUME NEW k \in Nat, k =< MaxTraffic, NEW j \in 1 .. k, NEW n, ready[n] \in Codec,
           NEW f, f = Full(j) \/ f = Bare(j)
    PROVE  Packet(n, f) \in Packets(k) /\ Packet(n, f).time = 1000 * j
<1>1. /\ Full(j) = [codec |-> "Vp9", keyframe |-> j = 1, width |-> Width, height |-> Height,
                    time |-> 1000 * j, len |-> 300]
      /\ Bare(j) = [codec |-> Unset, keyframe |-> j = 1, width |-> 0, height |-> 0,
                    time |-> 1000 * j, len |-> 300]
    BY DEF Full, Bare, Frame
<1>2. Width # 0 /\ Height # 0 /\ "Vp9" # Unset
    BY DEF Width, Height, Unset
<1>3. Packet(n, Full(j)) = Full(j)
    BY <1>1, <1>2 DEF Packet
<1>4. Packet(n, Bare(j)) = [codec |-> ready[n], keyframe |-> j = 1, width |-> Width,
                            height |-> Height, time |-> 1000 * j, len |-> 300]
    BY <1>1, <1>2 DEF Packet
<1>5. Packet(n, Bare(j)) \in Packets(k)
    <2>1. 1000 * j \in {1000 * i : i \in 1 .. k} /\ (j = 1) = (1000 * j = 1000)
        OBVIOUS
    <2> QED BY <1>4, <2>1 DEF Packets, Sound
<1> QED BY <1>3, <1>4, <1>5, <1>1, FullFrame

\* The observer's account goes on, and ends, as it should.
LEMMA ToldMore ==
    ASSUME NEW S, NEW s \in Seq(S), NEW x \in S, WellTold(s, FALSE), x.is \in {"video", "error"}
    PROVE  WellTold(s \o <<x>>, FALSE)
<1> DEFINE t == <<x>>
           u == s \o t
<1>1. t \in Seq(S) /\ Len(t) = 1 /\ t[1] = x
    OBVIOUS
<1>2. JoinOf(S, u, s, t)
    BY <1>1, Joined
<1> HIDE DEF t, u
<1>3. /\ Len(s) \in Nat \ {0} /\ Len(u) = Len(s) + 1 /\ u[Len(s) + 1] = x
      /\ \A i \in 1 .. Len(s) : u[i] = s[i]
    BY <1>1, <1>2, EmptySeq DEF JoinOf, WellTold
<1>4. \A i \in 1 .. Len(u) : i \in 1 .. Len(s) \/ i = Len(s) + 1
    BY <1>3
<1>5. u # <<>> /\ u[1].is = "ready"
    BY <1>3 DEF WellTold
<1> QED BY <1>3, <1>4, <1>5 DEF WellTold, t, u

LEMMA ToldEnd ==
    ASSUME NEW S, NEW s \in Seq(S), NEW x \in S, WellTold(s, FALSE), x.is = "disconnected"
    PROVE  WellTold(s \o <<x>>, TRUE)
<1> DEFINE t == <<x>>
           u == s \o t
<1>1. t \in Seq(S) /\ Len(t) = 1 /\ t[1] = x
    OBVIOUS
<1>2. JoinOf(S, u, s, t)
    BY <1>1, Joined
<1> HIDE DEF t, u
<1>3. /\ Len(s) \in Nat \ {0} /\ Len(u) = Len(s) + 1 /\ u[Len(s) + 1] = x
      /\ \A i \in 1 .. Len(s) : u[i] = s[i]
    BY <1>1, <1>2, EmptySeq DEF JoinOf, WellTold
<1>4. \A i \in 1 .. Len(u) : (i \in 1 .. Len(s) /\ i # Len(u)) \/ i = Len(s) + 1
    BY <1>3
<1>5. u # <<>> /\ u[1].is = "ready"
    BY <1>3 DEF WellTold
<1> QED BY <1>3, <1>4, <1>5 DEF WellTold, t, u
-----------------------------------------------------------------------------
(* The order, as frames move along: s shown, v in the channel, c in the     *)
(* control stream, u unread in the video stream.                            *)

Queued(s, v, c, u) ==
    s \in Seq(Entries) /\ v \in Seq(Entries) /\ c \in Seq(Entries) /\ u \in Seq(Entries)

LEMMA SentByControl ==
    ASSUME NEW q \in BOOLEAN, NEW s, NEW v, NEW c, NEW u, Queued(s, v, c, u),
           Aligned(q, s, v, c, u), NEW x \in Entries,
           ~ IsVideo(x) \/ (~ q /\ Earlier(s, <<x>>) /\ Earlier(c, <<x>>))
    PROVE  Aligned(q, s, v, c \o <<x>>, u)
<1>1. <<x>> \in Seq(Entries) /\ s \in Seq(Entries) /\ c \in Seq(Entries)
    BY DEF Queued
<1>2. Rising(<<x>>) /\ Earlier(s, <<x>>) /\ Earlier(c, <<x>>) /\ (q => Silent(<<x>>))
    BY SingleOrder, SilentOrder
<1>3. OrderOf(c, <<x>>, s)
    BY <1>1, Order
<1> QED BY <1>2, <1>3 DEF OrderOf, Aligned

LEMMA SentByStream ==
    ASSUME NEW q \in BOOLEAN, NEW s, NEW v, NEW c, NEW u, Queued(s, v, c, u),
           Aligned(q, s, v, c, u), NEW x \in Entries,
           ~ IsVideo(x) \/ (q /\ Earlier(s, <<x>>) /\ Earlier(v, <<x>>) /\ Earlier(u, <<x>>))
    PROVE  Aligned(q, s, v, c, u \o <<x>>)
<1>1. <<x>> \in Seq(Entries) /\ s \in Seq(Entries) /\ v \in Seq(Entries) /\ u \in Seq(Entries)
    BY DEF Queued
<1>2. /\ Rising(<<x>>) /\ Earlier(s, <<x>>) /\ Earlier(v, <<x>>) /\ Earlier(u, <<x>>)
      /\ ~ q => Silent(<<x>>)
    BY SingleOrder, SilentOrder
<1>3. OrderOf(u, <<x>>, s) /\ OrderOf(u, <<x>>, v)
    BY <1>1, Order
<1> QED BY <1>2, <1>3 DEF OrderOf, Aligned

LEMMA IntoChannel ==
    ASSUME NEW q \in BOOLEAN, NEW s, NEW v, NEW c, NEW u, Queued(s, v, c, u),
           NEW x \in Entries, NEW t \in Seq(Entries), u = <<x>> \o t, Aligned(q, s, v, c, u)
    PROVE  Aligned(q, s, v \o <<x>>, c, t)
<1>1. <<x>> \in Seq(Entries) /\ s \in Seq(Entries) /\ v \in Seq(Entries)
    BY DEF Queued
<1>2. /\ OrderOf(<<x>>, t, s) /\ OrderOf(<<x>>, t, v)
      /\ OrderOf(v, <<x>>, s) /\ OrderOf(v, <<x>>, t)
    BY <1>1, Order
<1> QED BY <1>2 DEF OrderOf, Aligned

LEMMA ShownFromChannel ==
    ASSUME NEW q \in BOOLEAN, NEW s, NEW v, NEW c, NEW u, Queued(s, v, c, u),
           NEW x \in Entries, NEW t \in Seq(Entries), v = <<x>> \o t, Aligned(q, s, v, c, u)
    PROVE  Aligned(q, s \o <<x>>, t, c, u)
<1>1. /\ <<x>> \in Seq(Entries) /\ s \in Seq(Entries) /\ c \in Seq(Entries)
      /\ u \in Seq(Entries)
    BY DEF Queued
<1>2. /\ OrderOf(<<x>>, t, s) /\ OrderOf(<<x>>, t, u) /\ OrderOf(s, <<x>>, t)
      /\ OrderOf(s, <<x>>, c) /\ OrderOf(s, <<x>>, u)
    BY <1>1, Order
<1>3. Earlier(<<x>>, c)
    BY <1>2, SilentOrder DEF OrderOf, Aligned
<1> QED BY <1>2, <1>3 DEF OrderOf, Aligned

LEMMA ShownFromControl ==
    ASSUME NEW q \in BOOLEAN, NEW s, NEW v, NEW c, NEW u, Queued(s, v, c, u),
           NEW x \in Entries, NEW t \in Seq(Entries), c = <<x>> \o t, Aligned(q, s, v, c, u),
           NEW y \in Entries, IsVideo(x), IsVideo(y), y.frame.time = x.frame.time
    PROVE  Aligned(q, s \o <<y>>, v, t, u)
<1>1. /\ <<x>> \in Seq(Entries) /\ <<y>> \in Seq(Entries) /\ s \in Seq(Entries)
      /\ v \in Seq(Entries) /\ u \in Seq(Entries)
    BY DEF Queued
<1>2. /\ OrderOf(<<x>>, t, s) /\ OrderOf(s, <<y>>, t) /\ OrderOf(s, <<y>>, v)
      /\ OrderOf(s, <<y>>, u)
    BY <1>1, Order
<1>3. Len(<<x>>) = 1 /\ <<x>>[1] = x /\ Len(<<y>>) = 1 /\ <<y>>[1] = y
      /\ \A i \in 1 .. 1 : i = 1
    OBVIOUS
<1>4. ~ q
    BY <1>2, <1>3 DEF OrderOf, Aligned, Silent
<1>5. Earlier(s, <<y>>) /\ Earlier(<<y>>, t)
    <2>1. Earlier(s, <<x>>) /\ Earlier(<<x>>, t)
        BY <1>2 DEF OrderOf, Aligned
    <2> QED BY <2>1, <1>3 DEF Earlier, Precedes
<1>6. Earlier(<<y>>, v) /\ Earlier(<<y>>, u)
    BY <1>4, SilentOrder DEF Aligned
<1>7. Rising(<<y>>)
    BY SingleOrder
<1> QED BY <1>2, <1>5, <1>6, <1>7 DEF OrderOf, Aligned

LEMMA HeardByControl ==
    ASSUME NEW q \in BOOLEAN, NEW s, NEW v, NEW c, NEW u, Queued(s, v, c, u),
           NEW x \in Entries, NEW t \in Seq(Entries), c = <<x>> \o t, Aligned(q, s, v, c, u)
    PROVE  Aligned(q, s, v, t, u)
<1>1. <<x>> \in Seq(Entries) /\ s \in Seq(Entries)
    BY DEF Queued
<1>2. OrderOf(<<x>>, t, s)
    BY <1>1, Order
<1> QED BY <1>2 DEF OrderOf, Aligned

LEMMA EmptyOrder == Silent(<<>>)
<1>1. Len(<<>>) = 0 /\ \A i \in 1 .. 0 : FALSE
    OBVIOUS
<1> QED BY <1>1 DEF Silent

LEMMA LeftOrder ==
    ASSUME NEW q \in BOOLEAN, NEW s, NEW v, NEW c, NEW u, Queued(s, v, c, u),
           Aligned(q, s, v, c, u), NEW w \in Seq(Entries), Silent(w)
    PROVE  Aligned(q, s \o w, <<>>, <<>>, u)
<1>1. s \in Seq(Entries) /\ u \in Seq(Entries)
    BY DEF Queued
<1>2. OrderOf(s, w, u)
    BY <1>1, Order
<1>3. /\ Earlier(s, w) /\ Earlier(w, u) /\ Rising(w)
      /\ Silent(<<>>) /\ Rising(<<>>) /\ Earlier(<<>>, u) /\ Earlier(s \o w, <<>>)
    BY SilentOrder, EmptyOrder
<1> QED BY <1>2, <1>3 DEF OrderOf, Aligned
-----------------------------------------------------------------------------
(* The steps. *)

LEMMA SessionFacts ==
    ASSUME Numbers, Queues, NEW n \in Session
    PROVE  /\ sent[n] \in Nat /\ sent[n] =< MaxTraffic /\ quic \in BOOLEAN
           /\ Queued(seen[n], vchan[n], control[n], Unread(stream[n]))
           /\ Timely(seen[n], sent[n]) /\ Timely(vchan[n], sent[n])
           /\ Timely(control[n], sent[n]) /\ Timely(Unread(stream[n]), sent[n])
<1>1. sent[n] \in Nat /\ sent[n] =< MaxTraffic /\ quic \in BOOLEAN
    BY MobileAssumption DEF Numbers
<1>2. /\ control[n] \in Seq(Messages(sent[n])) /\ stream[n] \in Seq(Coded(sent[n]))
      /\ vchan[n] \in Seq(Channel(sent[n])) /\ seen[n] \in Seq(Events(sent[n]))
    BY DEF Queues
<1>3. Queued(seen[n], vchan[n], control[n], Unread(stream[n]))
    BY <1>1, <1>2, Entered, UnreadIs DEF Queued
<1> QED BY <1>1, <1>2, <1>3, TimesOf

\* What the queues, the observer and the frames sent are, the same after the step.
Unmoved == UNCHANGED <<quic, control, stream, vchan, sent, seen>>

LEMMA UnmovedKeeps ==
    ASSUME Queues, InOrder, Unmoved
    PROVE  Queues' /\ InOrder'
<1>1. Queues'
    BY DEF Queues, Unmoved
<1>2. InOrder'
    BY DEF InOrder, Unmoved
<1> QED BY <1>1, <1>2

\* The calls of the app, but for the one that opens a session.
LEMMA CallStep ==
    ASSUME MobileInv, NEW n \in Session,
           Disconnect \/ SendInput \/ StartCall(n) \/ OpenFails(n) \/ Install(n)
    PROVE  MobileInv'
<1> USE DEF MobileInv
<1>1. Unmoved /\ UNCHANGED loop
    BY DEF Unmoved, Disconnect, SendInput, StartCall, OpenFails, Install, InstallIn,
           apiUnchanged, planeVars
<1>2. Told'
    BY <1>1 DEF Told, Unmoved
<1>3. CASE Disconnect
    <2>1. Numbers'
        BY <1>3 DEF Numbers, Disconnect, Dropped, Detached, apiUnchanged, planeVars
    <2>2. Calls'
        <3>1. /\ \A m \in Session : sender'[m] => sender[m] /\ m # installed
              /\ \A m \in Session : connected'[m] => connected[m]
              /\ installed' = NoSession /\ \A m \in Session : m # NoSession
              /\ UNCHANGED <<call, started, control, stream, vchan, loop, server, ready, seen>>
            BY <1>3 DEF Numbers, Disconnect, Dropped, Detached, apiUnchanged, planeVars,
               Session, NoSession
        <3> QED BY <3>1 DEF Calls, Untouched
    <2> QED BY <1>1, <1>2, <2>1, <2>2, UnmovedKeeps
<1>4. CASE SendInput
    <2>1. Numbers'
        BY <1>4, MobileAssumption DEF Numbers, SendInput, Count, planeVars, NoSession
    <2>2. Calls'
        BY <1>4 DEF Calls, Untouched, SendInput, planeVars
    <2> QED BY <1>1, <1>2, <2>1, <2>2, UnmovedKeeps
<1>5. CASE StartCall(n)
    <2>1. Numbers'
        <3>1. /\ started' \in 0 .. MaxSessions /\ installed' = NoSession
              /\ call' \in [Session -> {"none", "opening", "spawned", "returned"}]
            BY <1>5, MobileAssumption DEF Numbers, StartCall, Goto, Session
        <3>2. sender' \in [Session -> BOOLEAN] /\ connected' \in [Session -> BOOLEAN]
            BY <1>5 DEF Numbers, StartCall, Dropped, Detached
        <3>3. UNCHANGED <<quic, traffic, loop, server, queued, achan, sent, ready>>
            BY <1>5 DEF StartCall, apiUnchanged, planeVars
        <3> QED BY <3>1, <3>2, <3>3 DEF Numbers
    <2>2. Calls'
        <3>1. call[n] = "none" /\ loop[n] = "none" /\ n # installed
            BY <1>5 DEF Calls, Numbers, StartCall, Session
        <3> QED BY <1>5, <3>1 DEF Numbers, Calls, Untouched, StartCall, Goto, Dropped, Detached,
                apiUnchanged, planeVars, Session, NoSession
    <2> QED BY <1>1, <1>2, <2>1, <2>2, UnmovedKeeps
<1>6. CASE OpenFails(n)
    <2>1. Numbers'
        BY <1>6 DEF Numbers, OpenFails, Goto, apiUnchanged, planeVars
    <2>2. Calls'
        BY <1>6 DEF Numbers, Calls, Untouched, OpenFails, Goto, apiUnchanged, planeVars
    <2> QED BY <1>1, <1>2, <2>1, <2>2, UnmovedKeeps
<1>7. CASE Install(n)
    <2>1. Numbers'
        BY <1>7 DEF Numbers, Install, InstallIn, Goto, Dropped, apiUnchanged, planeVars
    <2>2. Calls'
        <3>1. /\ \A m \in Session : sender'[m] => sender[m] /\ m # installed
              /\ installed' = n /\ call[n] = "spawned" /\ call' = [call EXCEPT ![n] = "returned"]
              /\ UNCHANGED <<started, connected, control, stream, vchan, loop, server, ready, seen>>
            BY <1>7 DEF Numbers, Install, InstallIn, Goto, Dropped, apiUnchanged, planeVars,
               Session, NoSession
        <3> QED BY <3>1 DEF Calls, Untouched, Numbers
    <2> QED BY <1>1, <1>2, <2>1, <2>2, UnmovedKeeps
<1> QED BY <1>3, <1>4, <1>5, <1>6, <1>7

LEMMA OpenStep ==
    ASSUME MobileInv, NEW n \in Session, Opened(n)
    PROVE  MobileInv'
<1> USE DEF MobileInv
<1> DEFINE hello == [is |-> "ready"]
<1>1. /\ control[n] = <<>> /\ stream[n] = <<>> /\ vchan[n] = <<>>
      /\ loop[n] = "none" /\ ~ sender[n]
    BY DEF Opened, Calls, Untouched
<1>2. /\ UNCHANGED <<quic, control, stream, vchan, sent>>
      /\ seen' = [seen EXCEPT ![n] = <<hello>>]
      /\ loop' = [loop EXCEPT ![n] = "running"]
    BY DEF Opened
<1>3. Numbers'
    BY DEF Numbers, Opened, Goto, Codec
<1>4. Queues'
    <2>1. hello \in Events(sent[n])
        BY DEF Events
    <2>2. <<hello>> \in Seq(Events(sent[n]))
        BY <2>1
    <2> HIDE DEF hello
    <2> QED BY <1>2, <2>2 DEF Queues
<1>5. Calls'
    BY <1>1 DEF Numbers, Calls, Untouched, Opened, Goto, Codec, Unset
<1>6. Told'
    <2>1. WellTold(<<hello>>, FALSE)
        BY DEF WellTold
    <2> HIDE DEF hello
    <2> QED BY <1>2, <2>1 DEF Told, Numbers, Queues
<1>7. InOrder'
    <2>1. ~ IsVideo(hello)
        BY DEF IsVideo
    <2> HIDE DEF hello
    <2>2. Silent(<<hello>>)
        BY <2>1, SingleOrder
    <2>3. Unread(<<>>) = <<>>
        BY DEF Unread
    <2>4. Aligned(quic, <<hello>>, <<>>, <<>>, <<>>)
        BY <2>2, SilentOrder, EmptyOrder DEF Aligned
    <2> QED BY <1>1, <1>2, <2>3, <2>4 DEF InOrder, Queues
<1> QED BY <1>3, <1>4, <1>5, <1>6, <1>7

\* One session's queues after the step, the others' being what they were.
Others(n) ==
    \A m \in Session \ {n} :
        /\ control'[m] = control[m] /\ stream'[m] = stream[m] /\ vchan'[m] = vchan[m]
        /\ seen'[m] = seen[m] /\ sent'[m] = sent[m] /\ loop'[m] = loop[m]

Holds(n) ==
    /\ control[n] \in Seq(Messages(sent[n])) /\ stream[n] \in Seq(Coded(sent[n]))
    /\ vchan[n] \in Seq(Channel(sent[n])) /\ Len(vchan[n]) =< VideoCap
    /\ seen[n] \in Seq(Events(sent[n]))
    /\ Aligned(quic, seen[n], vchan[n], control[n], Unread(stream[n]))

Domains == DOMAIN control = Session /\ DOMAIN stream = Session
           /\ DOMAIN vchan = Session /\ DOMAIN seen = Session

LEMMA OneSession ==
    ASSUME Queues, InOrder, NEW n \in Session, Others(n), Domains', Holds(n)', quic' = quic
    PROVE  Queues' /\ InOrder'
<1>1. Queues'
    BY DEF Queues, Others, Holds, Domains
<1>2. InOrder'
    BY DEF InOrder, Others, Holds
<1> QED BY <1>1, <1>2

\* The server's end, and the network.
LEMMA ServerStep ==
    ASSUME MobileInv, NEW n \in Session,
           \/ ServerVideo(n) \/ ServerAudio(n) \/ ServerControl(n)
           \/ ServerEnds(n) \/ StreamFinished(n)
    PROVE  MobileInv'
<1> USE DEF MobileInv
<1> DEFINE k == sent[n]
<1>1. /\ UNCHANGED <<quic, vchan, seen, loop, sender, connected, call, started, installed, ready>>
      /\ Others(n) /\ Domains'
    <2>1. UNCHANGED <<quic, vchan, seen, loop, sender, connected, call, started, installed, ready>>
        BY DEF ServerVideo, ServerAudio, ServerControl, ServerEnds, StreamFinished, serverUnchanged
    <2>2. /\ DOMAIN control' = Session /\ \A m \in Session \ {n} : control'[m] = control[m]
          /\ DOMAIN stream' = Session /\ \A m \in Session \ {n} : stream'[m] = stream[m]
        BY DEF ServerVideo, ServerAudio, ServerControl, ServerEnds, StreamFinished, ToControl, Queues
    <2>3. \A m \in Session \ {n} : sent'[m] = sent[m]
        BY DEF ServerVideo, ServerAudio, ServerControl, ServerEnds, StreamFinished, Numbers
    <2> QED BY <2>1, <2>2, <2>3 DEF Others, Domains, Queues
<1>2. Numbers' /\ sent'[n] \in {k, k + 1} /\ sent'[n] =< MaxTraffic
    <2>1. CASE ServerVideo(n)
        BY <2>1, MobileAssumption DEF Numbers, ServerVideo, Count, serverUnchanged
    <2>2. CASE ServerAudio(n) \/ ServerControl(n)
        BY <2>2, MobileAssumption DEF Numbers, ServerAudio, ServerControl, Count, serverUnchanged
    <2>3. CASE ServerEnds(n) \/ StreamFinished(n)
        <3>1. /\ server' \in [Session -> {"none", "up", "ended"}]
              /\ UNCHANGED <<quic, traffic, sent, call, installed, started, sender, connected, loop,
                             queued, achan, ready>>
            BY <2>3 DEF Numbers, ServerEnds, StreamFinished, serverUnchanged
        <3>2. sent[n] \in Nat /\ sent[n] =< MaxTraffic
            BY MobileAssumption DEF Numbers
        <3> QED BY <3>1, <3>2 DEF Numbers
    <2> QED BY <2>1, <2>2, <2>3
<1>3. Told'
    BY <1>1 DEF Told
<1>4. /\ k \in Nat /\ k =< MaxTraffic /\ quic \in BOOLEAN
      /\ Queued(seen[n], vchan[n], control[n], Unread(stream[n]))
      /\ Timely(seen[n], k) /\ Timely(vchan[n], k)
      /\ Timely(control[n], k) /\ Timely(Unread(stream[n]), k)
    BY SessionFacts
<1>5. /\ control[n] \in Seq(Messages(k)) /\ stream[n] \in Seq(Coded(k))
      /\ vchan[n] \in Seq(Channel(k)) /\ seen[n] \in Seq(Events(k)) /\ Len(vchan[n]) =< VideoCap
    BY DEF Queues
<1>6. /\ control[n] \in Seq(Messages(sent'[n])) /\ stream[n] \in Seq(Coded(sent'[n]))
      /\ vchan[n] \in Seq(Channel(sent'[n])) /\ seen[n] \in Seq(Events(sent'[n]))
    BY <1>2, <1>4, <1>5, Grow
<1>7. Aligned(quic, seen[n], vchan[n], control[n], Unread(stream[n]))
    BY DEF InOrder
\* A session that has a server has a loop.
<1>8. Calls'
    <2>1. loop[n] # "none"
        BY DEF ServerVideo, ServerAudio, ServerControl, ServerEnds, StreamFinished, Streaming,
               Calls, Untouched
    <2>2. \A m \in Session \ {n} : server'[m] = server[m]
        BY DEF ServerVideo, ServerAudio, ServerControl, ServerEnds, StreamFinished, Numbers
    <2> QED BY <1>1, <2>1, <2>2 DEF Calls, Untouched, Others
\* A message on the control stream is no frame, or the next one and no QUIC.
<1> DEFINE m == sent'[n]
           Next1(f) == f.time = 1000 * (k + 1)
<1>9. ASSUME NEW x \in Messages(m), control'[n] = Append(control[n], x), stream' = stream,
             \/ ~ IsVideo(x)
             \/ ~ quic /\ \E f : x = Video(f) /\ Next1(f)
      PROVE  Queues' /\ InOrder'
    <2>0. m \in Nat /\ m =< MaxTraffic
        BY <1>2, <1>4
    <2>1. x \in Entries
        BY <2>0, Entered
    <2>2. /\ Append(control[n], x) \in Seq(Messages(m))
          /\ Append(control[n], x) = control[n] \o <<x>>
        BY <1>6, AppendProperties, AppendIsConcat
    <2>3. ~ IsVideo(x) \/ (~ quic /\ Earlier(seen[n], <<x>>) /\ Earlier(control[n], <<x>>))
        BY <1>4, <1>9, NextFrame
    <2>4. Aligned(quic, seen[n], vchan[n], control[n] \o <<x>>, Unread(stream[n]))
        BY <1>4, <1>7, <2>1, <2>3, SentByControl
    <2> HIDE DEF m
    <2>5. Holds(n)'
        BY <1>1, <1>5, <1>6, <1>9, <2>2, <2>4 DEF Holds, m
    <2> QED BY <1>1, <2>5, OneSession
\* What goes on the video stream is its end, or the next frame over QUIC.
<1>a. ASSUME NEW e \in Coded(m), stream'[n] = Append(stream[n], e), control' = control,
             \/ e = Fin
             \/ quic /\ m = k + 1 /\ e = OnStream(video_header_bytes(Full(k + 1)))
      PROVE  Queues' /\ InOrder'
    <2>0. m \in Nat /\ m =< MaxTraffic
        BY <1>2, <1>4
    <2>1. /\ Append(stream[n], e) \in Seq(Coded(m)) /\ <<e>> \in Seq(Coded(m))
          /\ Append(stream[n], e) = stream[n] \o <<e>>
        BY <1>6, AppendProperties, AppendIsConcat
    <2>2. Unread(Append(stream[n], e)) = Unread(stream[n]) \o <<Shows(e)>>
        BY <1>6, <2>0, <2>1, UnreadJoined, UnreadOne
    <2>3. Shows(e) \in Entries
        <3>1. <<Shows(e)>> \in Seq(Entries) /\ Len(<<Shows(e)>>) = 1 /\ <<Shows(e)>>[1] = Shows(e)
            BY <2>0, <2>1, UnreadIs, UnreadOne
        <3> QED BY <3>1, ElementOfSeq
    <2>4. \/ ~ IsVideo(Shows(e))
          \/ (quic /\ Earlier(seen[n], <<Shows(e)>>) /\ Earlier(vchan[n], <<Shows(e)>>)
                   /\ Earlier(Unread(stream[n]), <<Shows(e)>>))
        <3>1. CASE e = Fin
            BY <3>1 DEF Shows, Fin, IsVideo
        <3>2. CASE quic /\ m = k + 1 /\ e = OnStream(video_header_bytes(Full(k + 1)))
            <4>1. k + 1 \in 1 .. m
                BY <1>4, <3>2
            <4>2. Shows(e) = Video(Full(k + 1)) /\ Full(k + 1).time = 1000 * (k + 1)
                BY <2>0, <3>2, <4>1, Read, FullFrame
            <4> QED BY <1>4, <3>2, <4>2, NextFrame
        <3> QED BY <1>a, <3>1, <3>2
    <2>5. Aligned(quic, seen[n], vchan[n], control[n], Unread(stream[n]) \o <<Shows(e)>>)
        BY <1>4, <1>7, <2>3, <2>4, SentByStream
    <2> HIDE DEF m
    <2>6. Holds(n)'
        BY <1>1, <1>5, <1>6, <1>a, <2>1, <2>2, <2>5 DEF Holds, m
    <2> QED BY <1>1, <2>6, OneSession
<1>b. DOMAIN control = Session /\ DOMAIN stream = Session
    BY DEF Queues
<1>c. Queues' /\ InOrder'
    <2>1. CASE ServerVideo(n)
        <3>1. m = k + 1 /\ k + 1 \in 1 .. m
            BY <1>4, <2>1 DEF ServerVideo, Numbers
        <3>2. Frame("Vp9", Width, Height, k + 1) = Full(k + 1)
              /\ Frame(Unset, 0, 0, k + 1) = Bare(k + 1)
            BY DEF Full, Bare
        <3>3. CASE quic
            <4>1. /\ stream'[n] = Append(stream[n], OnStream(video_header_bytes(Full(k + 1))))
                  /\ control' = control
                BY <2>1, <3>2, <3>3, <1>b DEF ServerVideo
            <4>2. OnStream(video_header_bytes(Full(k + 1))) \in Coded(m)
                BY <3>1 DEF Coded
            <4> HIDE DEF m, k
            <4> QED BY <1>a, <3>1, <3>3, <4>1, <4>2
        <3>4. CASE ~ quic
            <4>1. PICK x \in {Video(Full(k + 1)), Video(Bare(k + 1)), [is |-> "empty"]} :
                      control' = [control EXCEPT ![n] = Append(@, x)] /\ stream' = stream
                BY <2>1, <3>2, <3>4 DEF ServerVideo, ToControl
            <4>2. x \in Messages(m)
                BY <3>1, <4>1 DEF Messages
            <4>3. Next1(Full(k + 1)) /\ Next1(Bare(k + 1))
                BY DEF Full, Bare, Frame
            <4>4. \/ ~ IsVideo(x)
                  \/ ~ quic /\ \E f : x = Video(f) /\ Next1(f)
                BY <3>4, <4>1, <4>3 DEF IsVideo
            <4> HIDE DEF m, k, Next1
            <4> QED BY <1>9, <1>b, <4>1, <4>2, <4>4
        <3> QED BY <3>3, <3>4
    <2>2. CASE ServerAudio(n) \/ ServerControl(n) \/ ServerEnds(n)
        <3>1. stream' = stream
            BY <2>2 DEF ServerAudio, ServerControl, ServerEnds
        <3>2. CASE control' = control
            <4>1. Holds(n)'
                BY <1>1, <1>5, <1>6, <1>7, <3>1, <3>2 DEF Holds
            <4> QED BY <1>1, <4>1, OneSession
        <3>3. CASE control' # control
            <4>1. PICK w \in {"audio", "clipboard", "end"} :
                      control' = [control EXCEPT ![n] = Append(@, [is |-> w])]
                BY <2>2, <3>3 DEF ServerAudio, ServerControl, ServerEnds, ToControl
            <4>2. [is |-> w] \in Messages(m) /\ ~ IsVideo([is |-> w])
                BY DEF Messages, IsVideo
            <4> HIDE DEF m, k, Next1
            <4> QED BY <1>9, <1>b, <3>1, <4>1, <4>2
        <3> QED BY <3>2, <3>3
    <2>3. CASE StreamFinished(n)
        <3>1. stream'[n] = Append(stream[n], Fin) /\ control' = control
            BY <2>3, <1>b DEF StreamFinished
        <3>2. Fin \in Coded(m)
            BY DEF Coded
        <3> HIDE DEF m, k
        <3> QED BY <1>a, <3>1, <3>2
    <2> QED BY <2>1, <2>2, <2>3
<1> QED BY <1>2, <1>3, <1>8, <1>c

\* The readers of the planes.
LEMMA ReaderStep ==
    ASSUME MobileInv, NEW n \in Session, VideoRead(n) \/ AudioRead(n)
    PROVE  MobileInv'
<1> USE DEF MobileInv
<1> DEFINE k == sent[n]
           e == Head(stream[n])
<1>1. UNCHANGED <<quic, control, seen, sent, loop, sender, connected, call, started, installed,
                  ready, server, queued, traffic>>
    BY DEF VideoRead, AudioRead, readerUnchanged
<1>2. Told'
    BY <1>1 DEF Told
<1>3. Numbers'
    <2>1. achan' \in [Session -> Nat] /\ \A m \in Session : achan'[m] =< AudioCap
        <3>1. CASE UNCHANGED achan
            BY <3>1 DEF Numbers
        <3>2. CASE ~ UNCHANGED achan
            <4>1. achan[n] < AudioCap /\ achan' = [achan EXCEPT ![n] = @ + 1]
                BY <3>2 DEF VideoRead, AudioRead
            <4>2. achan[n] + 1 =< AudioCap
                BY <4>1, MobileAssumption DEF Numbers
            <4> QED BY <4>1, <4>2 DEF Numbers
        <3> QED BY <3>1, <3>2
    <2> QED BY <1>1, <2>1 DEF Numbers
<1>4. CASE UNCHANGED <<stream, vchan>>
    <2>1. Calls'
        BY <1>1, <1>4 DEF Calls, Untouched
    <2>2. Unmoved
        BY <1>1, <1>4 DEF Unmoved
    <2> QED BY <1>2, <1>3, <2>1, <2>2, UnmovedKeeps
<1>5. CASE ~ UNCHANGED <<stream, vchan>>
    <2>1. /\ stream[n] # <<>> /\ Readable(e) /\ Len(vchan[n]) < VideoCap
          /\ vchan' = [vchan EXCEPT ![n] = Append(@, Video(parse_video_header(e.head)))]
          /\ stream' = [stream EXCEPT ![n] = Tail(@)]
        BY <1>5 DEF VideoRead, AudioRead
    <2>2. /\ k \in Nat /\ k =< MaxTraffic /\ quic \in BOOLEAN
          /\ Queued(seen[n], vchan[n], control[n], Unread(stream[n]))
        BY SessionFacts
    <2>3. /\ control[n] \in Seq(Messages(k)) /\ stream[n] \in Seq(Coded(k))
          /\ vchan[n] \in Seq(Channel(k)) /\ seen[n] \in Seq(Events(k))
          /\ DOMAIN control = Session /\ DOMAIN stream = Session
          /\ DOMAIN vchan = Session /\ DOMAIN seen = Session
        BY DEF Queues
    <2>4. /\ e \in Coded(k) /\ <<e>> \in Seq(Coded(k)) /\ Tail(stream[n]) \in Seq(Coded(k))
          /\ stream[n] = <<e>> \o Tail(stream[n])
        BY <2>1, <2>3, Taken
    <2> DEFINE x == Video(parse_video_header(e.head))
               t == Unread(Tail(stream[n]))
    <2>5. PICK j \in 1 .. k : e = OnStream(video_header_bytes(Full(j)))
        BY <2>1, <2>4 DEF Readable, Coded
    <2>6. x = Video(Full(j)) /\ Shows(e) = x
        BY <2>2, <2>5, Read
    <2>7. x \in Channel(k)
        BY <2>6 DEF Channel
    <2>8. x \in Entries /\ t \in Seq(Entries)
        BY <2>2, <2>4, <2>7, Entered, UnreadIs
    <2>9. Unread(stream[n]) = <<x>> \o t
        <3>1. Unread(<<e>> \o Tail(stream[n])) = Unread(<<e>>) \o Unread(Tail(stream[n]))
            BY <2>2, <2>4, UnreadJoined
        <3> QED BY <3>1, <2>4, <2>6, UnreadOne
    <2>a. Aligned(quic, seen[n], vchan[n], control[n], Unread(stream[n]))
        BY DEF InOrder
    <2> HIDE DEF x
    <2>b. /\ Append(vchan[n], x) \in Seq(Channel(k))
          /\ Append(vchan[n], x) = vchan[n] \o <<x>>
          /\ Len(Append(vchan[n], x)) = Len(vchan[n]) + 1
        BY <2>3, <2>7, AppendProperties, AppendIsConcat
    <2>c. Aligned(quic, seen[n], vchan[n] \o <<x>>, control[n], t)
        <3> HIDE DEF t
        <3> QED BY <2>2, <2>8, <2>9, <2>a, IntoChannel
    <2>d. vchan'[n] = Append(vchan[n], x) /\ stream'[n] = Tail(stream[n])
        BY <2>1, <2>3 DEF x
    <2>e. Len(vchan[n]) + 1 =< VideoCap
        BY <2>1, <2>3, MobileAssumption
    <2>f. Holds(n)'
        BY <1>1, <2>3, <2>4, <2>b, <2>c, <2>d, <2>e DEF Holds
    <2>g. Others(n) /\ Domains'
        BY <1>1, <2>1, <2>3 DEF Others, Domains
    <2>h. Calls'
        BY <1>1, <2>1, <2>g DEF Calls, Untouched, Others
    <2> QED BY <1>1, <1>2, <1>3, <2>f, <2>g, <2>h, OneSession
<1> QED BY <1>4, <1>5

\* The loop goes, whatever it leaves behind.
LEMMA LeaveStep ==
    ASSUME MobileInv, NEW n \in Session, loop[n] = "running", loopUnchanged,
           NEW what, Leave(n, what), what = <<>> \/ what = <<[is |-> "error"]>>
    PROVE  MobileInv'
<1> USE DEF MobileInv
<1> DEFINE k == sent[n]
           oops == [is |-> "error"]
           gone == [is |-> "disconnected"]
           w == what \o <<gone>>
<1>1. /\ UNCHANGED <<quic, stream, sent, sender, call, started, installed, ready, server, traffic>>
      /\ queued' = [queued EXCEPT ![n] = 0] /\ achan' = [achan EXCEPT ![n] = 0]
      /\ control' = [control EXCEPT ![n] = <<>>] /\ vchan' = [vchan EXCEPT ![n] = <<>>]
      /\ loop' = [loop EXCEPT ![n] = "ended"] /\ connected' = [connected EXCEPT ![n] = FALSE]
      /\ seen' = [seen EXCEPT ![n] = @ \o w]
    BY DEF loopUnchanged, Leave, Tell
<1>2. /\ control[n] \in Seq(Messages(k)) /\ stream[n] \in Seq(Coded(k))
      /\ vchan[n] \in Seq(Channel(k)) /\ seen[n] \in Seq(Events(k))
      /\ DOMAIN control = Session /\ DOMAIN stream = Session
      /\ DOMAIN vchan = Session /\ DOMAIN seen = Session
    BY DEF Queues
<1>3. /\ k \in Nat /\ k =< MaxTraffic /\ quic \in BOOLEAN
      /\ Queued(seen[n], vchan[n], control[n], Unread(stream[n]))
    BY SessionFacts
<1>4. /\ oops \in Events(k) /\ gone \in Events(k)
      /\ ~ IsVideo(oops) /\ ~ IsVideo(gone)
      /\ oops.is = "error" /\ gone.is = "disconnected"
    BY DEF Events, IsVideo
<1>5. what = <<>> \/ what = <<oops>>
    OBVIOUS
<1> HIDE DEF oops, gone
<1>6. <<gone>> \in Seq(Events(k)) /\ <<oops>> \in Seq(Events(k)) /\ <<>> \in Seq(Events(k))
    BY <1>4
<1>7. what \in Seq(Events(k))
    BY <1>5, <1>6
<1>8. w \in Seq(Events(k)) /\ seen[n] \o w \in Seq(Events(k))
    BY <1>2, <1>6, <1>7, ConcatProperties
<1>9. Silent(w)
    <2>1. Silent(<<gone>>) /\ Silent(what)
        BY <1>4, <1>5, SingleOrder, EmptyOrder
    <2>2. OrderOf(what, <<gone>>, what)
        BY <1>6, <1>7, Order
    <2> QED BY <2>1, <2>2 DEF OrderOf
<1>a. WellTold(seen[n] \o w, TRUE)
    <2>1. WellTold(seen[n], FALSE)
        BY DEF Told
    <2>2. CASE what = <<>>
        <3>1. w = <<gone>>
            BY <2>2, <1>6, ConcatEmptySeq
        <3> HIDE DEF w
        <3> QED BY <2>1, <3>1, <1>2, <1>4, ToldEnd
    <2>3. CASE what = <<oops>>
        <3>1. seen[n] \o (<<oops>> \o <<gone>>) = (seen[n] \o <<oops>>) \o <<gone>>
            BY <1>2, <1>6, ConcatAssociative
        <3>2. WellTold(seen[n] \o <<oops>>, FALSE)
            BY <2>1, <1>2, <1>4, ToldMore
        <3>3. seen[n] \o <<oops>> \in Seq(Events(k))
            BY <1>2, <1>6, ConcatProperties
        <3>4. WellTold((seen[n] \o <<oops>>) \o <<gone>>, TRUE)
            BY <3>2, <3>3, <1>4, ToldEnd
        <3> QED BY <2>3, <3>1, <3>4
    <2> QED BY <1>5, <2>2, <2>3
<1>b. Aligned(quic, seen[n] \o w, <<>>, <<>>, Unread(stream[n]))
    <2>1. Aligned(quic, seen[n], vchan[n], control[n], Unread(stream[n]))
        BY DEF InOrder
    <2>2. w \in Seq(Entries)
        BY <1>3, <1>8, Entered
    <2> HIDE DEF w
    <2> QED BY <1>3, <1>9, <2>1, <2>2, LeftOrder
<1> HIDE DEF w
<1>c. Numbers'
    <2>1. /\ queued' \in [Session -> Nat] /\ achan' \in [Session -> Nat]
          /\ \A m \in Session : queued'[m] =< traffic /\ achan'[m] =< AudioCap
        <3>1. 0 =< traffic /\ 0 =< AudioCap
            BY MobileAssumption DEF Numbers
        <3> QED BY <1>1, <3>1 DEF Numbers
    <2>2. /\ loop' \in [Session -> {"none", "running", "ended"}]
          /\ connected' \in [Session -> BOOLEAN]
        BY <1>1 DEF Numbers
    <2> QED BY <1>1, <2>1, <2>2 DEF Numbers
<1>d. Calls'
    BY <1>1 DEF Calls, Untouched, Numbers
<1>e. Told'
    BY <1>1, <1>2, <1>a DEF Told, Numbers
<1>f. Queues' /\ InOrder'
    <2>1. <<>> \in Seq(Messages(k)) /\ <<>> \in Seq(Channel(k)) /\ Len(<<>>) = 0
        BY EmptySeq
    <2>2. Holds(n)'
        BY <1>1, <1>2, <1>8, <1>b, <2>1, MobileAssumption DEF Holds
    <2>3. Others(n) /\ Domains'
        BY <1>1, <1>2 DEF Others, Domains
    <2> QED BY <1>1, <2>2, <2>3, OneSession
<1> QED BY <1>c, <1>d, <1>e, <1>f

\* The loop stays, and tells the observer of x, if it tells anything.
LEMMA StayStep ==
    ASSUME MobileInv, NEW n \in Session, loop[n] = "running", loopUnchanged, Stay,
           Numbers', Domains',
           \A m \in Session \ {n} : /\ control'[m] = control[m] /\ vchan'[m] = vchan[m]
                                    /\ seen'[m] = seen[m],
           WellTold(seen'[n], FALSE), Holds(n)'
    PROVE  MobileInv'
<1> USE DEF MobileInv
<1>1. UNCHANGED <<quic, stream, sent, sender, call, started, installed, ready, server, loop, connected>>
    BY DEF loopUnchanged, Stay
<1>2. Others(n)
    BY <1>1 DEF Others
<1>3. Calls'
    BY <1>1, <1>2 DEF Calls, Untouched, Others
<1>4. Told'
    BY <1>1, <1>2 DEF Told, Others
<1> QED BY <1>1, <1>2, <1>3, <1>4, OneSession

\* What the loop takes from the front of a queue, and what it tells the observer.
LEMMA TurnStep ==
    ASSUME MobileInv, NEW n \in Session, Select(n)
    PROVE  MobileInv'
<1> USE DEF MobileInv
<1> DEFINE k == sent[n]
<1>1. loop[n] = "running" /\ loopUnchanged
    BY DEF Select
<1>2. /\ control[n] \in Seq(Messages(k)) /\ stream[n] \in Seq(Coded(k))
      /\ vchan[n] \in Seq(Channel(k)) /\ seen[n] \in Seq(Events(k)) /\ Len(vchan[n]) =< VideoCap
      /\ DOMAIN control = Session /\ DOMAIN stream = Session
      /\ DOMAIN vchan = Session /\ DOMAIN seen = Session
    BY DEF Queues
<1>3. /\ k \in Nat /\ k =< MaxTraffic /\ quic \in BOOLEAN
      /\ Queued(seen[n], vchan[n], control[n], Unread(stream[n]))
    BY SessionFacts
<1>4. Aligned(quic, seen[n], vchan[n], control[n], Unread(stream[n]))
    BY DEF InOrder
<1>5. WellTold(seen[n], FALSE)
    BY <1>1 DEF Told
<1>6. UNCHANGED <<quic, stream, sent, sender, call, started, installed, ready, server, traffic>>
    BY <1>1 DEF loopUnchanged
<1>7. <<>> \in Seq(Events(k)) /\ seen[n] \o <<>> = seen[n]
    BY <1>2, ConcatEmptySeq, EmptySeq
\* A turn that moves no frame and tells nothing.
<1>8. ASSUME Stay, UNCHANGED <<control, vchan, seen>>, Numbers' PROVE MobileInv'
    <2>1. Holds(n)'
        BY <1>2, <1>4, <1>6, <1>8 DEF Holds
    <2>2. Domains'
        BY <1>2, <1>6, <1>8 DEF Domains
    <2> QED BY <1>1, <1>5, <1>8, <2>1, <2>2, StayStep
<1>9. CASE TakeInput(n)
    <2>1. CASE queued' = [queued EXCEPT ![n] = @ - 1] /\ queued[n] > 0 /\ Stay
               /\ UNCHANGED <<seen, vchan, achan, control>>
        <3>1. Numbers'
            BY <1>6, <2>1 DEF Numbers, Stay
        <3> QED BY <1>8, <2>1, <3>1
    <2>2. CASE Leave(n, <<[is |-> "error"]>>)
        BY <1>1, <2>2, LeaveStep
    <2>3. CASE Leave(n, <<>>)
        BY <1>1, <2>3, LeaveStep
    <2> QED BY <1>9, <2>1, <2>2, <2>3 DEF TakeInput
<1>a. CASE TakeVideo(n)
    <2>1. Stay /\ UNCHANGED <<queued, achan, control>>
        BY <1>a DEF TakeVideo
    <2>2. Numbers'
        BY <1>6, <2>1 DEF Numbers, Stay
    <2>3. CASE vchan[n] = <<>>
        BY <1>a, <1>8, <2>1, <2>2, <2>3 DEF TakeVideo
    <2>4. CASE vchan[n] # <<>>
        <3> DEFINE x == Head(vchan[n])
                   t == Tail(vchan[n])
        <3>1. /\ vchan' = [vchan EXCEPT ![n] = t]
              /\ seen' = [seen EXCEPT ![n] = @ \o <<x>>]
            BY <1>a, <2>4 DEF TakeVideo, Tell
        <3>2. /\ x \in Channel(k) /\ t \in Seq(Channel(k)) /\ vchan[n] = <<x>> \o t
              /\ Len(t) =< Len(vchan[n]) - 1
            BY <1>2, <2>4, Taken
        <3> HIDE DEF x, t
        <3>3. PICK j \in 1 .. k : x = Video(Full(j))
            BY <3>2 DEF Channel
        <3>4. x \in Events(k) /\ x.is = "video"
            BY <1>3, <3>3, FullFrame DEF Events, Video
        <3>5. x \in Entries /\ t \in Seq(Entries)
            BY <1>3, <3>2, Entered
        <3>6. Aligned(quic, seen[n] \o <<x>>, t, control[n], Unread(stream[n]))
            BY <1>3, <1>4, <3>2, <3>5, ShownFromChannel
        <3>7. WellTold(seen[n] \o <<x>>, FALSE)
            BY <1>2, <1>5, <3>4, ToldMore
        <3>8. seen[n] \o <<x>> \in Seq(Events(k))
            <4>1. <<x>> \in Seq(Events(k))
                BY <3>4
            <4> QED BY <1>2, <4>1, ConcatProperties
        <3>9. Len(t) =< VideoCap
            BY <1>2, <3>2, MobileAssumption
        <3>a. seen'[n] = seen[n] \o <<x>> /\ vchan'[n] = t /\ control' = control
            BY <1>2, <2>1, <3>1
        <3>b. Holds(n)' /\ Domains'
            BY <1>2, <1>6, <3>1, <3>2, <3>6, <3>8, <3>9, <3>a DEF Holds, Domains
        <3> QED BY <1>1, <2>1, <2>2, <3>1, <3>7, <3>a, <3>b, <1>2, StayStep
    <2> QED BY <2>3, <2>4
<1>b. CASE TakeAudio(n)
    <2>1. /\ Stay /\ UNCHANGED <<queued, vchan, control, seen>>
          /\ achan' = [achan EXCEPT ![n] = IF @ = 0 THEN 0 ELSE @ - 1]
        BY <1>b DEF TakeAudio
    <2>2. achan' \in [Session -> Nat] /\ \A m \in Session : achan'[m] =< AudioCap
        BY <2>1, MobileAssumption DEF Numbers
    <2>3. Numbers'
        BY <1>6, <2>1, <2>2 DEF Numbers, Stay
    <2> QED BY <1>8, <2>1, <2>3
<1>c. CASE TakeControl(n)
    <2> DEFINE x == Head(control[n])
               t == Tail(control[n])
    <2>1. control[n] # <<>>
        BY <1>c DEF TakeControl
    <2>2. /\ x \in Messages(k) /\ t \in Seq(Messages(k)) /\ control[n] = <<x>> \o t
        BY <1>2, <2>1, Taken
    <2>3. x \in Entries /\ t \in Seq(Entries)
        BY <1>3, <2>2, Entered
    <2>4. ASSUME NEW what, Hear(n, what)
          PROVE  /\ control' = [control EXCEPT ![n] = t] /\ seen' = [seen EXCEPT ![n] = @ \o what]
                 /\ Stay /\ UNCHANGED <<queued, vchan, achan>> /\ Numbers' /\ Domains'
                 /\ seen'[n] = seen[n] \o what /\ control'[n] = t
        <3>1. /\ control' = [control EXCEPT ![n] = t] /\ seen' = [seen EXCEPT ![n] = @ \o what]
              /\ Stay /\ UNCHANGED <<queued, vchan, achan>>
            BY <2>4 DEF Hear, Tell
        <3> HIDE DEF t
        <3>2. Numbers'
            BY <1>6, <3>1 DEF Numbers, Stay
        <3> QED BY <1>2, <1>6, <3>1, <3>2 DEF Domains
    <2>5. CASE x.is = "video"
        <3> DEFINE y == Video(Packet(n, x.frame))
        <3>1. Hear(n, <<y>>)
            BY <1>c, <2>5 DEF TakeControl
        <3>2. PICK j \in 1 .. k : x = Video(Full(j)) \/ x = Video(Bare(j))
            BY <2>2, <2>5 DEF Messages
        <3> HIDE DEF x, t
        <3>3. /\ x.frame = Full(j) \/ x.frame = Bare(j)
              /\ x.frame.time = 1000 * j
            BY <1>3, <3>2, FullFrame DEF Video
        <3>4. ready[n] \in Codec
            BY <1>1 DEF Calls
        <3>5. Packet(n, x.frame) \in Packets(k) /\ Packet(n, x.frame).time = 1000 * j
            BY <1>3, <3>3, <3>4, PacketOf
        <3>6. /\ y \in Events(k) /\ y.is = "video" /\ y.frame.time = x.frame.time
            BY <3>3, <3>5 DEF Events, Video
        <3> HIDE DEF y
        <3>7. y \in Entries
            BY <1>3, <3>6, Entered
        <3>8. Aligned(quic, seen[n] \o <<y>>, vchan[n], t, Unread(stream[n]))
            BY <1>3, <1>4, <2>2, <2>3, <2>5, <3>6, <3>7, ShownFromControl DEF IsVideo
        <3>9. WellTold(seen[n] \o <<y>>, FALSE)
            BY <1>2, <1>5, <3>6, ToldMore
        <3>a. seen[n] \o <<y>> \in Seq(Events(k))
            <4>1. <<y>> \in Seq(Events(k))
                BY <3>6
            <4> QED BY <1>2, <4>1, ConcatProperties
        <3>b. /\ control' = [control EXCEPT ![n] = t] /\ seen' = [seen EXCEPT ![n] = @ \o <<y>>]
              /\ Stay /\ UNCHANGED <<queued, vchan, achan>> /\ Numbers' /\ Domains'
              /\ seen'[n] = seen[n] \o <<y>> /\ control'[n] = t
            BY <2>4, <3>1
        <3>c. Holds(n)'
            BY <1>2, <1>6, <2>2, <3>8, <3>a, <3>b DEF Holds
        <3> QED BY <1>1, <1>2, <3>9, <3>b, <3>c, StayStep
    <2>6. CASE x.is = "end"
        <3>1. Leave(n, <<>>)
            BY <1>c, <2>6 DEF TakeControl
        <3> QED BY <1>1, <3>1, LeaveStep
    <2>7. CASE x.is # "video" /\ x.is # "end"
        <3>1. Hear(n, <<>>)
            BY <1>c, <2>7 DEF TakeControl
        <3> HIDE DEF x, t
        <3>2. Aligned(quic, seen[n], vchan[n], t, Unread(stream[n]))
            BY <1>3, <1>4, <2>2, <2>3, HeardByControl
        <3>3. /\ control' = [control EXCEPT ![n] = t] /\ seen' = [seen EXCEPT ![n] = @ \o <<>>]
              /\ Stay /\ UNCHANGED <<queued, vchan, achan>> /\ Numbers' /\ Domains'
              /\ seen'[n] = seen[n] /\ control'[n] = t
            BY <1>7, <2>4, <3>1
        <3>4. Holds(n)'
            BY <1>2, <1>6, <2>2, <3>2, <3>3 DEF Holds
        <3> QED BY <1>1, <1>2, <1>5, <3>3, <3>4, StayStep
    <2> QED BY <2>5, <2>6, <2>7
<1> QED BY <1>9, <1>a, <1>b, <1>c DEF Select

LEMMA MobileInitInv == MobileInit => MobileInv
<1> SUFFICES ASSUME MobileInit PROVE MobileInv
    OBVIOUS
<1>1. Numbers
    BY MobileAssumption DEF MobileInit, Numbers, Session, NoSession
<1>2. Queues
    BY EmptySeq, MobileAssumption DEF MobileInit, Queues
<1>3. Calls
    BY DEF MobileInit, Calls, Untouched, Session, NoSession
<1>4. Told
    BY DEF MobileInit, Told
<1>5. InOrder
    <2>1. Unread(<<>>) = <<>>
        BY DEF Unread
    <2>2. Aligned(quic, <<>>, <<>>, <<>>, <<>>)
        BY SilentOrder, EmptyOrder DEF Aligned
    <2> QED BY <2>1, <2>2 DEF MobileInit, InOrder
<1> QED BY <1>1, <1>2, <1>3, <1>4, <1>5 DEF MobileInv

LEMMA MobileStep == MobileInv /\ [MobileNext]_mobileVars => MobileInv'
<1> SUFFICES ASSUME MobileInv, [MobileNext]_mobileVars PROVE MobileInv'
    OBVIOUS
<1>1. CASE Disconnect \/ SendInput
    <2>1. 1 \in Session
        BY MobileAssumption DEF Session
    <2> QED BY <1>1, <2>1, CallStep
<1>2. ASSUME NEW n \in Session, StartCall(n) \/ OpenFails(n) \/ Install(n) PROVE MobileInv'
    BY <1>2, CallStep
<1>3. ASSUME NEW n \in Session, Opened(n) PROVE MobileInv'
    BY <1>3, OpenStep
<1>4. ASSUME NEW n \in Session,
             \/ ServerVideo(n) \/ ServerAudio(n) \/ ServerControl(n)
             \/ ServerEnds(n) \/ StreamFinished(n)
      PROVE  MobileInv'
    BY <1>4, ServerStep
<1>5. ASSUME NEW n \in Session, VideoRead(n) \/ AudioRead(n) PROVE MobileInv'
    BY <1>5, ReaderStep
<1>6. ASSUME NEW n \in Session, Select(n) PROVE MobileInv'
    BY <1>6, TurnStep
<1>7. CASE UNCHANGED mobileVars
    BY <1>7 DEF mobileVars, planeVars, MobileInv, Numbers, Queues, Calls, Untouched, Told, InOrder
<1> QED BY <1>1, <1>2, <1>3, <1>4, <1>5, <1>6, <1>7 DEF MobileNext

\* Two places at most: the first and the last.
LEMMA ToldTwice ==
    ASSUME NEW S, NEW s \in Seq(S), NEW over \in BOOLEAN, WellTold(s, over)
    PROVE  Cardinality({i \in DOMAIN s : s[i].is \in {"ready", "disconnected"}}) =< 2
<1> DEFINE T == {i \in DOMAIN s : s[i].is \in {"ready", "disconnected"}}
           P == {1, Len(s)}
<1>1. DOMAIN s = 1 .. Len(s)
    OBVIOUS
<1>2. T \subseteq P
    BY <1>1 DEF WellTold
<1>3. IsFiniteSet(P) /\ Cardinality(P) =< 2
    <2>1. IsFiniteSet({1}) /\ Cardinality({1}) = 1
        BY FS_Singleton
    <2>2. P = {1} \cup {Len(s)}
        OBVIOUS
    <2> HIDE DEF P
    <2>3. IsFiniteSet(P) /\ Cardinality(P) = IF Len(s) \in {1} THEN 1 ELSE 1 + 1
        BY <2>1, <2>2, FS_AddElement
    <2> QED BY <2>3
<1> HIDE DEF T, P
<1>4. IsFiniteSet(T) /\ Cardinality(T) =< Cardinality(P) /\ Cardinality(T) \in Nat
    BY <1>2, <1>3, FS_Subset, FS_CardinalityType
<1>5. Cardinality(P) \in Nat
    BY <1>3, FS_CardinalityType
<1>6. Cardinality(T) =< 2
    BY <1>3, <1>4, <1>5
<1> QED BY <1>6 DEF T

LEMMA MobileInvSafe == MobileInv => MobileSafety
<1> SUFFICES ASSUME MobileInv PROVE MobileSafety
    OBVIOUS
<1> USE DEF MobileInv
<1>1. MobileTypeOK
    <2>1. \A n \in Session : Len(vchan[n]) =< VideoCap
        BY DEF Queues
    <2>2. \A n \in Session : achan[n] \in 0 .. AudioCap /\ queued[n] \in 0 .. MaxTraffic
        BY MobileAssumption DEF Numbers
    <2> QED BY <2>1, <2>2 DEF Numbers, MobileTypeOK
<1>2. NoneBehind
    BY DEF Calls, NoneBehind
<1>3. Ordered
    <2> SUFFICES ASSUME NEW n \in Session
                 PROVE  /\ seen[n] # <<>> => seen[n][1].is = "ready"
                        /\ loop[n] = "ended" <=> seen[n] # <<>> /\ Last(seen[n]).is = "disconnected"
                        /\ Cardinality({i \in DOMAIN seen[n] : seen[n][i].is \in {"ready", "disconnected"}}) =< 2
        BY DEF Ordered
    <2>1. seen[n] \in Seq(Events(sent[n]))
        BY DEF Queues
    <2>2. CASE loop[n] = "none"
        <3>1. seen[n] = <<>> /\ DOMAIN seen[n] = {}
            BY <2>2 DEF Calls, Untouched
        <3>2. {i \in DOMAIN seen[n] : seen[n][i].is \in {"ready", "disconnected"}} = {}
            BY <3>1
        <3> QED BY <2>2, <3>1, <3>2, FS_EmptySet
    <2>3. CASE loop[n] # "none"
        <3>1. WellTold(seen[n], loop[n] = "ended")
            BY <2>3 DEF Told
        <3>2. Len(seen[n]) \in 1 .. Len(seen[n]) /\ Last(seen[n]) = seen[n][Len(seen[n])]
            BY <2>1, <3>1, EmptySeq DEF WellTold, Last
        <3>3. (loop[n] = "ended") \in BOOLEAN
            OBVIOUS
        <3>4. Cardinality({i \in DOMAIN seen[n] : seen[n][i].is \in {"ready", "disconnected"}}) =< 2
            BY <2>1, <3>1, <3>3, ToldTwice
        <3>5. loop[n] = "ended" <=> Last(seen[n]).is = "disconnected"
            BY <3>1, <3>2 DEF WellTold
        <3> QED BY <3>1, <3>4, <3>5 DEF WellTold
    <2> QED BY <2>2, <2>3
<1>4. Whole
    <2> SUFFICES ASSUME NEW n \in Session
        PROVE  /\ \A i \in DOMAIN seen[n] :
                      seen[n][i].is = "video" =>
                          LET p == seen[n][i].frame
                          IN  /\ p.codec \in Codec /\ p.width = Width /\ p.height = Height /\ p.len = 300
                              /\ p.time \in {1000 * k : k \in 1 .. sent[n]} /\ p.keyframe = (p.time = 1000)
               /\ \A i, j \in DOMAIN seen[n] :
                      i < j /\ seen[n][i].is = "video" /\ seen[n][j].is = "video" =>
                          seen[n][i].frame.time < seen[n][j].frame.time
        BY DEF Whole
    <2>1. seen[n] \in Seq(Events(sent[n])) /\ DOMAIN seen[n] = 1 .. Len(seen[n])
        BY DEF Queues
    <2>2. Rising(seen[n])
        BY DEF InOrder, Aligned
    <2>3. ASSUME NEW i \in DOMAIN seen[n], seen[n][i].is = "video"
          PROVE  seen[n][i].frame \in Packets(sent[n])
        <3>1. seen[n][i] \in Events(sent[n])
            BY <2>1, ElementOfSeq
        <3> QED BY <2>3, <3>1 DEF Events, Video
    <2>4. \A p \in Packets(sent[n]) :
              /\ p.codec \in Codec /\ p.width = Width /\ p.height = Height /\ p.len = 300
              /\ p.time \in {1000 * k : k \in 1 .. sent[n]} /\ p.keyframe = (p.time = 1000)
        BY DEF Packets, Sound
    <2> QED BY <2>1, <2>2, <2>3, <2>4 DEF Rising, Precedes, IsVideo
<1> QED BY <1>1, <1>2, <1>3, <1>4 DEF MobileSafety

\* The invariant holds of every run.
THEOREM MobileInvariance == MobileSpec => []MobileInv
<1> QED BY MobileInitInv, MobileStep, PTL DEF MobileSpec

(***************************************************************************)
(* The observer of each session is told of it first and of its end last,  *)
(* gets the frames the server sent whole and in order, and no session is  *)
(* left behind another (lib.rs start; session.rs run_session,             *)
(* quic_video_reader; q2.rs), for any number of sessions and capacities.  *)
(***************************************************************************)
THEOREM MobileIsSafe == MobileSpec => []MobileSafety
<1> QED BY MobileInvariance, MobileInvSafe, PTL

(***************************************************************************)
(* The server: while the session starts or goes on nobody has been told to *)
(* stop, and from the last join on no thread is left.                      *)
(***************************************************************************)

USE DEF serverVars, threadVars, linkVars

\* While the session starts or goes on nobody has been told to stop, so that a
\* capture thread that has left can only have found the compositor dead, or
\* have panicked.
CaptureInv ==
    task \in {"starting", "send", "loop"} =>
        /\ \A p \in Producer : ~stop[p]
        /\ thread["capture"] = "exited" => ~alive \/ EncoderCanFail

\* A conclusion that the compositor is gone was justified.
GoneInv == outcome = "Gone" => ~alive \/ EncoderCanFail

\* From the last join on, no thread of the connection is left.
QuietInv ==
    /\ task = "finish" \/ closed =>
          (\A p \in Producer : thread[p] = "exited") /\ input = "exited"
    /\ closed => task = "done"
    /\ input = "exited" => inputs = 0

IInv == TypeOK /\ CaptureInv /\ GoneInv /\ QuietInv

\* The initial states satisfy the invariant.
LEMMA InitInv == Init => IInv
<1> SUFFICES ASSUME Init PROVE IInv
    OBVIOUS
<1>1. up \in Seq(Commands) /\ Len(up) <= UpCap
    BY StreamAssumption DEF Init
<1>2. chan \in [Producer -> Nat] /\ \A p \in Producer : chan[p] <= Cap[p]
    BY StreamAssumption DEF Init
<1>3. /\ thread \in [Producer -> ThreadStates]
      /\ rx \in [Producer -> BOOLEAN] /\ stop \in [Producer -> BOOLEAN]
    BY DEF Init, ThreadStates
<1>4. /\ task = "starting" /\ sending = "none" /\ outcome = "Detached"
      /\ input = "connect" /\ inputs = 0 /\ client = "wait"
      /\ alive = TRUE /\ closed = FALSE /\ link = TRUE
      /\ down = 0 /\ commands = 0
    BY DEF Init
<1>5. TypeOK
    <2>1. down \in 0..DownCap /\ commands \in 0..MaxCommands
        BY <1>4, StreamAssumption
    <2> QED BY <1>1, <1>2, <1>3, <1>4, <2>1 DEF TypeOK, TaskStates
<1>6. thread["capture"] = "head" /\ \A p \in Producer : ~stop[p]
    BY DEF Init, Producer
<1> QED BY <1>4, <1>5, <1>6 DEF IInv, CaptureInv, GoneInv, QuietInv

\* Every step keeps types and capacities.
LEMMA TypeStep == TypeOK /\ [Next]_vars => TypeOK'
<1> SUFFICES ASSUME TypeOK, [Next]_vars PROVE TypeOK'
    OBVIOUS
<1> USE StreamAssumption DEF TypeOK, TaskStates, ThreadStates
<1>1. ASSUME NEW p \in Producer, ThreadStep(p) PROVE TypeOK'
    <2>1. CASE CheckStop(p) BY <2>1 DEF CheckStop
    <2>2. CASE PollNothing(p) BY <2>2 DEF PollNothing
    <2>3. CASE Produce(p) BY <2>3 DEF Produce
    <2>4. CASE SendCompletes(p)
        <3>1. CASE ReceiverAlive
            <4>1. chan[p] < Cap[p] /\ chan' = [chan EXCEPT ![p] = chan[p] + 1]
                BY <2>4, <3>1 DEF SendCompletes, RoundGoesOn
            <4>2. chan' \in [Producer -> Nat] /\ \A q \in Producer : chan'[q] <= Cap[q]
                BY <4>1
            <4>3. thread' \in [Producer -> ThreadStates]
                BY <2>4, <3>1 DEF SendCompletes, RoundGoesOn
            <4>4. UNCHANGED <<task, sending, outcome, rx, stop, input, inputs,
                              alive, closed, link, down, up, client, commands>>
                BY <2>4, <3>1 DEF SendCompletes, RoundGoesOn
            <4> QED BY <4>2, <4>3, <4>4
        <3>2. CASE ~ReceiverAlive
            <4>1. thread' \in [Producer -> ThreadStates]
                BY <2>4, <3>2 DEF SendCompletes
            <4>2. UNCHANGED <<chan, task, sending, outcome, rx, stop, input, inputs,
                              alive, closed, link, down, up, client, commands>>
                BY <2>4, <3>2 DEF SendCompletes
            <4> QED BY <4>1, <4>2
        <3> QED BY <3>1, <3>2
    <2>5. CASE ThreadFails(p) BY <2>5 DEF ThreadFails
    <2> QED BY <1>1, <2>1, <2>2, <2>3, <2>4, <2>5 DEF ThreadStep, Produced
<1>2. ASSUME NEW p \in Producer, LoopStep(p) PROVE TypeOK'
    <2>1. CASE Forward(p) BY <2>1 DEF Forward, BeginSend
    <2>2. CASE ProducerGone(p) BY <2>2 DEF ProducerGone, BeginSend
    <2> QED BY <1>2, <2>1, <2>2 DEF LoopStep
<1>3. CASE TaskStep
    <2>1. CASE FirstFrame
        <3>1. chan' \in [Producer -> Nat] /\ \A q \in Producer : chan'[q] <= Cap[q]
            <4>1. CASE chan' = chan BY <4>1
            <4>2. CASE chan["capture"] > 0 /\ chan' = [chan EXCEPT !["capture"] = @ - 1]
                BY <4>2 DEF Producer
            <4> QED BY <2>1, <4>1, <4>2 DEF FirstFrame
        <3> QED BY <2>1, <3>1 DEF FirstFrame, BeginSend, ReturnEarly
    <2>2. CASE Sent BY <2>2 DEF Sent, BeginSend
    <2>3. CASE SendFails BY <2>3 DEF SendFails, ReturnEarly
    <2>4. CASE WindowPoll BY <2>4 DEF WindowPoll, BeginSend
    <2>5. CASE Incoming
        <3>1. up' \in Seq(Commands) /\ Len(up') <= UpCap
            BY <2>5 DEF Incoming
        <3>2. Head(up) \in Commands
            BY <2>5 DEF Incoming
        <3> QED BY <2>5, <3>1, <3>2 DEF Incoming, BeginSend, Commands
    <2>6. CASE Disconnected BY <2>6 DEF Disconnected
    <2>7. CASE StopThreads BY <2>7 DEF StopThreads
    <2>8. CASE Join BY <2>8 DEF Join
    <2>9. CASE Finish BY <2>9 DEF Finish
    <2> QED BY <1>3, <2>1, <2>2, <2>3, <2>4, <2>5, <2>6, <2>7, <2>8, <2>9 DEF TaskStep
<1>4. CASE InputConnects BY <1>4 DEF InputConnects
<1>5. CASE Inject BY <1>5 DEF Inject
<1>6. CASE CompositorExits BY <1>6 DEF CompositorExits
<1>7. CASE ClientStep
    <2>1. CASE ClientCommand BY <2>1 DEF ClientCommand
    <2>2. CASE ClientSent
        <3>1. up' \in Seq(Commands) /\ Len(up') <= UpCap
            BY <2>2 DEF ClientSent
        <3> QED BY <2>2, <3>1 DEF ClientSent
    <2>3. CASE ClientReads BY <2>3 DEF ClientReads
    <2> QED BY <1>7, <2>1, <2>2, <2>3 DEF ClientStep
<1>8. CASE LinkLost
    <2>1. up' \in Seq(Commands) /\ Len(up') <= UpCap
        <3>1. CASE up' = up BY <3>1
        <3>2. CASE up' = <<>> BY <3>2
        <3> QED BY <1>8, <3>1, <3>2 DEF LinkLost
    <2> QED BY <1>8, <2>1 DEF LinkLost
<1>9. CASE UNCHANGED vars BY <1>9 DEF vars
<1> QED BY <1>1, <1>2, <1>3, <1>4, <1>5, <1>6, <1>7, <1>8, <1>9 DEF Next

\* Every step keeps the rest of the invariant.
LEMMA InvStep == IInv /\ [Next]_vars => IInv'
<1> SUFFICES ASSUME IInv, [Next]_vars PROVE IInv'
    OBVIOUS
<1>0. TypeOK' /\ TypeOK
    BY TypeStep DEF IInv
<1> SUFFICES CaptureInv' /\ GoneInv' /\ QuietInv'
    BY <1>0 DEF IInv
<1> USE <1>0 DEF IInv, TypeOK, CaptureInv, GoneInv, QuietInv
<1>1. ASSUME NEW p \in Producer, ThreadStep(p)
      PROVE  CaptureInv' /\ GoneInv' /\ QuietInv'
    <2>1. CASE CheckStop(p) BY <2>1 DEF CheckStop
    <2>2. CASE PollNothing(p) BY <2>2 DEF PollNothing
    <2>3. CASE Produce(p) BY <2>3 DEF Produce, ReceiverAlive
    <2>4. CASE SendCompletes(p)
        <3>1. /\ thread[p] \in {"blocked", "again"}
              /\ \/ thread' = [thread EXCEPT ![p] = "head"]
                 \/ thread' = [thread EXCEPT ![p] = "again"]
                 \/ task = "done" /\ thread' = [thread EXCEPT ![p] = "exited"]
              /\ UNCHANGED <<serverVars, stop, input, inputs, alive>>
            BY <2>4 DEF SendCompletes, RoundGoesOn, ReceiverAlive
        <3>2. CASE thread' = [thread EXCEPT ![p] = "head"]
            BY <3>1, <3>2
        <3>3. CASE task = "done" /\ thread' = [thread EXCEPT ![p] = "exited"]
            BY <3>1, <3>3
        <3>4. CASE thread' = [thread EXCEPT ![p] = "again"]
            BY <3>1, <3>4
        <3> QED BY <3>1, <3>2, <3>3, <3>4
    <2>5. CASE ThreadFails(p) BY <2>5 DEF ThreadFails
    <2> QED BY <1>1, <2>1, <2>2, <2>3, <2>4, <2>5 DEF ThreadStep, Produced
<1>2. ASSUME NEW p \in Producer, LoopStep(p)
      PROVE  CaptureInv' /\ GoneInv' /\ QuietInv'
    <2>1. CASE Forward(p) BY <2>1 DEF Forward, BeginSend
    <2>2. CASE ProducerGone(p) BY <2>2 DEF ProducerGone, BeginSend
    <2> QED BY <1>2, <2>1, <2>2 DEF LoopStep
<1>3. ASSUME TaskStep PROVE CaptureInv' /\ GoneInv' /\ QuietInv'
    <2>1. CASE FirstFrame BY <2>1 DEF FirstFrame, BeginSend, ReturnEarly
    <2>2. CASE Sent
        <3>1. thread'["capture"] = thread["capture"]
            BY <2>2, StreamAssumption DEF Sent, Producer
        <3> QED BY <2>2, <3>1 DEF Sent, BeginSend
    <2>3. CASE SendFails BY <2>3 DEF SendFails, ReturnEarly
    <2>4. CASE WindowPoll BY <2>4 DEF WindowPoll, BeginSend
    <2>5. CASE Incoming
        <3>1. Head(up) \in Commands
            BY <2>5 DEF Incoming
        <3> QED BY <2>5, <3>1 DEF Incoming, BeginSend, Commands
    <2>6. CASE Disconnected BY <2>6 DEF Disconnected
    <2>7. CASE StopThreads BY <2>7 DEF StopThreads
    <2>8. CASE Join BY <2>8 DEF Join
    <2>9. CASE Finish BY <2>9 DEF Finish
    <2> QED BY <1>3, <2>1, <2>2, <2>3, <2>4, <2>5, <2>6, <2>7, <2>8, <2>9 DEF TaskStep
<1>4. CASE InputConnects BY <1>4 DEF InputConnects
<1>5. CASE Inject BY <1>5 DEF Inject
<1>6. CASE CompositorExits BY <1>6 DEF CompositorExits
<1>7. CASE ClientStep
    BY <1>7 DEF ClientStep, ClientCommand, ClientSent, ClientReads
<1>8. CASE LinkLost BY <1>8 DEF LinkLost
<1>9. CASE UNCHANGED vars BY <1>9 DEF vars
<1> QED BY <1>1, <1>2, <1>3, <1>4, <1>5, <1>6, <1>7, <1>8, <1>9 DEF Next

\* The invariant holds in every behaviour.
THEOREM Invariance == Spec => []IInv
BY InitInv, InvStep, PTL DEF Spec

\* Types and channel capacities hold in every behaviour.
THEOREM TypeCorrect == Spec => []TypeOK
<1>1. IInv => TypeOK
    BY DEF IInv
<1> QED BY <1>1, Invariance, PTL

\* Without a failing encoder, a session is only taken for gone when its
\* compositor is dead, however stops, sends and failures interleave.
THEOREM GoneJustified == ASSUME ~EncoderCanFail PROVE Spec => []GoneIsTrue
<1>1. IInv => GoneIsTrue
    BY DEF IInv, GoneInv, GoneIsTrue
<1> QED BY <1>1, Invariance, PTL

\* When run_session closes the session, all its threads have ended and nothing
\* typed is left behind.
THEOREM CloseIsQuiet == Spec => []QuietBeforeClose
<1>1. IInv => QuietBeforeClose
    BY DEF IInv, QuietInv, QuietBeforeClose
<1> QED BY <1>1, Invariance, PTL

\* All of it at once: types and capacities hold, a session taken for gone is gone, and
\* one that is closed is quiet.
THEOREM StreamIsSafe == ASSUME ~EncoderCanFail PROVE Spec => []StreamSafety
<1>1. IInv => StreamSafety
    BY DEF IInv, GoneInv, GoneIsTrue, QuietInv, QuietBeforeClose, StreamSafety
<1> QED BY <1>1, Invariance, PTL
=============================================================================
