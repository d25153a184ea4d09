------------------------- MODULE InputClipboardProofs -------------------------
(***************************************************************************)
(* Proofs about Clipboard, and about SessionInput and the DesktopSession   *)
(* in it: for any texts, files, hosts and keys and any number of copies,   *)
(* connections, requests, crashes and messages.                            *)
(***************************************************************************)
EXTENDS SessionInput, Clipboard, FiniteSetTheorems, SequenceTheorems, WellFoundedInduction, TLAPS

(***************************************************************************)
(* Recursion and induction over the numbers, for the functions that cut a  *)
(* text into chunks, join sequences and decode a path.                     *)
(***************************************************************************)

\* A set of numbers with 0 and with the successor of each holds them all.
LEMMA Induction ==
    ASSUME NEW S \in SUBSET Nat, 0 \in S, \A n \in S : n + 1 \in S
    PROVE  \A n \in Nat : n \in S
<1> SUFFICES ASSUME Nat \ S # {} PROVE FALSE
    OBVIOUS
<1>1. PICK x \in Nat \ S : \A y \in Nat \ S : <<y, x>> \notin OpToRel(<, Nat)
    BY NatLessThanWellFounded, WFMin
<1>2. ASSUME NEW y \in Nat \ S PROVE ~(y < x)
    BY <1>1, <1>2 DEF OpToRel
<1>3. x # 0 /\ x - 1 \in Nat
    OBVIOUS
<1>4. x - 1 \in S
    BY <1>2, <1>3
<1>5. (x - 1) + 1 = x
    OBVIOUS
<1> HIDE <1>1
<1> QED BY <1>4, <1>5

\* A function given by its first value and a step from each value to the next exists.
AreSteps(step, n, V) == step \in [1 .. n -> [V -> V]]
Tracks(f, base, step, n, V) ==
    f \in [0 .. n -> V] /\ f[0] = base /\ \A i \in 1 .. n : f[i] = step[i][f[i - 1]]

LEMMA Recursion ==
    ASSUME NEW V, NEW n \in Nat, NEW base \in V, NEW step, AreSteps(step, n, V)
    PROVE  \E f : Tracks(f, base, step, n, V)
<1> USE DEF AreSteps
<1> DEFINE Upto(m) == \E f \in [0 .. m -> V] : f[0] = base /\ \A i \in 1 .. m : f[i] = step[i][f[i - 1]]
           S == {m \in Nat : m <= n => Upto(m)}
<1>1. 0 \in S
    <2> DEFINE f == [i \in 0 .. 0 |-> base]
    <2>1. f \in [0 .. 0 -> V] /\ f[0] = base /\ \A i \in 1 .. 0 : f[i] = step[i][f[i - 1]]
        OBVIOUS
    <2> HIDE DEF f
    <2>2. Upto(0)
        BY <2>1
    <2> QED BY <2>2
<1>2. ASSUME NEW m \in S PROVE m + 1 \in S
    <2>0. m \in Nat /\ m + 1 \in Nat /\ (m <= n => Upto(m))
        OBVIOUS
    <2>a. SUFFICES ASSUME m + 1 <= n PROVE Upto(m + 1)
        <3> HIDE DEF Upto
        <3> QED BY <2>0
    <2>1. PICK f \in [0 .. m -> V] : f[0] = base /\ \A i \in 1 .. m : f[i] = step[i][f[i - 1]]
        BY <2>0, <2>a
    <2> DEFINE g == [i \in 0 .. m + 1 |-> IF i = m + 1 THEN step[m + 1][f[m]] ELSE f[i]]
    <2>2. m + 1 \in 1 .. n /\ f[m] \in V
        BY <2>0, <2>a
    <2>3. step[m + 1][f[m]] \in V
        BY <2>2
    <2>4. g \in [0 .. m + 1 -> V] /\ g[0] = base
        BY <2>1, <2>3
    <2>5. ASSUME NEW i \in 1 .. m + 1 PROVE g[i] = step[i][g[i - 1]]
        <3>1. CASE i = m + 1
            BY <3>1
        <3>2. CASE i # m + 1
            BY <3>2, <2>1
        <3> QED BY <3>1, <3>2
    <2> HIDE DEF g
    <2> QED BY <2>4, <2>5
<1> HIDE DEF Upto
<1>3. \A m \in Nat : m \in S
    <2> HIDE DEF S
    <2>1. S \in SUBSET Nat
        BY DEF S
    <2> QED BY <1>1, <1>2, <2>1, Induction
<1>4. n \in S
    BY <1>3
<1> QED BY <1>4 DEF Upto, Tracks

\* The function that FlattenSeq is defined with does what its definition says.
Joined(f, seqs, i) == f[i - 1] \o seqs[i]
Flattening(seqs) ==
    CHOOSE f : f = [i \in 1 .. Len(seqs) |-> IF i = 1 THEN seqs[i] ELSE Joined(f, seqs, i)]

LEMMA FlatteningDef ==
    ASSUME NEW T, NEW seqs \in Seq(Seq(T))
    PROVE  /\ Flattening(seqs) \in [1 .. Len(seqs) -> Seq(T)]
           /\ Len(seqs) > 0 => Flattening(seqs)[1] = seqs[1]
           /\ \A i \in 2 .. Len(seqs) : Flattening(seqs)[i] = Flattening(seqs)[i - 1] \o seqs[i]
<1> DEFINE n == Len(seqs)
           V == Seq(T)
           step == [i \in 1 .. n |-> [v \in V |-> IF i = 1 THEN seqs[i] ELSE v \o seqs[i]]]
<1>0. n \in Nat /\ <<>> \in V /\ \A i \in 1 .. n : seqs[i] \in V
    OBVIOUS
<1>1. step \in [1 .. n -> [V -> V]]
    <2>1. ASSUME NEW i \in 1 .. n, NEW v \in V
          PROVE  (IF i = 1 THEN seqs[i] ELSE v \o seqs[i]) \in V
        <3> HIDE DEF n
        <3>1. seqs[i] \in Seq(T) /\ v \in Seq(T)
            BY <1>0
        <3> QED BY <3>1
    <2> HIDE DEF n, V
    <2> QED BY <2>1
<1>2. PICK f \in [0 .. n -> V] : f[0] = <<>> /\ \A i \in 1 .. n : f[i] = step[i][f[i - 1]]
    <2> DEFINE base == <<>>
    <2> HIDE DEF step, n, V
    <2>1. base \in V
        BY <1>0
    <2> HIDE DEF base
    <2>2. AreSteps(step, n, V)
        BY <1>1 DEF AreSteps
    <2>3. \E f : Tracks(f, base, step, n, V)
        BY <1>0, <2>1, <2>2, Recursion
    <2> QED BY <2>3 DEF base, Tracks
<1> DEFINE g == [i \in 1 .. n |-> f[i]]
<1>3. ASSUME NEW i \in 1 .. n PROVE f[i] = IF i = 1 THEN seqs[i] ELSE Joined(g, seqs, i)
    <2>1. i - 1 \in 0 .. n /\ (i # 1 => i - 1 \in 1 .. n)
        BY <1>0
    <2>2. f[i - 1] \in V
        BY <1>2, <2>1
    <2> HIDE DEF V, n
    <2>3. f[i] = IF i = 1 THEN seqs[i] ELSE f[i - 1] \o seqs[i]
        BY <1>2, <2>2
    <2>4. i # 1 => g[i - 1] = f[i - 1]
        BY <2>1
    <2> QED BY <2>3, <2>4 DEF Joined
<1>4. g = [i \in 1 .. n |-> IF i = 1 THEN seqs[i] ELSE Joined(g, seqs, i)]
    BY <1>3
<1> DEFINE h == Flattening(seqs)
<1>5. h = [i \in 1 .. n |-> IF i = 1 THEN seqs[i] ELSE Joined(h, seqs, i)]
    <2> HIDE DEF g
    <2> QED BY <1>4 DEF Flattening
<1> HIDE DEF h
<1>6. ASSUME NEW i \in 1 .. n PROVE h[i] = IF i = 1 THEN seqs[i] ELSE Joined(h, seqs, i)
    <2> HIDE DEF n
    <2> QED BY <1>5
<1>7. \A i \in 1 .. n : h[i] = f[i]
    <2> DEFINE S == {i \in Nat : i \in 1 .. n => h[i] = f[i]}
    <2> HIDE DEF n
    <2>1. 0 \in S
        OBVIOUS
    <2>2. ASSUME NEW i \in S PROVE i + 1 \in S
        <3>0. i \in Nat /\ (i \in 1 .. n => h[i] = f[i])
            OBVIOUS
        <3>1. SUFFICES ASSUME i + 1 \in 1 .. n PROVE h[i + 1] = f[i + 1]
            BY <3>0
        <3>2. CASE i = 0
            <4> 1 \in 1 .. n /\ i + 1 = 1
                BY <3>1, <3>2
            <4> QED BY <1>3, <1>6
        <3>3. CASE i # 0
            <4>1. i \in 1 .. n /\ g[i] = h[i] /\ (i + 1) - 1 = i
                BY <1>0, <3>0, <3>1, <3>3
            <4>2. Joined(h, seqs, i + 1) = Joined(g, seqs, i + 1)
                <5> HIDE DEF g
                <5> QED BY <4>1 DEF Joined
            <4> QED BY <1>3, <1>6, <3>1, <3>3, <4>2
        <3> QED BY <3>2, <3>3
    <2> HIDE DEF S
    <2>3. \A i \in Nat : i \in S
        BY <2>1, <2>2, Induction DEF S
    <2> QED BY <2>3, <1>0 DEF S
<1> HIDE DEF n
<1>8. h \in [1 .. n -> V]
    <2>1. \A i \in 1 .. n : h[i] \in V
        <3> HIDE DEF V
        <3> QED BY <1>0, <1>2, <1>7
    <2>2. h = [i \in 1 .. n |-> h[i]]
        <3> HIDE DEF V
        <3> QED BY <1>5
    <2> HIDE DEF V
    <2> QED BY <2>1, <2>2
<1>9. n > 0 => h[1] = seqs[1]
    <2> HIDE DEF V
    <2> QED BY <1>0, <1>6
<1>10. ASSUME NEW i \in 2 .. n PROVE h[i] = h[i - 1] \o seqs[i]
    <2>1. h[i] = Joined(h, seqs, i)
        <3> HIDE DEF V
        <3> QED BY <1>0, <1>6
    <2> QED BY <2>1 DEF Joined
<1> QED BY <1>8, <1>9, <1>10 DEF h, n

LEMMA FlattenSeqLast ==
    ASSUME NEW T, NEW seqs \in Seq(Seq(T)), NEW s \in Seq(T)
    PROVE  /\ FlattenSeq(<<>>) = <<>> /\ FlattenSeq(seqs) \in Seq(T)
           /\ FlattenSeq(Append(seqs, s)) = FlattenSeq(seqs) \o s
<1> DEFINE more == Append(seqs, s)
           n == Len(seqs)
           a == Flattening(seqs)
           b == Flattening(more)
<1>1. /\ more \in Seq(Seq(T)) /\ Len(more) = n + 1 /\ more[n + 1] = s /\ n \in Nat
      /\ \A i \in 1 .. n : more[i] = seqs[i]
    OBVIOUS
<1>2. /\ FlattenSeq(seqs) = IF n = 0 THEN seqs ELSE a[n]
      /\ FlattenSeq(more) = b[n + 1]
    <2>1. FlattenSeq(seqs) = IF n = 0 THEN seqs ELSE a[n]
        BY DEF FlattenSeq, Flattening, Joined
    <2>2. FlattenSeq(more) = IF Len(more) = 0 THEN more ELSE b[Len(more)]
        BY DEF FlattenSeq, Flattening, Joined
    <2> HIDE DEF more, a, b, n
    <2>3. Len(more) = n + 1 /\ Len(more) # 0
        BY <1>1
    <2> QED BY <2>1, <2>2, <2>3
<1>3. /\ a \in [1 .. n -> Seq(T)]
      /\ n > 0 => a[1] = seqs[1]
      /\ \A i \in 2 .. n : a[i] = a[i - 1] \o seqs[i]
    BY FlatteningDef
<1>4. /\ b[1] = more[1]
      /\ \A i \in 2 .. n + 1 : b[i] = b[i - 1] \o more[i]
    <2> HIDE DEF more
    <2>1. Len(more) > 0
        BY <1>1
    <2> QED BY <1>1, <2>1, FlatteningDef
<1>5. \A i \in 1 .. n : b[i] = a[i]
    <2> DEFINE S == {i \in Nat : i \in 1 .. n => b[i] = a[i]}
    <2> HIDE DEF more, a, b, n
    <2>1. 0 \in S
        OBVIOUS
    <2>2. ASSUME NEW i \in S PROVE i + 1 \in S
        <3>0. i \in Nat /\ (i \in 1 .. n => b[i] = a[i])
            OBVIOUS
        <3>1. SUFFICES ASSUME i + 1 \in 1 .. n PROVE b[i + 1] = a[i + 1]
            BY <3>0
        <3>2. CASE i = 0
            BY <3>1, <3>2, <1>1, <1>3, <1>4
        <3>3. CASE i # 0
            <4>1. i \in 1 .. n /\ b[i] = a[i] /\ i + 1 \in 2 .. n /\ i + 1 \in 2 .. n + 1 /\ (i + 1) - 1 = i
                BY <1>1, <3>0, <3>1, <3>3
            <4>2. a[i + 1] = a[i] \o seqs[i + 1] /\ b[i + 1] = b[i] \o more[i + 1]
                BY <1>3, <1>4, <4>1
            <4>3. more[i + 1] = seqs[i + 1]
                BY <1>1, <3>1
            <4> QED BY <4>1, <4>2, <4>3
        <3> QED BY <3>2, <3>3
    <2> HIDE DEF S
    <2>3. \A i \in Nat : i \in S
        BY <2>1, <2>2, Induction DEF S
    <2> QED BY <2>3, <1>1 DEF S
<1>6. CASE n = 0
    <2>1. b[1] = s /\ seqs = <<>>
        BY <1>1, <1>4, <1>6
    <2> QED BY <1>2, <1>6, <2>1 DEF FlattenSeq
<1>7. CASE n # 0
    <2> HIDE DEF more, a, b
    <2>1. b[n + 1] = b[n] \o s
        <3> HIDE DEF n
        <3>1. n + 1 \in 2 .. n + 1 /\ (n + 1) - 1 = n
            BY <1>1, <1>7
        <3> QED BY <1>1, <1>4, <3>1
    <2>2. b[n] = a[n] /\ a[n] \in Seq(T)
        <3> HIDE DEF n
        <3> QED BY <1>1, <1>3, <1>5, <1>7
    <2>3. FlattenSeq(<<>>) = <<>>
        BY DEF FlattenSeq
    <2> HIDE DEF n
    <2>4. FlattenSeq(more) = FlattenSeq(seqs) \o s /\ FlattenSeq(seqs) \in Seq(T)
        BY <1>2, <1>7, <2>1, <2>2
    <2> QED BY <2>3, <2>4 DEF more
<1> QED BY <1>6, <1>7

(***************************************************************************)
(* The escapes of a path.                                                  *)
(***************************************************************************)

Byte == 0 .. 255
Glyph == {b \in Byte : b \notin White}

\* What stands for a byte is the byte itself or an escape, and none of it is white space.
Plain(p, b) == Len(p) = 1 /\ p[1] = b /\ b # 37
Triple(p, b) ==
    /\ Len(p) = 3 /\ p[1] = 37 /\ HexVal(p[2]) # NotHex /\ HexVal(p[3]) # NotHex
    /\ 16 * HexVal(p[2]) + HexVal(p[3]) = b

LEMMA DigitRead ==
    ASSUME NEW v \in 0 .. 15
    PROVE  HexDigit(v) \in Glyph /\ HexVal(HexDigit(v)) = v
<1>1. CASE v < 10
    BY <1>1, SMT DEF HexDigit, HexVal, Glyph, Byte, White
<1>2. CASE v >= 10
    BY <1>2, SMT DEF HexDigit, HexVal, Glyph, Byte, White
<1> QED BY <1>1, <1>2

LEMMA EscapedFacts ==
    ASSUME NEW b \in Byte
    PROVE  Escaped(b) \in Seq(Glyph) /\ (Plain(Escaped(b), b) \/ Triple(Escaped(b), b))
<1>1. CASE Unreserved(b)
    <2>1. b \in Glyph /\ b # 37
        BY <1>1, SMT DEF Unreserved, Glyph, White
    <2> QED BY <1>1, <2>1 DEF Escaped, Plain
<1>2. CASE ~Unreserved(b)
    <2> DEFINE hi == HexDigit(b \div 16)
               lo == HexDigit(b % 16)
               p == <<37, hi, lo>>
    <2>1. b \div 16 \in 0 .. 15 /\ b % 16 \in 0 .. 15 /\ 16 * (b \div 16) + (b % 16) = b
        BY SMT DEF Byte
    <2>2. hi \in Glyph /\ lo \in Glyph /\ HexVal(hi) = b \div 16 /\ HexVal(lo) = b % 16
        BY <2>1, DigitRead
    <2>3. 37 \in Glyph
        BY SMT DEF Glyph, Byte, White
    <2>4. Escaped(b) = p
        BY <1>2 DEF Escaped
    <2> HIDE DEF hi, lo
    <2>5. p \in Seq(Glyph) /\ Len(p) = 3 /\ p[1] = 37 /\ p[2] = hi /\ p[3] = lo
        BY <2>2, <2>3
    <2>6. b \div 16 # NotHex /\ b % 16 # NotHex
        BY <2>1 DEF NotHex
    <2> QED BY <2>1, <2>2, <2>4, <2>5, <2>6 DEF Triple
<1> QED BY <1>1, <1>2

\* A path that is one byte longer is one escape longer.
LEMMA EncodeMore ==
    ASSUME NEW path \in Seq(Byte), NEW b \in Byte
    PROVE  /\ PercentEncode(<<>>) = <<>> /\ PercentEncode(path) \in Seq(Glyph)
           /\ PercentEncode(Append(path, b)) = PercentEncode(path) \o Escaped(b)
<1> DEFINE n == Len(path)
           more == Append(path, b)
           pieces == [i \in DOMAIN path |-> Escaped(path[i])]
           e == Escaped(b)
<1>1. n \in Nat /\ DOMAIN path = 1 .. n /\ \A i \in 1 .. n : path[i] \in Byte
    OBVIOUS
<1>2. pieces \in Seq(Seq(Glyph)) /\ e \in Seq(Glyph) /\ Len(pieces) = n
    <2>1. \A i \in 1 .. n : Escaped(path[i]) \in Seq(Glyph)
        BY <1>1, EscapedFacts
    <2> HIDE DEF n
    <2> QED BY <1>1, <2>1, EscapedFacts
<1>3. [i \in DOMAIN more |-> Escaped(more[i])] = Append(pieces, e)
    <2>1. DOMAIN more = 1 .. n + 1 /\ more[n + 1] = b /\ \A i \in 1 .. n : more[i] = path[i]
        OBVIOUS
    <2>2. Append(pieces, e) = [i \in 1 .. n + 1 |-> IF i = n + 1 THEN e ELSE pieces[i]]
        BY <1>2
    <2> HIDE DEF more, n
    <2>3. \A i \in 1 .. n + 1 : i = n + 1 \/ i \in 1 .. n
        BY <1>1
    <2>4. \A i \in 1 .. n + 1 : Escaped(more[i]) = IF i = n + 1 THEN e ELSE pieces[i]
        BY <1>1, <2>1, <2>3
    <2> HIDE DEF e, pieces
    <2> QED BY <2>1, <2>2, <2>4
<1> HIDE DEF pieces, e
<1>4. FlattenSeq(pieces) \in Seq(Glyph) /\ FlattenSeq(Append(pieces, e)) = FlattenSeq(pieces) \o e
    BY <1>2, FlattenSeqLast
<1>5. PercentEncode(path) = FlattenSeq(pieces) /\ PercentEncode(more) = FlattenSeq(Append(pieces, e))
    BY <1>3 DEF PercentEncode, pieces
<1>6. PercentEncode(<<>>) = <<>>
    <2>1. [i \in DOMAIN <<>> |-> Escaped(<<>>[i])] = <<>>
        OBVIOUS
    <2>2. FlattenSeq(<<>>) = <<>>
        BY DEF FlattenSeq
    <2> QED BY <2>1, <2>2 DEF PercentEncode
<1> QED BY <1>4, <1>5, <1>6 DEF e

\* The function that PercentDecode is defined with does what its definition says.
Reading == [out : Seq(Int), skip : Nat]
Decoding(s) ==
    CHOOSE f : f = [i \in 0 .. Len(s) |-> IF i = 0 THEN [out |-> <<>>, skip |-> 0] ELSE Decoded(s, i, f[i - 1])]

LEMMA DecodedIsReading ==
    ASSUME NEW s \in Seq(Byte), NEW i \in 1 .. Len(s), NEW v \in Reading
    PROVE  Decoded(s, i, v) \in Reading
<1>0. \A b \in Byte : b \in Int
    BY DEF Byte
<1>1. \A b \in Byte : HexVal(b) \in Int
    <2>1. ASSUME NEW b \in Int PROVE HexVal(b) \in Int
        <3>1. CASE b \in 48 .. 57
            BY <3>1, SMT DEF HexVal
        <3>2. CASE b \in 97 .. 102
            BY <3>2, SMT DEF HexVal
        <3>3. CASE b \in 65 .. 70
            BY <3>3, SMT DEF HexVal
        <3>4. CASE b \notin 48 .. 57 /\ b \notin 97 .. 102 /\ b \notin 65 .. 70
            <4>1. HexVal(b) = NotHex
                BY <3>4, Zenon DEF HexVal
            <4> QED BY <4>1 DEF NotHex
        <3> QED BY <3>1, <3>2, <3>3, <3>4
    <2> QED BY <1>0, <2>1
<1>2. CASE v.skip > 0
    BY <1>2 DEF Decoded, Reading
<1>3. CASE ~(v.skip > 0) /\ Escape(s, i)
    <2>1. s[i + 1] \in Byte /\ s[i + 2] \in Byte
        BY <1>3 DEF Escape
    <2>2. 16 * HexVal(s[i + 1]) + HexVal(s[i + 2]) \in Int
        BY <1>1, <2>1
    <2> QED BY <1>3, <2>2 DEF Decoded, Reading
<1>4. CASE ~(v.skip > 0) /\ ~Escape(s, i)
    <2>1. s[i] \in Byte
        OBVIOUS
    <2>2. s[i] \in Int
        BY <2>1, <1>0
    <2> QED BY <1>4, <2>2 DEF Decoded, Reading
<1> QED BY <1>2, <1>3, <1>4

LEMMA DecodingDef ==
    ASSUME NEW s \in Seq(Byte)
    PROVE  /\ Decoding(s)[0] = [out |-> <<>>, skip |-> 0]
           /\ \A i \in 1 .. Len(s) : Decoding(s)[i] = Decoded(s, i, Decoding(s)[i - 1])
<1> DEFINE n == Len(s)
           V == Reading
           base == [out |-> <<>>, skip |-> 0]
           step == [i \in 1 .. n |-> [v \in V |-> Decoded(s, i, v)]]
           h == Decoding(s)
<1>1. n \in Nat /\ base \in V
    BY DEF Reading
<1>2. AreSteps(step, n, V)
    <2>1. ASSUME NEW i \in 1 .. n, NEW v \in V PROVE Decoded(s, i, v) \in V
        BY <2>1, DecodedIsReading
    <2> HIDE DEF n, V
    <2> QED BY <2>1 DEF AreSteps
<1>3. PICK f : Tracks(f, base, step, n, V)
    <2> HIDE DEF base, step, n, V
    <2> QED BY <1>1, <1>2, Recursion
<1> HIDE DEF n, V
<1>4. /\ f \in [0 .. n -> V] /\ f[0] = base
      /\ \A i \in 1 .. n : f[i] = step[i][f[i - 1]]
    <2> HIDE DEF base, step
    <2> QED BY <1>3 DEF Tracks
<1>5. ASSUME NEW i \in 1 .. n PROVE f[i] = Decoded(s, i, f[i - 1])
    <2> f[i - 1] \in V
        BY <1>1, <1>4
    <2> QED BY <1>4
<1> HIDE DEF base, step
<1>6. f = [i \in 0 .. n |-> IF i = 0 THEN base ELSE Decoded(s, i, f[i - 1])]
    <2>1. f = [i \in 0 .. n |-> f[i]]
        BY <1>4
    <2>2. ASSUME NEW i \in 0 .. n PROVE f[i] = IF i = 0 THEN base ELSE Decoded(s, i, f[i - 1])
        <3> i # 0 => i \in 1 .. n
            BY <1>1
        <3> QED BY <1>4, <1>5
    <2> QED BY <2>1, <2>2
<1>7. h = [i \in 0 .. n |-> IF i = 0 THEN base ELSE Decoded(s, i, h[i - 1])]
    BY <1>6 DEF Decoding, n, base
<1> HIDE DEF h
<1>8. /\ h[0] = base
      /\ \A i \in 1 .. n : h[i] = Decoded(s, i, h[i - 1])
    BY <1>1, <1>7
<1> QED BY <1>8 DEF h, n, base

\* What stands in s after some bytes, and what has been read of s up to there.
Stands(p, s, before) == before + Len(p) <= Len(s) /\ \A i \in 1 .. Len(p) : s[before + i] = p[i]
HasRead(s, before, out) == Decoding(s)[before] = [out |-> out, skip |-> 0]

\* Decoding comes from one byte's escape to the next with that byte put out.
LEMMA DecodeOne ==
    ASSUME NEW s \in Seq(Byte), NEW before \in Nat, NEW b \in Byte, NEW p, NEW out \in Seq(Byte),
           Stands(p, s, before), Plain(p, b) \/ Triple(p, b), HasRead(s, before, out)
    PROVE  HasRead(s, before + Len(p), Append(out, b))
<1> USE DEF Stands, HasRead
<1> DEFINE d == Decoding(s)
           more == Append(out, b)
<1>0. Len(s) \in Nat /\ \A i \in 1 .. Len(s) : d[i] = Decoded(s, i, d[i - 1])
    BY DecodingDef
<1>1. CASE Plain(p, b)
    <2>1. Len(p) = 1 /\ before + 1 \in 1 .. Len(s) /\ (before + 1) - 1 = before /\ s[before + 1] = b /\ b # 37
        BY <1>0, <1>1 DEF Plain
    <2>2. d[before + 1] = Decoded(s, before + 1, d[before])
        BY <1>0, <2>1
    <2>3. ~Escape(s, before + 1)
        BY <2>1 DEF Escape
    <2> HIDE DEF d
    <2>4. Decoded(s, before + 1, [out |-> out, skip |-> 0]) = [out |-> more, skip |-> 0]
        BY <2>1, <2>3 DEF Decoded
    <2> QED BY <2>1, <2>2, <2>4 DEF d
<1>2. CASE Triple(p, b)
    <2> DEFINE i1 == before + 1
               i2 == before + 2
               i3 == before + 3
    <2>1. /\ Len(p) = 3 /\ i1 \in 1 .. Len(s) /\ i2 \in 1 .. Len(s) /\ i3 \in 1 .. Len(s)
          /\ i1 - 1 = before /\ i2 - 1 = i1 /\ i3 - 1 = i2 /\ i1 + 1 = i2 /\ i1 + 2 = i3 /\ i1 + 2 <= Len(s)
          /\ s[i1] = p[1] /\ s[i2] = p[2] /\ s[i3] = p[3]
        BY <1>0, <1>2 DEF Triple
    <2> HIDE DEF i1, i2, i3
    <2>2. d[i1] = Decoded(s, i1, d[before]) /\ d[i2] = Decoded(s, i2, d[i1]) /\ d[i3] = Decoded(s, i3, d[i2])
        BY <1>0, <2>1
    <2>3. Escape(s, i1) /\ 16 * HexVal(s[i1 + 1]) + HexVal(s[i1 + 2]) = b
        BY <1>2, <2>1 DEF Escape, Triple
    <2> HIDE DEF d, more
    <2>4. Decoded(s, i1, [out |-> out, skip |-> 0]) = [out |-> more, skip |-> 2]
        <3> DEFINE c == 16 * HexVal(s[i1 + 1]) + HexVal(s[i1 + 2])
        <3>1. c = b
            BY <2>3
        <3>2. Decoded(s, i1, [out |-> out, skip |-> 0]) = [out |-> Append(out, c), skip |-> 2]
            <4> HIDE DEF c
            <4> QED BY <2>3 DEF Decoded, c
        <3> HIDE DEF c
        <3> QED BY <3>1, <3>2 DEF more
    <2>5. Decoded(s, i2, [out |-> more, skip |-> 2]) = [out |-> more, skip |-> 1]
        BY DEF Decoded
    <2>6. Decoded(s, i3, [out |-> more, skip |-> 1]) = [out |-> more, skip |-> 0]
        BY DEF Decoded
    <2>7. d[i3] = [out |-> more, skip |-> 0]
        BY <2>2, <2>4, <2>5, <2>6 DEF d
    <2> QED BY <2>1, <2>7 DEF d, more, i3
<1> QED BY <1>1, <1>2

\* Joining sequences of bytes is associative.
JoinedEitherWay(p, q, r) == (p \o q) \o r = p \o (q \o r)
LEMMA Associates ==
    ASSUME NEW p \in Seq(Byte), NEW q \in Seq(Byte), NEW r \in Seq(Byte)
    PROVE  JoinedEitherWay(p, q, r)
    BY ConcatAssociative DEF JoinedEitherWay

\* A path that is encoded, whatever follows it, is decoded byte for byte.
LEMMA DecodeEncoded ==
    ASSUME NEW path \in Seq(Byte), NEW rest \in Seq(Byte)
    PROVE  Decoding(PercentEncode(path) \o rest)[Len(PercentEncode(path))] = [out |-> path, skip |-> 0]
<1> DEFINE Leads(p) == \A t \in Seq(Byte) :
               Decoding(PercentEncode(p) \o t)[Len(PercentEncode(p))] = [out |-> p, skip |-> 0]
           S == {n \in Nat : \A p \in Seq(Byte) : Len(p) = n => Leads(p)}
<1>0. \A s \in Seq(Glyph) : s \in Seq(Byte)
    BY DEF Glyph
<1>1. 0 \in S
    <2>1. Leads(<<>>)
        <3>1. SUFFICES ASSUME NEW t \in Seq(Byte)
                       PROVE  Decoding(PercentEncode(<<>>) \o t)[Len(PercentEncode(<<>>))] = [out |-> <<>>, skip |-> 0]
            OBVIOUS
        <3>2. PercentEncode(<<>>) = <<>>
            <4>1. <<>> \in Seq(Byte) /\ 0 \in Byte
                BY DEF Byte
            <4> QED BY <4>1, EncodeMore
        <3>3. <<>> \o t = t /\ Len(<<>>) = 0
            OBVIOUS
        <3> QED BY <3>2, <3>3, DecodingDef
    <2> HIDE DEF Leads
    <2>2. \A p \in Seq(Byte) : Len(p) = 0 => p = <<>>
        OBVIOUS
    <2> QED BY <2>1, <2>2
<1>2. ASSUME NEW n \in S PROVE n + 1 \in S
    <2>0. n \in Nat /\ \A p \in Seq(Byte) : Len(p) = n => Leads(p)
        OBVIOUS
    <2>1. SUFFICES ASSUME NEW q \in Seq(Byte), Len(q) = n + 1, NEW t \in Seq(Byte)
                   PROVE  Decoding(PercentEncode(q) \o t)[Len(PercentEncode(q))] = [out |-> q, skip |-> 0]
        BY <2>0
    <2> DEFINE p == SubSeq(q, 1, n)
               b == q[n + 1]
               e == PercentEncode(p)
               x == Escaped(b)
               s == e \o (x \o t)
    <2>2. p \in Seq(Byte) /\ Len(p) = n /\ b \in Byte /\ q = Append(p, b)
        BY <2>0, <2>1
    <2> HIDE DEF p, b
    <2>3. e \in Seq(Byte) /\ x \in Seq(Byte) /\ PercentEncode(q) = e \o x /\ (Plain(x, b) \/ Triple(x, b))
        BY <1>0, <2>2, EncodeMore, EscapedFacts
    <2>4. Leads(p)
        BY <2>0, <2>2
    <2> HIDE DEF e, x
    <2>5. x \o t \in Seq(Byte)
        BY <2>1, <2>3
    <2>6. HasRead(s, Len(e), p)
        BY <2>4, <2>5 DEF e, HasRead
    <2>7. s \in Seq(Byte) /\ Len(s) = Len(e) + (Len(x) + Len(t)) /\ Len(e) \in Nat /\ Len(x) \in Nat /\ Len(t) \in Nat
        BY <2>1, <2>3, <2>5
    <2>8. Stands(x, s, Len(e))
        <3>1. \A i \in 1 .. Len(x) : s[Len(e) + i] = x[i]
            BY <2>1, <2>3, <2>5
        <3> HIDE DEF s
        <3> QED BY <2>7, <3>1 DEF Stands
    <2>9. (e \o x) \o t = s /\ Len(e \o x) = Len(e) + Len(x)
        <3>1. (e \o x) \o t = e \o (x \o t)
            <4>1. e \in Seq(Byte) /\ x \in Seq(Byte) /\ t \in Seq(Byte)
                BY <2>3
            <4>2. JoinedEitherWay(e, x, t)
                BY <4>1, Associates
            <4> HIDE DEF S
            <4> QED BY <4>2 DEF JoinedEitherWay
        <3>2. Len(e \o x) = Len(e) + Len(x)
            BY <2>3
        <3> QED BY <3>1, <3>2
    <2> HIDE DEF s, Leads
    <2>10. HasRead(s, Len(e) + Len(x), Append(p, b))
        BY <2>2, <2>3, <2>6, <2>7, <2>8, DecodeOne
    <2> QED BY <2>2, <2>3, <2>9, <2>10 DEF HasRead
<1> HIDE DEF S
<1>3. \A n \in Nat : n \in S
    BY <1>1, <1>2, Induction DEF S
<1>4. Len(path) \in Nat
    OBVIOUS
<1> HIDE DEF Leads
<1>5. Leads(path)
    BY <1>3, <1>4 DEF S
<1> QED BY <1>5 DEF Leads

LEMMA DecodedBack ==
    ASSUME NEW path \in Seq(Byte)
    PROVE  PercentDecode(PercentEncode(path)) = path
<1> DEFINE e == PercentEncode(path)
           none == <<>>
<1>1. e \in Seq(Glyph)
    <2> 0 \in Byte
        BY DEF Byte
    <2> QED BY EncodeMore
<1>2. e \o none = e /\ none \in Seq(Byte)
    BY <1>1
<1>3. Decoding(e \o none)[Len(e)] = [out |-> path, skip |-> 0]
    <2> HIDE DEF none
    <2> QED BY <1>2, DecodeEncoded
<1>4. PercentDecode(e) = Decoding(e)[Len(e)].out
    BY DEF PercentDecode, Decoding
<1> HIDE DEF e, none
<1> QED BY <1>2, <1>3, <1>4 DEF e

\* Trimming takes away the carriage return and nothing else.
LEMMA TrimmedLine ==
    ASSUME NEW c \in Seq(Glyph), Len(c) > 0
    PROVE  Trim(c \o <<13>>) = c
<1> DEFINE n == Len(c)
           s == c \o <<13>>
           kept == {i \in DOMAIN s : s[i] \notin White}
<1>1. /\ n \in Nat \ {0} /\ DOMAIN s = 1 .. n + 1 /\ s[n + 1] = 13
      /\ \A i \in 1 .. n : s[i] = c[i] /\ c[i] \in Glyph
    OBVIOUS
<1>2. SubSeq(s, 1, n) = c
    <2>1. Len(SubSeq(s, 1, n)) = n /\ \A i \in 1 .. n : SubSeq(s, 1, n)[i] = c[i]
        BY <1>1
    <2> QED BY <1>1, <2>1
<1> HIDE DEF s, n
<1>3. 13 \in White
    BY DEF White
<1>4. kept = 1 .. n
    <2>1. \A i \in 1 .. n : s[i] \notin White
        BY <1>1 DEF Glyph
    <2>2. \A i \in 1 .. n + 1 : i = n + 1 \/ i \in 1 .. n
        BY <1>1
    <2> QED BY <1>1, <1>3, <2>1, <2>2
<1> HIDE DEF kept
<1>5. Min(kept) = 1 /\ Max(kept) = n
    <2>1. 1 \in kept /\ n \in kept /\ \A x \in kept : x \in Int /\ 1 <= x /\ x <= n
        BY <1>1, <1>4
    <2>2. Min(kept) \in kept /\ \A x \in kept : Min(kept) <= x
        BY <2>1 DEF Min
    <2>3. Max(kept) \in kept /\ \A x \in kept : Max(kept) >= x
        BY <2>1, <1>1 DEF Max
    <2>4. Min(kept) = 1
        BY <2>1, <2>2
    <2>5. Max(kept) = n
        BY <2>1, <2>3
    <2> QED BY <2>4, <2>5
<1>6. kept # {}
    <2> 1 \in 1 .. n
        BY <1>1
    <2> QED BY <1>4
<1>7. Trim(s) = SubSeq(s, Min(kept), Max(kept))
    BY <1>6 DEF Trim, kept
<1> QED BY <1>2, <1>5, <1>7 DEF s, n

\* Whatever the bytes of a path, the line that build_uri_list makes of it is one line,
\* and parse_uri_list reads the path back from it.
THEOREM EveryPathLeadsBack ==
    \A path \in Seq(Byte) : ParseLine(BuildLine(path)) = path /\ 10 \notin ToSet(BuildLine(path))
<1> SUFFICES ASSUME NEW path \in Seq(Byte)
             PROVE  ParseLine(BuildLine(path)) = path /\ 10 \notin ToSet(BuildLine(path))
    OBVIOUS
<1> DEFINE e == PercentEncode(path)
           c == Scheme \o e
<1>1. e \in Seq(Glyph)
    <2> 0 \in Byte
        BY DEF Byte
    <2> QED BY EncodeMore
<1> HIDE DEF e
<1>2. Scheme \in Seq(Glyph) /\ Len(Scheme) = 7
    BY SMT DEF Scheme, Glyph, Byte, White
<1>3. c \in Seq(Glyph) /\ Len(c) = 7 + Len(e) /\ Len(e) \in Nat
      /\ \A i \in 1 .. Len(c) : c[i] = IF i <= 7 THEN Scheme[i] ELSE e[i - 7]
    <2>1. /\ c \in Seq(Glyph) /\ Len(c) = Len(Scheme) + Len(e)
          /\ \A i \in 1 .. Len(Scheme) + Len(e) : c[i] = IF i <= Len(Scheme) THEN Scheme[i] ELSE e[i - Len(Scheme)]
        BY <1>1, <1>2, ConcatProperties
    <2>2. Len(e) \in Nat
        BY <1>1
    <2> HIDE DEF c
    <2> QED BY <1>2, <2>1, <2>2
<1> HIDE DEF c
<1>4. SubSeq(c, 8, Len(c)) = e
    <2>1. Len(SubSeq(c, 8, Len(c))) = Len(e) /\ \A i \in 1 .. Len(e) : SubSeq(c, 8, Len(c))[i] = e[i]
        BY <1>3
    <2>2. SubSeq(c, 8, Len(c)) \in Seq(Glyph)
        BY <1>3
    <2> QED BY <1>1, <2>1, <2>2, SeqEqual
<1>5. IsPrefix(Scheme, c)
    <2>1. SubSeq(c, 1, 7) = SubSeq(Scheme, 1, 7)
        <3>1. /\ SubSeq(c, 1, 7) \in Seq(Glyph) /\ SubSeq(Scheme, 1, 7) \in Seq(Glyph)
              /\ Len(SubSeq(c, 1, 7)) = 7 /\ Len(SubSeq(Scheme, 1, 7)) = 7
              /\ \A i \in 1 .. 7 : SubSeq(c, 1, 7)[i] = SubSeq(Scheme, 1, 7)[i]
            BY <1>2, <1>3
        <3> QED BY <3>1, SeqEqual
    <2> QED BY <1>2, <1>3, <2>1 DEF IsPrefix
<1>6. Trim(BuildLine(path)) = c
    <2>1. BuildLine(path) = c \o <<13>>
        BY DEF BuildLine, e, c
    <2>2. Len(c) > 0
        BY <1>3
    <2> QED BY <1>3, <2>1, <2>2, TrimmedLine
<1>7. ParseLine(BuildLine(path)) = PercentDecode(e)
    BY <1>4, <1>5, <1>6 DEF ParseLine
<1>8. 10 \notin ToSet(BuildLine(path))
    <2>1. BuildLine(path) = c \o <<13>>
        BY DEF BuildLine, e, c
    <2>2. \A i \in 1 .. Len(c) : c[i] # 10
        BY <1>3 DEF Glyph, White
    <2>3. /\ DOMAIN (c \o <<13>>) = 1 .. Len(c) + 1 /\ (c \o <<13>>)[Len(c) + 1] = 13 /\ Len(c) \in Nat
          /\ \A i \in 1 .. Len(c) : (c \o <<13>>)[i] = c[i]
        BY <1>3
    <2>4. \A i \in 1 .. Len(c) + 1 : i = Len(c) + 1 \/ i \in 1 .. Len(c)
        BY <2>3
    <2> QED BY <2>1, <2>2, <2>3, <2>4 DEF ToSet
<1> QED BY <1>7, <1>8, DecodedBack DEF e

(***************************************************************************)
(* The inductive invariant of the clipboard.                               *)
(***************************************************************************)

Listing == [dir : 0 .. MaxMs, files : Seq(File)]
TextMessage == [kind : {"text"}, what : Text \cup Listing, from : Nat]
FilesMessage == [kind : {"files"}, what : Listing, from : Nat]
Message == TextMessage \cup FilesMessage

CShape ==
    /\ watch \in {"text", "files"} /\ ended \in {"no", "idle", "busy"} /\ pastes_lists \in BOOLEAN
    /\ ms \in [Side -> 1 .. MaxMs] /\ readers \in Nat /\ ids \in Nat /\ resumed \in 0 .. ids
    /\ clip \in [Side -> Message \cup {Empty}]
    /\ disk \in [Side -> [1 .. MaxMs -> [Name -> Data \cup {Nothing}]]]
    /\ written \in [Side -> [1 .. MaxMs -> Nat]]
    /\ toServer \in Seq(Message) /\ toClient \in Seq(Message)
    /\ tasks \in [Side -> SUBSET ([step : {"copy"}, new : Message] \cup [step : {"write"}, new : FilesMessage])]
    /\ arrived \in [Kind -> SUBSET Nat]

\* Every content was sent before now.
SentInv ==
    /\ \A s \in Side : clip[s].from <= ids /\ \A t \in tasks[s] : t.new.from <= ids
    /\ \A i \in 1 .. Len(toServer) : toServer[i].from <= ids
    /\ \A i \in 1 .. Len(toClient) : toClient[i].from <= ids
    /\ \A k \in Kind : \A id \in arrived[k] : id <= ids

\* A message is within the limit.
Within(m) == m.kind = "files" => Bytes(m.what.files) <= MAX_FILE_TRANSFER_BYTES
SizeInv ==
    /\ \A i \in 1 .. Len(toServer) : Within(toServer[i])
    /\ \A i \in 1 .. Len(toClient) : Within(toClient[i])

\* A session that ended while nothing was being received receives nothing more.
EndInv ==
    ended = "idle" => /\ tasks["server"] = {} /\ toServer = <<>>
                      /\ \A d \in 1 .. MaxMs : \A n \in Name : disk["server"][d][n] = Nothing

\* A list that is, or will be, on a clipboard names files as they are on the disk,
\* unless another transfer was written to their directory.
Distinct(files) == \A i, j \in DOMAIN files : files[i].name = files[j].name => i = j
Stored(s, list) ==
    (list.dir # 0 /\ (s = "server" => ended = "no")) =>
        /\ written[s][list.dir] > 0
        /\ (written[s][list.dir] = 1 /\ Distinct(list.files)) =>
              \A i \in DOMAIN list.files : disk[s][list.dir][list.files[i].name] = list.files[i].data
StoredInv ==
    \A s \in Side :
        /\ clip[s].kind = "files" => Stored(s, clip[s].what)
        /\ \A t \in tasks[s] : (t.step = "copy" /\ t.new.kind = "files") => Stored(s, t.new.what)

\* What the client sends on this connection has numbers of its own, in order.
NumberInv ==
    \A i \in 1 .. Len(toServer) :
        /\ toServer[i].from > resumed
        /\ \A j \in 1 .. Len(toServer) : j < i => toServer[j].from < toServer[i].from
        /\ \A k \in Kind : toServer[i].from \notin arrived[k]
        /\ clip["server"].from # toServer[i].from
        /\ \A t \in tasks["server"] : t.new.from # toServer[i].from

\* A content of this connection is in one place only, and has arrived.
OnceInv ==
    \A t \in tasks["server"] : t.new.from > resumed =>
        /\ t.new.from \in arrived[t.new.kind] /\ clip["server"].from # t.new.from
        /\ \A u \in tasks["server"] : u.new.from = t.new.from => u = t

\* The hash of the only content of a kind that has arrived is remembered.
HashOf(kind) == IF kind = "text" THEN client_clip_hash ELSE client_clip_uri_hash
Marked(m) ==
    m.from > resumed =>
        /\ m.from \in arrived[m.kind]
        /\ arrived[m.kind] \subseteq {m.from} => HashOf(m.kind) = Hash(m.what)
MarkInv ==
    /\ Marked(clip["server"])
    /\ \A t \in tasks["server"] : t.step = "copy" => Marked(t.new)

CInv == CShape /\ SentInv /\ SizeInv /\ EndInv /\ StoredInv /\ NumberInv /\ OnceInv /\ MarkInv

(***************************************************************************)
(* Every step keeps the invariant of the clipboard.                        *)
(***************************************************************************)

USE ClipboardAssumption DEF wireVars, watchVars, historyVars, Side, Kind

\* A message put at the end of a queue moves no other.
LEMMA AppendIndex ==
    ASSUME NEW T, NEW s \in Seq(T), NEW e \in T
    PROVE  /\ Append(s, e) \in Seq(T) /\ Len(Append(s, e)) = Len(s) + 1 /\ Len(s) \in Nat
           /\ \A i \in 1 .. Len(s) : s[i] \in T
           /\ \A i \in 1 .. Len(s) + 1 : \/ i \in 1 .. Len(s) /\ Append(s, e)[i] = s[i]
                                         \/ i = Len(s) + 1 /\ Append(s, e)[i] = e
    OBVIOUS

\* Taking the first message moves the others up by one.
LEMMA TailIndex ==
    ASSUME NEW T, NEW s \in Seq(T), s # <<>>
    PROVE  /\ Tail(s) \in Seq(T) /\ Head(s) \in T /\ Head(s) = s[1] /\ Len(s) \in Nat \ {0}
           /\ Len(Tail(s)) = Len(s) - 1
           /\ \A i \in 1 .. Len(s) - 1 : i + 1 \in 1 .. Len(s) /\ Tail(s)[i] = s[i + 1]
    OBVIOUS

\* The files left over are among those there were.
LEMMA OnlyIn ==
    ASSUME NEW U, NEW files, NEW n \in Nat, DOMAIN files = 1 .. n, NEW kept,
           \A i \in 1 .. n : i \in kept => files[i] \in U
    PROVE  Only(files, kept) \in Seq(U)
<1> DEFINE pieces == [i \in DOMAIN files |-> IF i \in kept THEN <<files[i]>> ELSE <<>>]
<1>1. \A i \in 1 .. n : (IF i \in kept THEN <<files[i]>> ELSE <<>>) \in Seq(U)
    OBVIOUS
<1>2. pieces \in Seq(Seq(U))
    BY <1>1
<1> HIDE DEF pieces
<1>3. <<>> \in Seq(U)
    OBVIOUS
<1>4. FlattenSeq(pieces) \in Seq(U)
    BY <1>2, <1>3, FlattenSeqLast
<1> QED BY <1>4 DEF Only, pieces

\* What each kind of message holds.
LEMMA MessageFacts ==
    /\ \A t \in Text \cup Listing, id \in Nat :
          TextOf(t, id) \in Message /\ TextOf(t, id).kind = "text" /\ TextOf(t, id).from = id
    /\ \A d \in 0 .. MaxMs, f \in Seq(File), id \in Nat :
          FilesOf(d, f, id) \in FilesMessage /\ FilesOf(d, f, id).kind = "files" /\ FilesOf(d, f, id).from = id
              /\ FilesOf(d, f, id).what.dir = d /\ FilesOf(d, f, id).what.files = f
    /\ Empty.from = 0 /\ Empty.kind = "none"
    /\ \A m \in Message : m.from \in Nat /\ m.kind \in Kind
    /\ \A m \in Message : m.kind = "files" => m \in FilesMessage
    /\ \A m \in Message : m.kind = "text" => m.what \in Text \cup Listing
    /\ \A m \in FilesMessage : m \in Message /\ m.what \in Listing /\ m.kind = "files"
    BY DEF TextOf, FilesOf, Message, TextMessage, FilesMessage, Listing, Empty

\* What is on a clipboard, and what a thread works on.
LEMMA PlaceFacts ==
    ASSUME CShape, NEW s \in Side
    PROVE  /\ clip[s] \in Message \cup {Empty} /\ clip[s].from \in Nat
           /\ \A t \in tasks[s] : /\ t.new \in Message /\ t.new.from \in Nat /\ t.new.kind \in Kind
                                 /\ (t.step = "copy" \/ (t.step = "write" /\ t.new \in FilesMessage))
<1>1. clip[s] \in Message \cup {Empty}
    BY DEF CShape
<1>2. ASSUME NEW t \in tasks[s]
      PROVE  t.new \in Message /\ (t.step = "copy" \/ (t.step = "write" /\ t.new \in FilesMessage))
    <2>1. t \in [step : {"copy"}, new : Message] \cup [step : {"write"}, new : FilesMessage]
        BY DEF CShape
    <2> HIDE DEF CShape
    <2>2. CASE t \in [step : {"copy"}, new : Message]
        BY <2>2
    <2>3. CASE t \in [step : {"write"}, new : FilesMessage]
        BY <2>3 DEF Message
    <2> QED BY <2>1, <2>2, <2>3
<1>3. clip[s].from \in Nat
    BY <1>1, MessageFacts
<1> HIDE DEF CShape
<1> QED BY <1>1, <1>2, <1>3, MessageFacts

\* What is read from the files of a list.
LEMMA ContentsShape ==
    ASSUME CShape, NEW side \in Side, NEW list \in Listing
    PROVE  Contents(side, list) \in Seq(File)
<1> DEFINE there == IF list.dir = 0 THEN list.files
                    ELSE [i \in DOMAIN list.files |->
                            [list.files[i] EXCEPT !.data = disk[side][list.dir][list.files[i].name]]]
           n == Len(list.files)
<1>1. n \in Nat /\ DOMAIN list.files = 1 .. n /\ list.dir \in 0 .. MaxMs /\ \A i \in 1 .. n : list.files[i] \in File
    BY DEF Listing
<1> HIDE DEF n
<1>2. CASE list.dir = 0
    BY <1>1, <1>2, OnlyIn DEF Contents
<1>3. CASE list.dir # 0
    <2>1. ASSUME NEW i \in 1 .. n
          PROVE  [list.files[i] EXCEPT !.data = disk[side][list.dir][list.files[i].name]] \in File
        <3>1. list.files[i] \in File /\ list.dir \in 1 .. MaxMs
            BY <1>1, <1>3
        <3>2. disk[side][list.dir][list.files[i].name] \in Data \cup {Nothing}
            <4>1. list.files[i].name \in Name
                BY <3>1 DEF File
            <4>2. disk \in [Side -> [1 .. MaxMs -> [Name -> Data \cup {Nothing}]]]
                BY DEF CShape
            <4> HIDE DEF CShape
            <4> QED BY <3>1, <4>1, <4>2
        <3> HIDE DEF CShape
        <3> QED BY <3>1, <3>2 DEF File
    <2>2. DOMAIN there = 1 .. n /\ \A i \in 1 .. n : there[i] \in File
        BY <1>1, <1>3, <2>1
    <2> HIDE DEF there
    <2>3. Only(there, {i \in DOMAIN there : there[i].readable}) \in Seq(File)
        BY <1>1, <2>2, OnlyIn
    <2> QED BY <2>3 DEF Contents, there
<1> QED BY <1>2, <1>3

\* What wl-paste hands out.
LEMMA PastedShape ==
    ASSUME CShape, NEW side \in Side
    PROVE  /\ Pasted(side) # Nothing => Pasted(side) \in Text \cup Listing
           /\ PastedList(side) # Nothing => PastedList(side) \in Listing
<1>1. clip[side] \in Message \cup {Empty}
    BY DEF CShape
<1>2. clip[side].kind = "text" => clip[side].what \in Text \cup Listing
    BY <1>1, MessageFacts
<1>3. clip[side].kind = "files" => clip[side].what \in Listing
    BY <1>1, MessageFacts
<1> QED BY <1>2, <1>3 DEF Pasted, PastedList

\* The client sends a content.
LEMMA SentToServer ==
    ASSUME CInv, NEW m \in Message, m.from = ids + 1, Within(m), ended # "idle", ids' = ids + 1, readers' \in Nat,
           toServer' = Append(toServer, m),
           UNCHANGED <<pastes_lists, clip, disk, ms, toClient, tasks, watchVars, ended, arrived, written, resumed>>
    PROVE  CInv'
<1> USE DEF CInv
<1>0. /\ Len(toServer') = Len(toServer) + 1 /\ Len(toServer) \in Nat /\ toServer' \in Seq(Message)
      /\ \A i \in 1 .. Len(toServer) : toServer[i] \in Message
      /\ \A i \in 1 .. Len(toServer) + 1 : \/ i \in 1 .. Len(toServer) /\ toServer'[i] = toServer[i]
                                           \/ i = Len(toServer) + 1 /\ toServer'[i] = m
    BY AppendIndex DEF CShape
<1>1. CShape'
    BY <1>0 DEF CShape
<1>n. /\ \A s \in Side : clip[s].from \in Nat /\ \A t \in tasks[s] : t.new.from \in Nat
      /\ \A i \in 1 .. Len(toServer) : toServer[i].from \in Nat
      /\ \A i \in 1 .. Len(toClient) : toClient[i].from \in Nat
      /\ \A k \in Kind : \A id \in arrived[k] : id \in Nat
      /\ ids \in Nat /\ resumed \in Nat /\ resumed <= ids
    <2> HIDE DEF CInv
    <2>q. CShape
        BY DEF CInv
    <2>1. /\ \A i \in 1 .. Len(toServer) : toServer[i] \in Message
          /\ \A i \in 1 .. Len(toClient) : toClient[i] \in Message
          /\ \A k \in Kind : \A id \in arrived[k] : id \in Nat
          /\ ids \in Nat /\ resumed \in Nat /\ resumed <= ids
        <3>1. toServer \in Seq(Message) /\ toClient \in Seq(Message)
            BY <2>q DEF CShape
        <3>2. arrived \in [Kind -> SUBSET Nat] /\ ids \in Nat /\ resumed \in 0 .. ids
            BY <2>q DEF CShape
        <3> QED BY <3>1, <3>2
    <2>2. \A s \in Side : clip[s].from \in Nat /\ \A t \in tasks[s] : t.new.from \in Nat
        BY PlaceFacts DEF CInv
    <2> QED BY <2>1, <2>2, MessageFacts
<1>2. SentInv'
    <2>1. /\ \A s \in Side : clip[s].from <= ids /\ \A t \in tasks[s] : t.new.from <= ids
          /\ \A i \in 1 .. Len(toServer) : toServer[i].from <= ids
          /\ \A i \in 1 .. Len(toClient) : toClient[i].from <= ids
          /\ \A k \in Kind : \A id \in arrived[k] : id <= ids
        BY DEF SentInv
    <2> HIDE DEF CInv
    <2>2. \A s \in Side : clip'[s].from <= ids' /\ \A t \in tasks'[s] : t.new.from <= ids'
        BY <1>n, <2>1
    <2>3. \A i \in 1 .. Len(toServer') : toServer'[i].from <= ids'
        BY <1>0, <1>n, <2>1
    <2>4. \A i \in 1 .. Len(toClient') : toClient'[i].from <= ids'
        BY <1>n, <2>1
    <2>5. \A k \in Kind : \A id \in arrived'[k] : id <= ids'
        BY <1>n, <2>1
    <2> QED BY <2>2, <2>3, <2>4, <2>5 DEF SentInv
<1>3. SizeInv'
    BY <1>0 DEF SizeInv, Within
<1>4. EndInv'
    BY DEF EndInv
<1>5. StoredInv'
    BY DEF StoredInv, Stored
<1>6. NumberInv'
    <2>1. /\ \A i \in 1 .. Len(toServer) : toServer[i].from <= ids
          /\ \A k \in Kind : \A id \in arrived[k] : id <= ids
          /\ clip["server"].from <= ids /\ \A t \in tasks["server"] : t.new.from <= ids
        BY DEF SentInv
    <2>2. ASSUME NEW i \in 1 .. Len(toServer) + 1
          PROVE  /\ toServer'[i].from > resumed
                 /\ \A j \in 1 .. Len(toServer) + 1 : j < i => toServer'[j].from < toServer'[i].from
                 /\ \A k \in Kind : toServer'[i].from \notin arrived[k]
                 /\ clip["server"].from # toServer'[i].from
                 /\ \A t \in tasks["server"] : t.new.from # toServer'[i].from
        <3>1. CASE i \in 1 .. Len(toServer) /\ toServer'[i] = toServer[i]
            BY <1>0, <3>1 DEF NumberInv
        <3>2. CASE i = Len(toServer) + 1 /\ toServer'[i] = m
            BY <1>0, <1>n, <2>1, <3>2
        <3> QED BY <1>0, <3>1, <3>2
    <2> QED BY <1>0, <2>2 DEF NumberInv
<1>7. OnceInv'
    BY DEF OnceInv
<1>8. MarkInv'
    BY DEF MarkInv, Marked, HashOf
<1> QED BY <1>1, <1>2, <1>3, <1>4, <1>5, <1>6, <1>7, <1>8

\* The session sends a content.
LEMMA SentToClient ==
    ASSUME CInv, NEW m \in Message, m.from <= ids, Within(m), watch' \in {"text", "files"},
           toClient' = Append(toClient, m),
           UNCHANGED <<pastes_lists, clip, disk, ms, toServer, tasks, client_clip_hash, client_clip_uri_hash,
                       readers, ended, historyVars>>
    PROVE  CInv'
<1> USE DEF CInv
<1>0. /\ Len(toClient') = Len(toClient) + 1 /\ toClient' \in Seq(Message)
      /\ \A i \in 1 .. Len(toClient) + 1 : \/ i \in 1 .. Len(toClient) /\ toClient'[i] = toClient[i]
                                           \/ i = Len(toClient) + 1 /\ toClient'[i] = m
    BY AppendIndex DEF CShape
<1>1. CShape'
    BY <1>0 DEF CShape
<1>2. SentInv'
    BY <1>0 DEF SentInv
<1>3. SizeInv'
    BY <1>0 DEF SizeInv, Within
<1>4. EndInv'
    BY DEF EndInv
<1>5. StoredInv'
    BY DEF StoredInv, Stored
<1>6. NumberInv'
    BY DEF NumberInv
<1>7. OnceInv'
    BY DEF OnceInv
<1>8. MarkInv'
    BY DEF MarkInv, Marked, HashOf
<1> QED BY <1>1, <1>2, <1>3, <1>4, <1>5, <1>6, <1>7, <1>8

\* Nothing but a clock of the watch thread or of the readers moves.
LEMMA NothingSent ==
    ASSUME CInv, watch' \in {"text", "files"}, readers' \in Nat, ids' \in Nat, ids <= ids',
           UNCHANGED <<pastes_lists, clip, disk, ms, toServer, toClient, tasks, client_clip_hash, client_clip_uri_hash,
                       ended, arrived, written, resumed>>
    PROVE  CInv'
<1> USE DEF CInv
<1>1. CShape'
    BY DEF CShape
<1>2. SentInv'
    <2>1. /\ \A i \in 1 .. Len(toServer) : toServer[i] \in Message
          /\ \A i \in 1 .. Len(toClient) : toClient[i] \in Message
          /\ \A k \in Kind : \A id \in arrived[k] : id \in Nat
          /\ ids \in Nat
        BY DEF CShape
    <2>2. /\ \A i \in 1 .. Len(toServer) : toServer[i].from \in Nat
          /\ \A i \in 1 .. Len(toClient) : toClient[i].from \in Nat
        BY <2>1, MessageFacts
    <2>3. \A s \in Side : clip[s].from \in Nat /\ \A t \in tasks[s] : t.new.from \in Nat
        BY PlaceFacts
    <2>4. SentInv
        OBVIOUS
    <2> HIDE DEF CInv
    <2>5. \A s \in Side : clip[s].from <= ids' /\ \A t \in tasks[s] : t.new.from <= ids'
        BY <2>1, <2>3, <2>4 DEF SentInv
    <2>6. /\ \A i \in 1 .. Len(toServer) : toServer[i].from <= ids'
          /\ \A i \in 1 .. Len(toClient) : toClient[i].from <= ids'
        BY <2>1, <2>2, <2>4 DEF SentInv
    <2>7. \A k \in Kind : \A id \in arrived[k] : id <= ids'
        BY <2>1, <2>4 DEF SentInv
    <2> QED BY <2>5, <2>6, <2>7 DEF SentInv
<1>3. SizeInv'
    BY DEF SizeInv, Within
<1>4. EndInv'
    BY DEF EndInv
<1>5. StoredInv'
    BY DEF StoredInv, Stored
<1>6. NumberInv'
    BY DEF NumberInv
<1>7. OnceInv'
    BY DEF OnceInv
<1>8. MarkInv'
    BY DEF MarkInv, Marked, HashOf
<1> QED BY <1>1, <1>2, <1>3, <1>4, <1>5, <1>6, <1>7, <1>8

\* The window gains the focus.
LEMMA FocusedKeeps ==
    ASSUME CInv, Focused
    PROVE  CInv'
<1>1. CShape /\ ids \in Nat /\ readers \in Nat /\ watch \in {"text", "files"} /\ ended # "idle"
    BY DEF CInv, CShape, Focused
<1>2. CASE Pasted("client") = Nothing
    BY <1>1, <1>2, NothingSent DEF Focused, Event
<1>3. CASE Pasted("client") # Nothing
    <2> DEFINE m == TextOf(Pasted("client"), ids + 1)
    <2>1. Pasted("client") \in Text \cup Listing
        BY <1>1, <1>3, PastedShape
    <2>2. m \in Message /\ m.kind = "text" /\ m.from = ids + 1
        BY <1>1, <2>1, MessageFacts
    <2>3. Within(m)
        BY <2>2 DEF Within
    <2>4. toServer' = Append(toServer, m) /\ ids' = ids + 1 /\ readers' \in Nat
        BY <1>1, <1>3 DEF Focused
    <2> HIDE DEF m
    <2> QED BY <1>1, <2>2, <2>3, <2>4, SentToServer DEF Focused
<1> QED BY <1>2, <1>3

\* The files are sent after the text.
LEMMA SendFilesKeeps ==
    ASSUME CInv, SendFiles
    PROVE  CInv'
<1> DEFINE list == PastedList("client")
           files == IF list = Nothing THEN <<>> ELSE Contents("client", list)
           m == FilesOf(0, files, ids + 1)
<1>1. /\ CShape /\ ids \in Nat /\ readers \in Nat /\ watch \in {"text", "files"} /\ readers > 0
      /\ readers' \in Nat /\ ids' = ids + 1 /\ MaxMs \in Nat
    BY DEF CInv, CShape, SendFiles
<1>2. files \in Seq(File)
    BY <1>1, PastedShape, ContentsShape
<1>3. /\ toServer' = IF ended = "no" /\ Sendable(files) THEN Append(toServer, m) ELSE toServer
      /\ UNCHANGED <<pastes_lists, clip, disk, ms, toClient, tasks, watchVars, ended, arrived, written, resumed>>
    BY <1>1 DEF SendFiles
<1> HIDE DEF files
<1>4. m \in Message /\ m.from = ids + 1 /\ m.what.files = files
    BY <1>1, <1>2, MessageFacts
<1>5. CASE ended = "no" /\ Sendable(files)
    <2>1. Within(m)
        BY <1>4, <1>5 DEF Within, Sendable
    <2> HIDE DEF m
    <2> QED BY <1>1, <1>3, <1>4, <1>5, <2>1, SentToServer
<1>6. CASE ~(ended = "no" /\ Sendable(files))
    BY <1>1, <1>3, <1>6, NothingSent
<1> QED BY <1>5, <1>6

\* The watch thread looks for a text.
LEMMA PollTextKeeps ==
    ASSUME CInv, PollText
    PROVE  CInv'
<1> DEFINE m == TextOf(Pasted("server"), clip["server"].from)
<1>1. CShape /\ ids \in Nat /\ readers \in Nat /\ watch' \in {"text", "files"}
    BY DEF CInv, CShape, PollText
<1>2. clip["server"].from \in Nat /\ clip["server"].from <= ids
    BY <1>1, PlaceFacts DEF CInv, SentInv
<1>3. /\ UNCHANGED <<pastes_lists, clip, disk, ms, toServer, tasks, client_clip_hash, client_clip_uri_hash,
                     readers, ended, historyVars>>
      /\ toClient' = toClient \/ (Pasted("server") # Nothing /\ toClient' = Append(toClient, m))
    BY DEF PollText
<1>4. CASE toClient' = toClient
    BY <1>1, <1>3, <1>4, NothingSent
<1>5. CASE Pasted("server") # Nothing /\ toClient' = Append(toClient, m)
    <2>1. Pasted("server") \in Text \cup Listing
        BY <1>1, <1>5, PastedShape
    <2>2. m \in Message /\ m.kind = "text" /\ m.from <= ids
        BY <1>2, <2>1, MessageFacts
    <2>3. Within(m)
        BY <2>2 DEF Within
    <2> HIDE DEF m
    <2> QED BY <1>1, <1>3, <1>5, <2>2, <2>3, SentToClient
<1> QED BY <1>3, <1>4, <1>5

\* The watch thread looks for a list of files.
LEMMA PollFilesKeeps ==
    ASSUME CInv, PollFiles
    PROVE  CInv'
<1> DEFINE list == PastedList("server")
           files == IF list = Nothing THEN <<>> ELSE Contents("server", list)
           m == FilesOf(0, files, clip["server"].from)
<1>1. CShape /\ ids \in Nat /\ readers \in Nat /\ watch' \in {"text", "files"} /\ MaxMs \in Nat
    BY DEF CInv, CShape, PollFiles
<1>2. clip["server"].from \in Nat /\ clip["server"].from <= ids
    BY <1>1, PlaceFacts DEF CInv, SentInv
<1>3. /\ UNCHANGED <<pastes_lists, clip, disk, ms, toServer, tasks, client_clip_hash, client_clip_uri_hash,
                     readers, ended, historyVars>>
      /\ toClient' = toClient \/ (Sendable(files) /\ toClient' = Append(toClient, m))
    BY DEF PollFiles
<1>4. files \in Seq(File)
    BY <1>1, PastedShape, ContentsShape
<1> HIDE DEF files
<1>5. m \in Message /\ m.from <= ids /\ m.what.files = files
    BY <1>1, <1>2, <1>4, MessageFacts
<1>6. CASE toClient' = toClient
    BY <1>1, <1>3, <1>6, NothingSent
<1>7. CASE Sendable(files) /\ toClient' = Append(toClient, m)
    <2>1. Within(m)
        BY <1>5, <1>7 DEF Within, Sendable
    <2> HIDE DEF m
    <2> QED BY <1>1, <1>3, <1>5, <1>7, <2>1, SentToClient
<1> QED BY <1>3, <1>6, <1>7

\* A content is put on a clipboard.
Task == [step : {"copy"}, new : Message] \cup [step : {"write"}, new : FilesMessage]
LEMMA PutOnClipboard ==
    ASSUME CInv, NEW side \in Side, NEW m \in Message, m.from <= ids,
           m.kind = "files" => Stored(side, m.what),
           side = "server" => /\ Marked(m)
                              /\ \A i \in 1 .. Len(toServer) : toServer[i].from # m.from
                              /\ \A t \in tasks'["server"] : t.new.from > resumed => t.new.from # m.from,
           clip' = [clip EXCEPT ![side] = m],
           tasks' \in [Side -> SUBSET Task], \A s \in Side : tasks'[s] \subseteq tasks[s],
           toClient' \in Seq(Message),
           \A i \in 1 .. Len(toClient') : \E j \in 1 .. Len(toClient) : toClient'[i] = toClient[j],
           UNCHANGED <<pastes_lists, disk, ms, readers, toServer, watchVars, ended, ids, arrived, written, resumed>>
    PROVE  CInv'
<1> USE DEF CInv
<1>0. \A s \in Side : clip'[s] = IF s = side THEN m ELSE clip[s]
    BY DEF CShape
<1>1. CShape'
    BY DEF CShape, Task
<1>2. SentInv'
    BY <1>0 DEF SentInv
<1>3. SizeInv'
    BY DEF SizeInv, Within
<1>4. EndInv'
    BY DEF EndInv
<1>5. StoredInv'
    <2>1. \A s \in Side : \A l : Stored(s, l)' = Stored(s, l)
        BY DEF Stored
    <2> QED BY <1>0, <2>1 DEF StoredInv
<1>6. NumberInv'
    BY <1>0 DEF NumberInv
<1>7. OnceInv'
    BY <1>0 DEF OnceInv
<1>8. MarkInv'
    <2>1. \A x : Marked(x)' = Marked(x)
        BY DEF Marked, HashOf
    <2> QED BY <1>0, <2>1 DEF MarkInv
<1> QED BY <1>1, <1>2, <1>3, <1>4, <1>5, <1>6, <1>7, <1>8

\* A user copies.
LEMMA UserCopiesKeeps ==
    ASSUME CInv, NEW side \in Side, UserCopies(side)
    PROVE  CInv'
<1>1. /\ CShape /\ ids \in Nat /\ resumed \in Nat /\ MaxMs \in Nat /\ Batch \subseteq Seq(File)
      /\ tasks \in [Side -> SUBSET Task] /\ toClient \in Seq(Message) /\ toServer \in Seq(Message)
    BY DEF CInv, CShape, Task
<1>2. PICK m \in Message : /\ m.from = 0 /\ (m.kind = "files" => m.what.dir = 0)
                           /\ clip' = [clip EXCEPT ![side] = m]
    <2>1. \A t \in Text : TextOf(t, 0) \in Message /\ TextOf(t, 0).from = 0 /\ TextOf(t, 0).kind = "text"
        BY MessageFacts
    <2>2. \A b \in Batch : FilesOf(0, b, 0) \in Message /\ FilesOf(0, b, 0).from = 0 /\ FilesOf(0, b, 0).what.dir = 0
        BY <1>1, MessageFacts
    <2>3. CASE \E t \in Text : clip' = [clip EXCEPT ![side] = TextOf(t, 0)]
        BY <2>1, <2>3
    <2>4. CASE \E b \in Batch : clip' = [clip EXCEPT ![side] = FilesOf(0, b, 0)]
        BY <2>2, <2>4
    <2> QED BY <2>3, <2>4 DEF UserCopies
<1>3. /\ UNCHANGED <<pastes_lists, disk, ms, readers, toServer, toClient, tasks, watchVars, ended, ids, arrived,
                     written, resumed>>
    BY DEF UserCopies
<1>4. m.kind = "files" => Stored(side, m.what)
    BY <1>2 DEF Stored
<1>5. Marked(m)
    BY <1>1, <1>2 DEF Marked
<1>6. \A i \in 1 .. Len(toServer) : toServer[i].from # m.from
    <2>1. \A i \in 1 .. Len(toServer) : toServer[i].from > resumed
        BY DEF CInv, NumberInv
    <2> QED BY <1>1, <1>2, <2>1
<1>7. \A t \in tasks'["server"] : t.new.from > resumed => t.new.from # m.from
    BY <1>1, <1>2, <1>3
<1>8. m.from <= ids /\ \A s \in Side : tasks'[s] \subseteq tasks[s]
    BY <1>1, <1>2, <1>3
<1> QED BY <1>1, <1>2, <1>3, <1>4, <1>5, <1>6, <1>7, <1>8, PutOnClipboard

\* A content is put on a clipboard.
LEMMA SetClipboardKeeps ==
    ASSUME CInv, NEW side \in Side, SetClipboard(side)
    PROVE  CInv'
<1>1. PICK t \in tasks[side] : /\ t.step = "copy" /\ tasks' = [tasks EXCEPT ![side] = @ \ {t}]
                               /\ clip' = [clip EXCEPT ![side] = t.new]
    BY DEF SetClipboard
<1>2. /\ UNCHANGED <<pastes_lists, disk, ms, readers, toServer, toClient, watchVars, ended, ids, arrived,
                     written, resumed>>
    BY DEF SetClipboard
<1>3. CShape /\ tasks \in [Side -> SUBSET Task] /\ toClient \in Seq(Message)
    BY DEF CInv, CShape, Task
<1>4. t.new \in Message
    BY <1>3, PlaceFacts
<1>5. t.new.from <= ids /\ (t.new.kind = "files" => Stored(side, t.new.what))
    BY <1>1 DEF CInv, SentInv, StoredInv
<1>6. \A s \in Side : tasks'[s] = IF s = side THEN tasks[s] \ {t} ELSE tasks[s]
    BY <1>1, <1>3
<1>7. tasks' \in [Side -> SUBSET Task]
    BY <1>1, <1>3
<1>8. ASSUME side = "server"
      PROVE  /\ Marked(t.new)
             /\ \A i \in 1 .. Len(toServer) : toServer[i].from # t.new.from
             /\ \A u \in tasks'["server"] : u.new.from > resumed => u.new.from # t.new.from
    <2>1. Marked(t.new)
        BY <1>1, <1>8 DEF CInv, MarkInv
    <2>2. \A i \in 1 .. Len(toServer) : toServer[i].from # t.new.from
        BY <1>8 DEF CInv, NumberInv
    <2>3. \A u \in tasks["server"] : (u.new.from > resumed /\ u.new.from = t.new.from) => u = t
        BY <1>8 DEF CInv, OnceInv
    <2>4. tasks'["server"] = tasks["server"] \ {t}
        BY <1>6, <1>8
    <2> QED BY <2>1, <2>2, <2>3, <2>4
<1>9. \A s \in Side : tasks'[s] \subseteq tasks[s]
    BY <1>6
<1> QED BY <1>1, <1>2, <1>3, <1>4, <1>5, <1>7, <1>8, <1>9, PutOnClipboard

\* The client takes a message.
LEMMA ClientReceivesKeeps ==
    ASSUME CInv, ClientReceives
    PROVE  CInv'
<1> DEFINE m == Head(toClient)
           t == [step |-> "write", new |-> m]
<1>1. /\ CShape /\ tasks \in [Side -> SUBSET Task] /\ toClient \in Seq(Message) /\ toClient # <<>>
      /\ toClient' = Tail(toClient)
    BY DEF CInv, CShape, Task, ClientReceives
<1>2. /\ toClient' \in Seq(Message) /\ m \in Message /\ m = toClient[1] /\ Len(toClient) \in Nat \ {0}
      /\ Len(toClient') = Len(toClient) - 1
      /\ \A i \in 1 .. Len(toClient') : i + 1 \in 1 .. Len(toClient) /\ toClient'[i] = toClient[i + 1]
    BY <1>1, TailIndex
<1>3. UNCHANGED <<pastes_lists, disk, ms, readers, toServer, watchVars, ended, ids, arrived, written, resumed>>
    BY DEF ClientReceives
<1>4. m.from <= ids
    BY <1>2 DEF CInv, SentInv
<1>5. \A i \in 1 .. Len(toClient') : \E j \in 1 .. Len(toClient) : toClient'[i] = toClient[j]
    BY <1>2
<1> HIDE DEF m
<1>6. CASE m.kind = "text"
    <2>1. clip' = [clip EXCEPT !["client"] = m] /\ tasks' = tasks
        BY <1>6 DEF ClientReceives, m
    <2>2. \A s \in Side : tasks'[s] \subseteq tasks[s]
        BY <2>1
    <2>3. m.kind # "files" /\ "client" \in Side
        BY <1>6
    <2> QED BY <1>1, <1>2, <1>3, <1>4, <1>5, <2>1, <2>2, <2>3, PutOnClipboard
<1>7. CASE m.kind # "text"
    <2>1. tasks' = [tasks EXCEPT !["client"] = @ \cup {t}] /\ clip' = clip
        BY <1>7 DEF ClientReceives, m
    <2>2. m \in FilesMessage
        BY <1>2, <1>7, MessageFacts
    <2>3. t \in Task
        BY <2>2 DEF Task
    <2>4. \A s \in Side : tasks'[s] = IF s = "client" THEN tasks[s] \cup {t} ELSE tasks[s]
        BY <1>1, <2>1
    <2>5. t.new = m /\ t.step = "write"
        OBVIOUS
    <2> HIDE DEF t
    <2> USE DEF CInv
    <2>a. CShape'
        BY <1>1, <1>2, <1>3, <2>1, <2>3 DEF CShape, Task
    <2>b. SentInv'
        <3>1. \A s \in Side : clip'[s].from <= ids' /\ \A v \in tasks'[s] : v.new.from <= ids'
            BY <1>3, <1>4, <2>1, <2>4, <2>5 DEF SentInv
        <3>2. \A i \in 1 .. Len(toClient') : toClient'[i].from <= ids'
            BY <1>3, <1>5 DEF SentInv
        <3> QED BY <1>3, <3>1, <3>2 DEF SentInv
    <2>c. SizeInv'
        BY <1>2, <1>3 DEF SizeInv, Within
    <2>d. EndInv'
        BY <1>3, <2>4 DEF EndInv
    <2>e. StoredInv'
        <3>1. \A s \in Side : \A l : Stored(s, l)' = Stored(s, l)
            BY <1>3 DEF Stored
        <3> QED BY <2>1, <2>4, <2>5, <3>1 DEF StoredInv
    <2>f. NumberInv' /\ OnceInv'
        BY <1>3, <2>1, <2>4 DEF NumberInv, OnceInv
    <2>g. MarkInv'
        BY <1>3, <2>1, <2>4 DEF MarkInv, Marked, HashOf
    <2> QED BY <2>a, <2>b, <2>c, <2>d, <2>e, <2>f, <2>g
<1> QED BY <1>6, <1>7

\* The connection is lost and made again.
LEMMA ReconnectKeeps ==
    ASSUME CInv, Reconnect
    PROVE  CInv'
<1> USE DEF CInv, Reconnect, Reattached, Event
<1>1. CShape'
    BY DEF CShape
<1>2. SentInv'
    BY DEF SentInv
<1>3. SizeInv' /\ EndInv'
    BY DEF SizeInv, EndInv
<1>4. StoredInv'
    BY DEF StoredInv, Stored
<1>5. NumberInv'
    BY DEF NumberInv
<1>6. ids \in Nat /\ resumed' = ids /\ tasks' = tasks /\ clip' = clip
      /\ clip["server"].from \in Nat /\ clip["server"].from <= ids
      /\ \A t \in tasks["server"] : t.new.from \in Nat /\ t.new.from <= ids
    <2>1. CShape
        OBVIOUS
    <2>2. clip["server"].from \in Nat /\ \A t \in tasks["server"] : t.new.from \in Nat
        BY <2>1, PlaceFacts
    <2> QED BY <2>2 DEF CShape, SentInv
<1> HIDE DEF CInv, Reconnect, Reattached, Event
<1>7. OnceInv'
    BY <1>6 DEF OnceInv
<1>8. MarkInv'
    BY <1>6 DEF MarkInv, Marked
<1> QED BY <1>1, <1>2, <1>3, <1>4, <1>5, <1>7, <1>8 DEF CInv

\* The session ends.
LEMMA SessionEndsKeeps ==
    ASSUME CInv, SessionEnds
    PROVE  CInv'
<1> USE DEF CInv, SessionEnds, Event
<1>0. disk' = [disk EXCEPT !["server"] = [d \in 1 .. MaxMs |-> [n \in Name |-> Nothing]]]
      /\ disk'["client"] = disk["client"]
    BY DEF CShape
<1>1. CShape'
    <2>1. [d \in 1 .. MaxMs |-> [n \in Name |-> Nothing]] \in [1 .. MaxMs -> [Name -> Data \cup {Nothing}]]
        <3> HIDE DEF CInv, SessionEnds
        <3>1. [n \in Name |-> Nothing] \in [Name -> Data \cup {Nothing}]
            OBVIOUS
        <3> QED BY <3>1
    <2>2. disk' \in [Side -> [1 .. MaxMs -> [Name -> Data \cup {Nothing}]]]
        BY <1>0, <2>1 DEF CShape
    <2>3. ended' \in {"no", "idle", "busy"}
        OBVIOUS
    <2>4. toServer' \in Seq(Message) /\ toClient' \in Seq(Message)
        OBVIOUS
    <2> QED BY <2>2, <2>3, <2>4 DEF CShape
<1>2. SentInv'
    BY DEF SentInv
<1>3. SizeInv'
    BY DEF SizeInv
<1>4. EndInv'
    <2>1. disk'["server"] = [d \in 1 .. MaxMs |-> [n \in Name |-> Nothing]]
        BY <1>0 DEF CShape
    <2> QED BY <2>1 DEF EndInv
<1>5. StoredInv'
    <2>1. \A l : Stored("client", l)' = Stored("client", l)
        BY <1>0 DEF Stored
    <2>2. \A l : Stored("server", l)'
        BY DEF Stored
    <2> QED BY <2>1, <2>2 DEF StoredInv
<1>6. NumberInv'
    BY DEF NumberInv
<1>7. OnceInv'
    BY DEF OnceInv
<1>8. MarkInv'
    BY DEF MarkInv, Marked, HashOf
<1> QED BY <1>1, <1>2, <1>3, <1>4, <1>5, <1>6, <1>7, <1>8

\* The server takes a message: a text is remembered when it arrives.
LEMMA ServerReceivesKeeps ==
    ASSUME CInv, ServerReceives
    PROVE  CInv'
<1>m. PICK m : m = Head(toServer)
    OBVIOUS
<1>t. PICK t : t = [step |-> IF m.kind = "text" THEN "copy" ELSE "write", new |-> m]
    OBVIOUS
<1>1. /\ CShape /\ tasks \in [Side -> SUBSET Task] /\ toServer \in Seq(Message) /\ toServer # <<>>
      /\ toServer' = Tail(toServer) /\ arrived \in [Kind -> SUBSET Nat] /\ resumed \in Nat /\ ids \in Nat
    <2>1. CShape
        BY DEF CInv
    <2>2. tasks \in [Side -> SUBSET Task]
        BY <2>1 DEF CShape, Task
    <2>3. toServer \in Seq(Message) /\ arrived \in [Kind -> SUBSET Nat] /\ resumed \in Nat /\ ids \in Nat
        BY <2>1 DEF CShape
    <2>4. toServer # <<>> /\ toServer' = Tail(toServer)
        BY DEF ServerReceives, Receive
    <2> QED BY <2>1, <2>2, <2>3, <2>4
<1>2. /\ toServer' \in Seq(Message) /\ m \in Message /\ m = toServer[1] /\ Len(toServer) \in Nat \ {0}
      /\ Len(toServer') = Len(toServer) - 1
      /\ \A i \in 1 .. Len(toServer') : i + 1 \in 1 .. Len(toServer) /\ toServer'[i] = toServer[i + 1]
    BY <1>1, <1>m, TailIndex
<1>3. /\ UNCHANGED <<pastes_lists, clip, disk, ms, readers, toClient, client_clip_uri_hash, watch,
                     last_hash, last_uri_hash, ended, ids, written, resumed>>
      /\ tasks' = [tasks EXCEPT !["server"] = @ \cup {t}]
      /\ arrived' = [arrived EXCEPT ![m.kind] = @ \cup {m.from}]
      /\ client_clip_hash' = IF m.kind = "text" THEN Hash(m.what) ELSE client_clip_hash
    BY <1>m, <1>t DEF ServerReceives, Receive
<1>4. m.kind \in Kind /\ m.from \in Nat /\ (m.kind # "text" => m \in FilesMessage /\ m.kind = "files")
    BY <1>2, MessageFacts
<1>5. t \in Task /\ t.new = m /\ (t.step = "copy" => m.kind = "text")
    BY <1>2, <1>4, <1>t DEF Task
<1>6. /\ \A s \in Side : tasks'[s] = IF s = "server" THEN tasks[s] \cup {t} ELSE tasks[s]
      /\ \A k \in Kind : arrived'[k] = IF k = m.kind THEN arrived[k] \cup {m.from} ELSE arrived[k]
      /\ tasks' \in [Side -> SUBSET Task] /\ arrived' \in [Kind -> SUBSET Nat]
    BY <1>1, <1>3, <1>4, <1>5
\* What is received is new, and what is still under way is newer.
<1>7. /\ m.from > resumed /\ m.from <= ids /\ clip["server"].from # m.from
      /\ \A k \in Kind : m.from \notin arrived[k]
      /\ \A u \in tasks["server"] : u.new.from # m.from
    BY <1>2 DEF CInv, NumberInv, SentInv
<1>8. \A i \in 1 .. Len(toServer') : toServer'[i].from # m.from
    <2>1. ASSUME NEW i \in 1 .. Len(toServer') PROVE toServer'[i].from # m.from
        <3>1. i + 1 \in 1 .. Len(toServer) /\ 1 \in 1 .. Len(toServer) /\ 1 < i + 1 /\ toServer'[i] = toServer[i + 1]
            BY <1>2
        <3>2. m.from < toServer[i + 1].from /\ toServer[i + 1] \in Message
            BY <1>1, <1>2, <3>1 DEF CInv, NumberInv
        <3>3. toServer[i + 1].from \in Nat
            BY <3>2, MessageFacts
        <3> QED BY <1>4, <3>1, <3>2, <3>3
    <2> QED BY <2>1
<1>9. m.kind = "text" => m.kind # "files"
    OBVIOUS
<1>a. CShape'
    BY <1>1, <1>2, <1>3, <1>6 DEF CShape, Task
<1>b. SentInv'
    BY <1>2, <1>3, <1>5, <1>6, <1>7 DEF CInv, SentInv
<1>c. SizeInv'
    BY <1>2, <1>3 DEF CInv, SizeInv, Within
<1>d. EndInv'
    BY <1>1, <1>3 DEF CInv, EndInv
<1>e. StoredInv'
    <2>1. \A s \in Side : \A l : Stored(s, l)' = Stored(s, l)
        BY <1>3 DEF Stored
    <2> QED BY <1>3, <1>5, <1>6, <1>9, <2>1 DEF CInv, StoredInv
<1>f. NumberInv'
    <2>1. ASSUME NEW i \in 1 .. Len(toServer')
          PROVE  /\ toServer'[i].from > resumed
                 /\ \A j \in 1 .. Len(toServer') : j < i => toServer'[j].from < toServer'[i].from
                 /\ \A k \in Kind : toServer'[i].from \notin arrived'[k]
                 /\ clip["server"].from # toServer'[i].from
                 /\ \A u \in tasks'["server"] : u.new.from # toServer'[i].from
        <3>1. i + 1 \in 1 .. Len(toServer) /\ toServer'[i] = toServer[i + 1]
            BY <1>2
        <3>2. /\ toServer[i + 1].from > resumed
              /\ \A j \in 1 .. Len(toServer) : j < i + 1 => toServer[j].from < toServer[i + 1].from
              /\ \A k \in Kind : toServer[i + 1].from \notin arrived[k]
              /\ clip["server"].from # toServer[i + 1].from
              /\ \A u \in tasks["server"] : u.new.from # toServer[i + 1].from
            BY <3>1 DEF CInv, NumberInv
        <3>3. ASSUME NEW j \in 1 .. Len(toServer'), j < i PROVE toServer'[j].from < toServer'[i].from
            <4>1. j + 1 \in 1 .. Len(toServer) /\ toServer'[j] = toServer[j + 1] /\ j + 1 < i + 1
                BY <1>2, <3>3
            <4>2. toServer[j + 1].from < toServer[i + 1].from
                BY <3>2, <4>1
            <4> QED BY <3>1, <4>1, <4>2
        <3>4. toServer'[i].from # m.from
            BY <1>8
        <3>5. \A k \in Kind : toServer'[i].from \notin arrived'[k]
            BY <1>6, <3>1, <3>2, <3>4
        <3>6. \A u \in tasks'["server"] : u.new.from # toServer'[i].from
            BY <1>5, <1>6, <3>1, <3>2, <3>4
        <3> QED BY <3>1, <3>2, <3>3, <3>5, <3>6
    <2> QED BY <1>3, <2>1 DEF NumberInv
<1>g. OnceInv'
    <2>1. \A k \in Kind : arrived[k] \subseteq arrived'[k]
        BY <1>6
    <2>2. m.from \in arrived'[m.kind]
        BY <1>4, <1>6
    <2>3. \A u \in tasks["server"] : u.new.kind \in Kind
        BY <1>1, PlaceFacts
    <2>4. tasks'["server"] = tasks["server"] \cup {t} /\ clip'["server"] = clip["server"] /\ resumed' = resumed
        BY <1>3, <1>6
    <2>5. ASSUME NEW u \in tasks'["server"], u.new.from > resumed
          PROVE  /\ u.new.from \in arrived'[u.new.kind] /\ clip["server"].from # u.new.from
                 /\ \A v \in tasks'["server"] : v.new.from = u.new.from => v = u
        <3>1. CASE u = t
            BY <1>5, <1>7, <2>2, <2>4, <3>1
        <3>2. CASE u \in tasks["server"]
            BY <1>5, <1>7, <2>1, <2>3, <2>4, <2>5, <3>2 DEF CInv, OnceInv
        <3> QED BY <2>4, <3>1, <3>2
    <2> QED BY <2>4, <2>5 DEF OnceInv
<1>h. MarkInv'
    <2>1. ASSUME NEW x \in Message, Marked(x), x.from # m.from PROVE Marked(x)'
        <3>1. x.kind \in Kind
            BY MessageFacts
        <3>2. CASE x.kind = m.kind
            BY <1>3, <1>6, <2>1, <3>1, <3>2 DEF Marked
        <3>3. CASE x.kind # m.kind
            <4>1. arrived'[x.kind] = arrived[x.kind]
                BY <1>6, <3>1, <3>3
            <4>2. x.kind = "text" => m.kind # "text"
                BY <3>3
            <4> QED BY <1>3, <2>1, <4>1, <4>2 DEF Marked, HashOf
        <3> QED BY <3>2, <3>3
    <2>2. t.step = "copy" => Marked(t.new)'
        BY <1>3, <1>4, <1>5, <1>6 DEF Marked, HashOf
    <2>3. Marked(clip["server"])'
        <3>1. clip["server"] \in Message \cup {Empty} /\ clip["server"].from # m.from
            BY <1>1, <1>7, PlaceFacts
        <3>2. CASE clip["server"] \in Message
            <4>1. Marked(clip["server"])
                BY DEF CInv, MarkInv
            <4> DEFINE x == clip["server"]
            <4>2. x \in Message /\ Marked(x) /\ x.from # m.from /\ x' = x
                BY <1>3, <3>1, <3>2, <4>1
            <4> QED BY <1>3, <2>1, <3>1, <3>2, <4>1
        <3>3. CASE clip["server"] = Empty
            <4>1. clip'["server"].from = 0 /\ resumed' \in Nat
                BY <1>1, <1>3, <3>3, MessageFacts
            <4> QED BY <4>1 DEF Marked
        <3> QED BY <3>1, <3>2, <3>3
    <2>4. ASSUME NEW u \in tasks["server"], u.step = "copy" PROVE Marked(u.new)'
        <3>1. u.new \in Message /\ u.new.from # m.from
            BY <1>1, <1>7, PlaceFacts
        <3>2. Marked(u.new)
            BY <2>4 DEF CInv, MarkInv
        <3> QED BY <2>1, <3>1, <3>2
    <2> QED BY <1>6, <2>2, <2>3, <2>4 DEF MarkInv
<1> QED BY <1>a, <1>b, <1>c, <1>d, <1>e, <1>f, <1>g, <1>h DEF CInv

\* A nonempty set of indexes has a largest one.
LEMMA LargestIndex ==
    ASSUME NEW n \in Nat, NEW I \in SUBSET (1 .. n), I # {}
    PROVE  Max(I) \in I /\ \A i \in I : i <= Max(I)
<1> DEFINE S == {m \in Nat : \A J \in SUBSET (1 .. m) : J # {} => \E x \in J : \A y \in J : x >= y}
<1>1. 0 \in S
    <2>1. \A x : x \notin 1 .. 0
        OBVIOUS
    <2>2. \A J \in SUBSET (1 .. 0) : J = {}
        BY <2>1
    <2> QED BY <2>2
<1>2. ASSUME NEW m \in S PROVE m + 1 \in S
    <2>0. m \in Nat /\ \A J \in SUBSET (1 .. m) : J # {} => \E x \in J : \A y \in J : x >= y
        OBVIOUS
    <2>1. ASSUME NEW J \in SUBSET (1 .. m + 1), J # {} PROVE \E x \in J : \A y \in J : x >= y
        <3>1. CASE m + 1 \in J
            <4>1. \A y \in J : m + 1 >= y
                BY <2>0
            <4> QED BY <3>1, <4>1
        <3>2. CASE m + 1 \notin J
            <4>1. J \in SUBSET (1 .. m)
                BY <2>0, <3>2
            <4> QED BY <2>0, <2>1, <4>1
        <3> QED BY <3>1, <3>2
    <2> QED BY <2>0, <2>1
<1> HIDE DEF S
<1>3. n \in S
    <2>1. \A m \in Nat : m \in S
        BY <1>1, <1>2, Induction DEF S
    <2> QED BY <2>1
<1>4. \E x \in I : \A y \in I : x >= y
    BY <1>3 DEF S
<1>5. Max(I) \in I /\ \A y \in I : Max(I) >= y
    BY <1>4 DEF Max
<1>6. \A i \in I : i \in Int
    OBVIOUS
<1> QED BY <1>5, <1>6

\* A thread writes the files it was given, and the server remembers their list.
LEMMA WriteFilesKeeps ==
    ASSUME CInv, NEW side \in Side, WriteFiles(side)
    PROVE  CInv'
<1>0. CShape /\ MaxMs \in Nat /\ resumed \in Nat /\ tasks \in [Side -> SUBSET Task]
    BY DEF CInv, CShape, Task
<1>1. PICK t \in tasks[side] :
        LET files == t.new.what.files
            kept == Only(files, {i \in DOMAIN files : SafeName(files[i].name)})
            rejected == Bytes(files) > MAX_FILE_TRANSFER_BYTES \/ kept = <<>>
            list == [dir |-> ms'[side], files |-> kept]
        IN  /\ t.step = "write"
            /\ \E now \in ms[side] .. Min({ms[side] + 1, MaxMs}) : ms' = [ms EXCEPT ![side] = now]
            /\ tasks' = [tasks EXCEPT ![side] = (@ \ {t}) \cup
                 IF rejected THEN {} ELSE {[step |-> "copy", new |-> [t.new EXCEPT !.what = list]]}]
            /\ disk' = [disk EXCEPT ![side][ms'[side]] = IF rejected THEN @ ELSE Overwritten(@, kept)]
            /\ client_clip_uri_hash' = IF side = "server" /\ ~rejected /\ t.new.from > resumed
                                         THEN Hash(list) ELSE client_clip_uri_hash
            /\ written' = [written EXCEPT ![side][ms'[side]] = @ + 1]
    BY DEF WriteFiles, TransferDir
<1>dd. PICK dir : dir = ms'[side]
    OBVIOUS
<1>ff. PICK files : files = t.new.what.files
    OBVIOUS
<1>k. PICK kept : kept = Only(files, {i \in DOMAIN files : SafeName(files[i].name)})
    OBVIOUS
<1>l. PICK list : list = [dir |-> dir, files |-> kept]
    OBVIOUS
<1>r. PICK rejected \in BOOLEAN : rejected = (Bytes(files) > MAX_FILE_TRANSFER_BYTES \/ kept = <<>>)
    OBVIOUS
<1>u. PICK u : u = [step |-> "copy", new |-> [t.new EXCEPT !.what = list]]
    OBVIOUS
<1>2. UNCHANGED <<pastes_lists, clip, readers, toServer, toClient, client_clip_hash, watch, last_hash, last_uri_hash,
                  ended, ids, arrived, resumed>>
    BY DEF WriteFiles
<1>3. /\ t.step = "write"
      /\ \E now \in ms[side] .. Min({ms[side] + 1, MaxMs}) : ms' = [ms EXCEPT ![side] = now]
      /\ tasks' = [tasks EXCEPT ![side] = (@ \ {t}) \cup IF rejected THEN {} ELSE {u}]
      /\ disk' = [disk EXCEPT ![side][dir] = IF rejected THEN @ ELSE Overwritten(@, kept)]
      /\ client_clip_uri_hash' = IF side = "server" /\ ~rejected /\ t.new.from > resumed
                                   THEN Hash(list) ELSE client_clip_uri_hash
      /\ written' = [written EXCEPT ![side][dir] = @ + 1]
    <2>1. /\ t.step = "write"
          /\ \E now \in ms[side] .. Min({ms[side] + 1, MaxMs}) : ms' = [ms EXCEPT ![side] = now]
        BY <1>1
    <2>2. written' = [written EXCEPT ![side][dir] = @ + 1]
        BY <1>1, <1>dd
    <2>3. list = [dir |-> ms'[side], files |-> Only(t.new.what.files, {i \in DOMAIN t.new.what.files : SafeName(t.new.what.files[i].name)})]
        BY <1>dd, <1>ff, <1>k, <1>l
    <2>4. rejected = (Bytes(t.new.what.files) > MAX_FILE_TRANSFER_BYTES \/ Only(t.new.what.files, {i \in DOMAIN t.new.what.files : SafeName(t.new.what.files[i].name)}) = <<>>)
        BY <1>ff, <1>k, <1>r
    <2>5. client_clip_uri_hash' = IF side = "server" /\ ~rejected /\ t.new.from > resumed
                                   THEN Hash(list) ELSE client_clip_uri_hash
        BY <1>1, <2>3, <2>4
    <2>6. tasks' = [tasks EXCEPT ![side] = (@ \ {t}) \cup IF rejected THEN {} ELSE {u}]
        BY <1>1, <1>u, <2>3, <2>4
    <2>7. disk' = [disk EXCEPT ![side][dir] = IF rejected THEN @ ELSE Overwritten(@, kept)]
        BY <1>1, <1>dd, <1>ff, <1>k, <2>4
    <2> QED BY <2>1, <2>2, <2>5, <2>6, <2>7
\* What is written, and where.
<1>4. ms' \in [Side -> 1 .. MaxMs] /\ dir \in 1 .. MaxMs
    <2>1. ms \in [Side -> 1 .. MaxMs]
        BY <1>0 DEF CShape
    <2>2. Min({ms[side] + 1, MaxMs}) \in {ms[side] + 1, MaxMs} /\ Min({ms[side] + 1, MaxMs}) <= MaxMs
        <3>1. ms[side] \in Int /\ ms[side] + 1 \in Int /\ MaxMs \in Int
            BY <1>0, <2>1
        <3>2. \E x \in {ms[side] + 1, MaxMs} : \A y \in {ms[side] + 1, MaxMs} : x <= y
            BY <3>1
        <3>3. /\ Min({ms[side] + 1, MaxMs}) \in {ms[side] + 1, MaxMs}
              /\ \A y \in {ms[side] + 1, MaxMs} : Min({ms[side] + 1, MaxMs}) <= y
            BY <3>2 DEF Min
        <3> QED BY <3>3
    <2>3. PICK now \in ms[side] .. Min({ms[side] + 1, MaxMs}) : ms' = [ms EXCEPT ![side] = now]
        BY <1>3
    <2>4. now \in 1 .. MaxMs
        BY <1>0, <2>1, <2>2, <2>3
    <2> QED BY <1>dd, <2>1, <2>3, <2>4
<1>5. /\ t.new \in FilesMessage /\ t.new \in Message /\ t.new.what \in Listing /\ t.new.kind = "files"
      /\ t.new.from \in Nat
    <2>1. t.new \in FilesMessage
        BY <1>0, <1>3, PlaceFacts
    <2> QED BY <2>1, MessageFacts
<1>6. kept \in Seq({f \in File : f.name \in Name})
    <2>1. files \in Seq(File)
        BY <1>5, <1>ff DEF Listing
    <2>a. \A i \in 1 .. Len(files) : files[i] \in File
        BY <2>1
    <2>b. \A f \in File : f.name \in Name
        BY DEF File
    <2>2. \A i \in 1 .. Len(files) : files[i] \in File /\ files[i].name \in Name
        BY <2>a, <2>b
    <2>3. DOMAIN files = 1 .. Len(files) /\ Len(files) \in Nat
        BY <2>1
    <2> QED BY <1>k, <2>2, <2>3, OnlyIn
<1>7. /\ Len(kept) \in Nat /\ DOMAIN kept = 1 .. Len(kept) /\ kept \in Seq(File)
      /\ \A i \in 1 .. Len(kept) : kept[i] \in File /\ kept[i].name \in Name /\ kept[i].data \in Data \cup {Nothing}
    <2>1. {f \in File : f.name \in Name} \subseteq File
        OBVIOUS
    <2>2. kept \in Seq(File)
        BY <1>6, <2>1
    <2>3. Len(kept) \in Nat /\ DOMAIN kept = 1 .. Len(kept) /\ \A i \in 1 .. Len(kept) : kept[i] \in File
        BY <2>2
    <2>4. \A f \in File : f.name \in Name /\ f.data \in Data \cup {Nothing}
        BY DEF File
    <2> QED BY <2>2, <2>3, <2>4
<1>8. list \in Listing /\ list.dir = dir /\ list.files = kept /\ list.dir # 0
    BY <1>0, <1>4, <1>7, <1>l DEF Listing
<1>9. u \in Task /\ u.step = "copy" /\ u.new.kind = "files" /\ u.new.from = t.new.from /\ u.new.what = list
      /\ u.new \in Message
    <2>1. /\ u.new = [t.new EXCEPT !.what = list] /\ u.step = "copy"
        BY <1>u
    <2>2. /\ [t.new EXCEPT !.what = list] \in FilesMessage /\ [t.new EXCEPT !.what = list].from = t.new.from
          /\ [t.new EXCEPT !.what = list].what = list
        BY <1>5, <1>8 DEF FilesMessage
    <2>3. u.new \in Message /\ u.new.kind = "files"
        <3>1. u.new \in FilesMessage
            BY <2>1, <2>2
        <3> QED BY <3>1, MessageFacts
    <2> QED BY <1>u, <2>1, <2>2, <2>3 DEF Task
<1>10. /\ \A s \in Side : tasks'[s] = IF s = side THEN (tasks[s] \ {t}) \cup IF rejected THEN {} ELSE {u} ELSE tasks[s]
       /\ tasks' \in [Side -> SUBSET Task]
    BY <1>0, <1>3, <1>9
<1>11. PICK mine \in [Name -> Data \cup {Nothing}] :
          /\ disk' = [disk EXCEPT ![side][dir] = mine]
          /\ ~rejected /\ Distinct(kept) => \A i \in 1 .. Len(kept) : mine[kept[i].name] = kept[i].data
    <2> DEFINE Named(n) == {i \in DOMAIN kept : kept[i].name = n}
               mine == IF rejected THEN disk[side][dir] ELSE Overwritten(disk[side][dir], kept)
    <2>1. disk \in [Side -> [1 .. MaxMs -> [Name -> Data \cup {Nothing}]]]
        BY <1>0 DEF CShape
    <2>2. ASSUME NEW n \in Name, Named(n) # {} PROVE Max(Named(n)) \in Named(n)
        <3>1. Named(n) \in SUBSET (1 .. Len(kept))
            BY <1>7
        <3> HIDE DEF Named
        <3> QED BY <1>7, <2>2, <3>1, LargestIndex
    <2>3. mine \in [Name -> Data \cup {Nothing}]
        <3>1. disk[side] \in [1 .. MaxMs -> [Name -> Data \cup {Nothing}]]
            BY <2>1
        <3>2. disk[side][dir] \in [Name -> Data \cup {Nothing}]
            BY <1>4, <3>1
        <3>3. \A n \in Name : disk[side][dir][n] \in Data \cup {Nothing}
            BY <3>2
        <3>4. \A n \in Name : Named(n) # {} => kept[Max(Named(n))].data \in Data \cup {Nothing}
            <4>1. \A n \in Name : Named(n) # {} => Max(Named(n)) \in 1 .. Len(kept)
                BY <1>7, <2>2
            <4> HIDE DEF Named
            <4> QED BY <1>7, <4>1
        <3>5. Overwritten(disk[side][dir], kept) \in [Name -> Data \cup {Nothing}]
            BY <3>3, <3>4 DEF Overwritten
        <3> QED BY <3>2, <3>5
    <2>4. disk' = [disk EXCEPT ![side][dir] = mine]
        BY <1>3, <1>4, <2>1
    <2>5. ASSUME ~rejected, Distinct(kept), NEW i \in 1 .. Len(kept) PROVE mine[kept[i].name] = kept[i].data
        <3>1. i \in Named(kept[i].name) /\ kept[i].name \in Name
            BY <1>7
        <3>2. Named(kept[i].name) = {i}
            BY <1>7, <2>5, <3>1 DEF Distinct
        <3>3. Max(Named(kept[i].name)) = i
            BY <2>2, <3>1, <3>2
        <3>4. mine[kept[i].name] = kept[Max(Named(kept[i].name))].data
            BY <2>5, <3>1 DEF Overwritten
        <3> QED BY <3>3, <3>4
    <2> HIDE DEF mine
    <2> QED BY <2>3, <2>4, <2>5
<1>12. /\ \A s \in Side : \A d \in 1 .. MaxMs : disk'[s][d] = IF s = side /\ d = dir THEN mine ELSE disk[s][d]
       /\ \A s \in Side : \A d \in 1 .. MaxMs : written'[s][d] = IF s = side /\ d = dir THEN written[s][d] + 1 ELSE written[s][d]
       /\ disk' \in [Side -> [1 .. MaxMs -> [Name -> Data \cup {Nothing}]]]
       /\ written' \in [Side -> [1 .. MaxMs -> Nat]] /\ written \in [Side -> [1 .. MaxMs -> Nat]]
       /\ \A s \in Side : s # side => disk'[s] = disk[s]
    <2>1. disk \in [Side -> [1 .. MaxMs -> [Name -> Data \cup {Nothing}]]] /\ written \in [Side -> [1 .. MaxMs -> Nat]]
        BY <1>0 DEF CShape
    <2>2. PICK row : row = [disk[side] EXCEPT ![dir] = mine]
        OBVIOUS
    <2>3. disk' = [disk EXCEPT ![side] = row]
        BY <1>11, <2>1, <2>2
    <2>4. disk[side] \in [1 .. MaxMs -> [Name -> Data \cup {Nothing}]]
        BY <2>1
    <2>5. /\ row \in [1 .. MaxMs -> [Name -> Data \cup {Nothing}]]
          /\ \A d \in 1 .. MaxMs : row[d] = IF d = dir THEN mine ELSE disk[side][d]
        BY <1>4, <1>11, <2>2, <2>4
    <2>6. /\ disk' \in [Side -> [1 .. MaxMs -> [Name -> Data \cup {Nothing}]]]
          /\ disk'[side] = row /\ \A s \in Side : s # side => disk'[s] = disk[s]
        BY <2>1, <2>3, <2>5
    <2>7. PICK line : line = [written[side] EXCEPT ![dir] = written[side][dir] + 1]
        OBVIOUS
    <2>8. written' = [written EXCEPT ![side] = line]
        BY <1>3, <2>1, <2>7
    <2>9. written[side] \in [1 .. MaxMs -> Nat]
        BY <2>1
    <2>a. /\ line \in [1 .. MaxMs -> Nat]
          /\ \A d \in 1 .. MaxMs : line[d] = IF d = dir THEN written[side][d] + 1 ELSE written[side][d]
        <3>1. written[side][dir] + 1 \in Nat
            BY <1>4, <2>9
        <3>2. PICK more : more = written[side][dir] + 1
            OBVIOUS
        <3>3. PICK was : was = written[side]
            OBVIOUS
        <3>4. was \in [1 .. MaxMs -> Nat] /\ more \in Nat /\ line = [was EXCEPT ![dir] = more]
            BY <2>7, <2>9, <3>1, <3>2, <3>3
        <3>5. /\ line \in [1 .. MaxMs -> Nat]
              /\ \A d \in 1 .. MaxMs : line[d] = IF d = dir THEN more ELSE was[d]
            BY <1>4, <3>4
        <3> QED BY <3>2, <3>3, <3>5
    <2>b. /\ written' \in [Side -> [1 .. MaxMs -> Nat]]
          /\ written'[side] = line /\ \A s \in Side : s # side => written'[s] = written[s]
        BY <2>1, <2>8, <2>a
    <2>c. \A s \in Side : \A d \in 1 .. MaxMs : disk'[s][d] = IF s = side /\ d = dir THEN mine ELSE disk[s][d]
        BY <2>5, <2>6
    <2>d. \A s \in Side : \A d \in 1 .. MaxMs :
             written'[s][d] = IF s = side /\ d = dir THEN written[s][d] + 1 ELSE written[s][d]
        BY <2>a, <2>b
    <2> QED BY <2>1, <2>6, <2>b, <2>c, <2>d
\* What is sent is nothing here, what is received is one content in one place.
<1>13. /\ tasks'[side] \subseteq (tasks[side] \ {t}) \cup {u} /\ (rejected => tasks'[side] \subseteq tasks[side] \ {t})
       /\ \A s \in Side : s # side => tasks'[s] = tasks[s]
       /\ \A s \in Side : \A v \in tasks'[s] : v \in tasks[s] \/ (s = side /\ v = u /\ ~rejected)
    BY <1>10
<1>14. side = "server" => ended # "idle"
    BY DEF CInv, EndInv
<1>a. CShape'
    BY <1>0, <1>2, <1>4, <1>10, <1>12, <1>3 DEF CShape, Task
<1>b. SentInv'
    <2>1. t.new.from <= ids
        BY DEF CInv, SentInv
    <2> QED BY <1>2, <1>9, <1>13, <2>1 DEF CInv, SentInv
<1>c. SizeInv'
    BY <1>2 DEF CInv, SizeInv, Within
<1>d. EndInv'
    BY <1>2, <1>12, <1>13, <1>14 DEF CInv, EndInv
<1>e. StoredInv'
    <2>1. ASSUME NEW s \in Side, NEW old \in Listing, Stored(s, old) PROVE Stored(s, old)'
        <3> SUFFICES ASSUME old.dir # 0, s = "server" => ended = "no" PROVE
                /\ written'[s][old.dir] > 0
                /\ (written'[s][old.dir] = 1 /\ Distinct(old.files)) =>
                      \A i \in DOMAIN old.files : disk'[s][old.dir][old.files[i].name] = old.files[i].data
            BY <1>2 DEF Stored
        <3>1. old.dir \in 1 .. MaxMs
            BY <1>0 DEF Listing
        <3>2. /\ written[s][old.dir] > 0
              /\ (written[s][old.dir] = 1 /\ Distinct(old.files)) =>
                    \A i \in DOMAIN old.files : disk[s][old.dir][old.files[i].name] = old.files[i].data
            BY <2>1 DEF Stored
        <3>3. written[s][old.dir] \in Nat
            BY <1>12, <3>1
        <3>4. CASE s = side /\ old.dir = dir
            BY <1>12, <3>1, <3>2, <3>3, <3>4
        <3>5. CASE ~(s = side /\ old.dir = dir)
            <4>1. disk'[s][old.dir] = disk[s][old.dir] /\ written'[s][old.dir] = written[s][old.dir]
                BY <1>12, <3>1, <3>5
            <4> QED BY <3>2, <4>1
        <3> QED BY <3>4, <3>5
    <2>2. ~rejected => Stored(side, u.new.what)'
        <3> SUFFICES ASSUME ~rejected PROVE
                /\ written'[side][dir] > 0
                /\ Distinct(kept) => \A i \in DOMAIN kept : disk'[side][dir][kept[i].name] = kept[i].data
            BY <1>8, <1>9 DEF Stored
        <3>1. written[side][dir] \in Nat /\ written'[side][dir] = written[side][dir] + 1
            BY <1>4, <1>12
        <3>2. disk'[side][dir] = mine
            BY <1>4, <1>12
        <3> QED BY <1>7, <1>11, <3>1, <3>2
    <2>3. ASSUME NEW s \in Side, clip[s].kind = "files" PROVE Stored(s, clip[s].what)'
        <3>1. Stored(s, clip[s].what)
            BY <2>3 DEF CInv, StoredInv
        <3>2. clip[s].what \in Listing
            BY <1>0, <2>3, PlaceFacts, MessageFacts
        <3>3. PICK old : old = clip[s].what
            OBVIOUS
        <3>4. Stored(s, old)'
            BY <2>1, <3>1, <3>2, <3>3
        <3> QED BY <1>2, <3>3, <3>4
    <2>4. ASSUME NEW s \in Side, NEW v \in tasks[s], v.step = "copy", v.new.kind = "files" PROVE Stored(s, v.new.what)'
        <3>1. Stored(s, v.new.what)
            BY <2>4 DEF CInv, StoredInv
        <3>2. v.new.what \in Listing
            BY <1>0, <2>4, PlaceFacts, MessageFacts
        <3> QED BY <2>1, <3>1, <3>2
    <2> QED BY <1>2, <1>13, <2>2, <2>3, <2>4 DEF StoredInv
<1>f. NumberInv'
    <2>1. \A i \in 1 .. Len(toServer) : \A v \in tasks'["server"] : v.new.from # toServer[i].from
        BY <1>9, <1>13 DEF CInv, NumberInv
    <2> QED BY <1>2, <2>1 DEF CInv, NumberInv
<1>g. OnceInv'
    <2>1. ASSUME NEW v \in tasks'["server"], v.new.from > resumed
          PROVE  /\ v.new.from \in arrived[v.new.kind] /\ clip["server"].from # v.new.from
                 /\ \A w \in tasks'["server"] : w.new.from = v.new.from => w = v
        <3>1. CASE side # "server"
            BY <1>13, <2>1, <3>1 DEF CInv, OnceInv
        <3>2. CASE side = "server" /\ v = u
            <4>1. /\ t.new.from \in arrived[t.new.kind] /\ clip["server"].from # t.new.from
                  /\ \A w \in tasks["server"] : w.new.from = t.new.from => w = t
                BY <1>9, <2>1, <3>2 DEF CInv, OnceInv
            <4> QED BY <1>5, <1>9, <1>13, <3>2, <4>1
        <3>3. CASE side = "server" /\ v # u
            <4>1. v \in tasks["server"] /\ v # t
                BY <1>13, <2>1, <3>3
            <4>2. /\ v.new.from \in arrived[v.new.kind] /\ clip["server"].from # v.new.from
                  /\ \A w \in tasks["server"] : w.new.from = v.new.from => w = v
                BY <2>1, <4>1 DEF CInv, OnceInv
            <4>3. u.new.from # v.new.from
                BY <1>9, <3>3, <4>1, <4>2
            <4> QED BY <1>13, <3>3, <4>2, <4>3
        <3> QED BY <3>1, <3>2, <3>3
    <2> QED BY <1>2, <2>1 DEF OnceInv
<1>h. MarkInv'
    <2>1. ASSUME NEW x \in Message, Marked(x), side = "server" => x.from # t.new.from,
                 (side = "server" /\ t.new.from > resumed) => t.new.from \in arrived["files"]
          PROVE  Marked(x)'
        <3>1. CASE client_clip_uri_hash' = client_clip_uri_hash
            BY <1>2, <2>1, <3>1 DEF Marked, HashOf
        <3>2. CASE side = "server" /\ t.new.from > resumed
            <4>1. x.kind \in Kind /\ t.new.from \in arrived["files"] /\ x.from # t.new.from
                BY <2>1, <3>2, MessageFacts
            <4>2. CASE x.kind = "files"
                BY <1>2, <2>1, <4>1, <4>2 DEF Marked
            <4>3. CASE x.kind = "text"
                BY <1>2, <2>1, <4>3 DEF Marked, HashOf
            <4> QED BY <4>1, <4>2, <4>3
        <3> QED BY <1>3, <3>1, <3>2
    <2>2. ASSUME side = "server", t.new.from > resumed
          PROVE  /\ t.new.from \in arrived["files"] /\ clip["server"].from # t.new.from
                 /\ \A w \in tasks["server"] : w.new.from = t.new.from => w = t
        BY <1>5, <2>2 DEF CInv, OnceInv
    <2>3. ASSUME side = "server", ~rejected PROVE Marked(u.new)'
        <3> SUFFICES ASSUME u.new.from > resumed
                     PROVE  /\ u.new.from \in arrived["files"]
                            /\ client_clip_uri_hash' = Hash(u.new.what)
            BY <1>2, <1>9 DEF Marked, HashOf
        <3> QED BY <1>3, <1>9, <2>2, <2>3
    <2>4. ASSUME NEW x \in Message, Marked(x), (side = "server" /\ t.new.from > resumed) => x.from # t.new.from
          PROVE  Marked(x)'
        <3>1. CASE side = "server" => t.new.from > resumed
            BY <2>1, <2>2, <2>4, <3>1
        <3>2. CASE client_clip_uri_hash' = client_clip_uri_hash
            BY <1>2, <2>4, <3>2 DEF Marked, HashOf
        <3> QED BY <1>3, <3>1, <3>2
    <2>5. Marked(clip["server"])'
        <3>1. clip["server"] \in Message \cup {Empty}
            BY <1>0, PlaceFacts
        <3>2. CASE clip["server"] \in Message
            <4>1. Marked(clip["server"])
                BY DEF CInv, MarkInv
            <4>2. PICK x : x = clip["server"]
                OBVIOUS
            <4>3. Marked(x)'
                BY <2>2, <2>4, <3>2, <4>1, <4>2
            <4> QED BY <1>2, <4>2, <4>3
        <3>3. CASE clip["server"] = Empty
            <4>1. clip'["server"].from = 0 /\ resumed' \in Nat
                BY <1>0, <1>2, <3>3, MessageFacts
            <4> QED BY <4>1 DEF Marked
        <3> QED BY <3>1, <3>2, <3>3
    <2>6. ASSUME NEW v \in tasks["server"], v.step = "copy" PROVE Marked(v.new)'
        <3>1. v.new \in Message /\ Marked(v.new)
            BY <1>0, <2>6, PlaceFacts DEF CInv, MarkInv
        <3>2. v # t
            BY <1>3, <2>6
        <3>3. (side = "server" /\ t.new.from > resumed) => v.new.from # t.new.from
            BY <2>2, <3>2
        <3> QED BY <2>4, <3>1, <3>3
    <2> QED BY <1>2, <1>13, <2>3, <2>5, <2>6 DEF MarkInv
<1> QED BY <1>a, <1>b, <1>c, <1>d, <1>e, <1>f, <1>g, <1>h DEF CInv

\* The clipboards before anything happens.
LEMMA ClipboardInitInv == ASSUME ClipboardInit PROVE CInv
<1> USE DEF ClipboardInit
<1>1. /\ Empty.from = 0 /\ Empty.kind = "none" /\ \A s \in Side : clip[s] = Empty
      /\ \A s \in Side : tasks[s] = {}
      /\ toServer = <<>> /\ toClient = <<>> /\ Len(toServer) = 0 /\ Len(toClient) = 0
      /\ resumed = 0 /\ ids = 0 /\ \A k \in Kind : arrived[k] = {}
    BY MessageFacts
<1>2. CShape
    <2>1. clip \in [Side -> Message \cup {Empty}]
        OBVIOUS
    <2>2. disk \in [Side -> [1 .. MaxMs -> [Name -> Data \cup {Nothing}]]]
        <3>1. [n \in Name |-> Nothing] \in [Name -> Data \cup {Nothing}]
            OBVIOUS
        <3>2. [d \in 1 .. MaxMs |-> [n \in Name |-> Nothing]] \in [1 .. MaxMs -> [Name -> Data \cup {Nothing}]]
            BY <3>1
        <3> QED BY <3>2
    <2>3. written \in [Side -> [1 .. MaxMs -> Nat]]
        <3>1. [d \in 1 .. MaxMs |-> 0] \in [1 .. MaxMs -> Nat]
            OBVIOUS
        <3> QED BY <3>1
    <2>4. tasks \in [Side -> SUBSET ([step : {"copy"}, new : Message] \cup [step : {"write"}, new : FilesMessage])]
        OBVIOUS
    <2>5. /\ ms \in [Side -> 1 .. MaxMs] /\ arrived \in [Kind -> SUBSET Nat]
          /\ toServer \in Seq(Message) /\ toClient \in Seq(Message)
        OBVIOUS
    <2>6. watch \in {"text", "files"} /\ ended \in {"no", "idle", "busy"} /\ pastes_lists \in BOOLEAN
          /\ readers \in Nat /\ ids \in Nat /\ resumed \in 0 .. ids
        OBVIOUS
    <2> QED BY <2>1, <2>2, <2>3, <2>4, <2>5, <2>6 DEF CShape
<1>3. SentInv
    BY <1>1 DEF SentInv
<1>4. SizeInv
    BY <1>1 DEF SizeInv
<1>5. EndInv
    BY DEF EndInv
<1>6. StoredInv
    BY <1>1 DEF StoredInv
<1>7. NumberInv
    BY <1>1 DEF NumberInv
<1>8. OnceInv
    BY <1>1 DEF OnceInv
<1>9. MarkInv
    BY <1>1 DEF MarkInv, Marked
<1> QED BY <1>2, <1>3, <1>4, <1>5, <1>6, <1>7, <1>8, <1>9 DEF CInv

\* Every step keeps the invariant.
LEMMA ClipboardNextKeeps == ASSUME CInv, [ClipboardNext]_clipboardVars PROVE CInv'
<1>1. CASE UNCHANGED clipboardVars
    <2>1. UNCHANGED <<pastes_lists, clip, disk, ms, readers, toServer, toClient, tasks, client_clip_hash,
                      client_clip_uri_hash, watch, ended, ids, arrived, written, resumed>>
        BY <1>1 DEF clipboardVars
    <2>2. watch \in {"text", "files"} /\ readers \in Nat /\ ids \in Nat
        BY DEF CInv, CShape
    <2> QED BY <2>1, <2>2, NothingSent
<1>2. CASE UserActs
    BY <1>2, UserCopiesKeeps, FocusedKeeps, ReconnectKeeps, SessionEndsKeeps DEF UserActs
<1>3. CASE Delivery
    BY <1>3, SendFilesKeeps, ClientReceivesKeeps, ServerReceivesKeeps, WriteFilesKeeps, SetClipboardKeeps DEF Delivery
<1>4. CASE Watch
    BY <1>4, PollTextKeeps, PollFilesKeeps DEF Watch
<1> QED BY <1>1, <1>2, <1>3, <1>4 DEF ClipboardNext

\* In every state the clipboard reaches, what is on its way, in a thread or on a
\* clipboard has a number, a size, a directory and a remembered hash that fit
\* each other: what the two theorems below rest on.
THEOREM ClipboardInvariance == ClipboardSpec => []CInv
<1>1. ClipboardInit => CInv
    BY ClipboardInitInv
<1>2. CInv /\ [ClipboardNext]_clipboardVars => CInv'
    BY ClipboardNextKeeps
<1> QED BY <1>1, <1>2, PTL DEF ClipboardSpec

\* What the invariant says of sizes, files, names and the scratch directory.
LEMMA InvariantIsSafe == ASSUME CInv PROVE ClipboardSafety
<1>1. ClipboardTypeOK
    <2>1. /\ pastes_lists \in BOOLEAN /\ watch \in {"text", "files"} /\ ended \in {"no", "idle", "busy"}
          /\ ms \in [Side -> 1 .. MaxMs] /\ readers \in Nat /\ ids \in Nat
        BY DEF CInv, CShape
    <2>2. \A s \in Side : clip[s].kind \in {"none", "text", "files"} /\ clip[s].from \in 0 .. ids
        <3>1. ASSUME NEW s \in Side PROVE clip[s].kind \in {"none", "text", "files"} /\ clip[s].from \in 0 .. ids
            <4>1. clip[s] \in Message \cup {Empty} /\ clip[s].from \in Nat /\ clip[s].from <= ids
                BY PlaceFacts DEF CInv, SentInv
            <4> QED BY <2>1, <4>1, MessageFacts
        <3> QED BY <3>1
    <2>3. \A s \in Side : \A t \in tasks[s] : t.step \in {"write", "copy"}
        BY PlaceFacts DEF CInv
    <2> QED BY <2>1, <2>2, <2>3 DEF ClipboardTypeOK
<1>2. SizesBounded
    <2>1. DOMAIN toServer = 1 .. Len(toServer) /\ DOMAIN toClient = 1 .. Len(toClient)
        BY DEF CInv, CShape
    <2> QED BY <2>1 DEF CInv, SizeInv, Within, SizesBounded
<1>3. FilesIntact
    <2> SUFFICES ASSUME NEW s \in Side, clip[s].kind = "files", clip[s].what.dir # 0, s = "server" => ended = "no",
                        \A d \in 1 .. MaxMs : written[s][d] <= 1,
                        \A i, j \in DOMAIN clip[s].what.files :
                            clip[s].what.files[i].name = clip[s].what.files[j].name => i = j
                 PROVE  \A i \in DOMAIN clip[s].what.files :
                            disk[s][clip[s].what.dir][clip[s].what.files[i].name] = clip[s].what.files[i].data
        BY DEF FilesIntact
    <2>1. Stored(s, clip[s].what)
        BY DEF CInv, StoredInv
    <2>2. clip[s] \in Message
        BY PlaceFacts, MessageFacts DEF CInv
    <2>3. clip[s].what \in Listing
        BY <2>2, MessageFacts
    <2>4. clip[s].what.dir \in 1 .. MaxMs
        BY <2>3 DEF Listing
    <2>5. written[s][clip[s].what.dir] \in Nat
        <3>1. written \in [Side -> [1 .. MaxMs -> Nat]]
            BY DEF CInv, CShape
        <3>2. written[s] \in [1 .. MaxMs -> Nat]
            BY <3>1
        <3> QED BY <2>4, <3>2
    <2>6. written[s][clip[s].what.dir] = 1
        BY <2>1, <2>4, <2>5 DEF Stored
    <2> QED BY <2>1, <2>6 DEF Stored, Distinct
<1>4. ListsLeadBack
    <2>1. ASSUME NEW path \in Path PROVE path \in Seq(Byte)
        <3>1. PICK n \in 1 .. 3 : path \in [1 .. n -> {10, 13, 32, 35, 37, 47, 52, 65}]
            BY DEF Path
        <3>2. {10, 13, 32, 35, 37, 47, 52, 65} \subseteq Byte
            BY DEF Byte
        <3>3. path \in [1 .. n -> Byte] /\ n \in Nat
            BY <3>1, <3>2
        <3> QED BY <3>3
    <2> QED BY <2>1, EveryPathLeadsBack DEF ListsLeadBack
<1>5. ScratchCleared
    BY DEF CInv, EndInv, ScratchCleared
<1> QED BY <1>1, <1>2, <1>3, <1>4, <1>5 DEF ClipboardSafety

\* Whatever is copied, sent, received and lost on either side, nothing larger than
\* the cap is sent, received files stay as they were sent while they are on a
\* clipboard, every name leads back to its path, and the directory of a session
\* that ended at rest is empty.
THEOREM ClipboardIsSafe == ClipboardSpec => []ClipboardSafety
    BY ClipboardInvariance, InvariantIsSafe, PTL

\* A content of this connection that the watch thread finds on the clipboard is
\* the only one of its kind only if its hash is remembered.
LEMMA RememberedOrNotAlone ==
    ASSUME CInv, clip["server"].from > resumed,
           HashOf(clip["server"].kind) # Hash(clip["server"].what)
    PROVE  \E other \in arrived[clip["server"].kind] : other # clip["server"].from
    BY DEF CInv, MarkInv, Marked

\* What a step sends the client is not what it alone has set, or its files as text.
LEMMA StepEchoesOnlyStale ==
    ASSUME CInv, [ClipboardNext]_clipboardVars
    PROVE  Echoes => FilesAsText
<1> SUFFICES ASSUME Len(toClient') > Len(toClient), Last(toClient').from > resumed, ~FilesAsText
             PROVE  \E other \in arrived[clip["server"].kind] : other # Last(toClient').from
    BY DEF Echoes
<1>1. toClient \in Seq(Message) /\ Len(toClient) \in Nat /\ CShape
    BY DEF CInv, CShape
<1>2. \A e : Len(Append(toClient, e)) = Len(toClient) + 1 /\ Append(toClient, e)[Len(toClient) + 1] = e
    BY <1>1
<1>3. toClient' # toClient /\ toClient' # <<>> /\ (toClient # <<>> => toClient' # Tail(toClient))
    BY <1>1
<1>4. ASSUME NEW e, toClient' = Append(toClient, e) PROVE Last(toClient') = e
    BY <1>1, <1>2, <1>4 DEF Last
<1>5. CASE PollText
    <2>1. PICK seen : seen = Pasted("server")
        OBVIOUS
    <2>2. /\ toClient' = Append(toClient, TextOf(seen, clip["server"].from))
          /\ seen # Nothing /\ Hash(seen) # client_clip_hash
        BY <1>3, <1>5, <2>1 DEF PollText
    <2>3. Last(toClient').kind = "text" /\ Last(toClient').from = clip["server"].from
        BY <1>4, <2>2 DEF TextOf
    <2>4. clip["server"].kind = "text" /\ seen = clip["server"].what
        BY <2>1, <2>2, <2>3 DEF Pasted, FilesAsText
    <2> QED BY <2>2, <2>3, <2>4, RememberedOrNotAlone DEF HashOf
<1>6. CASE PollFiles
    <2>1. PICK list : list = PastedList("server")
        OBVIOUS
    <2>2. PICK files : files = IF list = Nothing THEN <<>> ELSE Contents("server", list)
        OBVIOUS
    <2>3. /\ toClient' = Append(toClient, FilesOf(0, files, clip["server"].from))
          /\ list # Nothing /\ Hash(list) # client_clip_uri_hash
        BY <1>3, <1>6, <2>1, <2>2 DEF PollFiles
    <2>4. Last(toClient').kind = "files" /\ Last(toClient').from = clip["server"].from
        BY <1>4, <2>3 DEF FilesOf
    <2>5. clip["server"].kind = "files" /\ list = clip["server"].what
        BY <2>1, <2>3 DEF PastedList
    <2> QED BY <2>3, <2>4, <2>5, RememberedOrNotAlone DEF HashOf
<1>7. CASE UNCHANGED clipboardVars
    BY <1>3, <1>7 DEF clipboardVars
<1>8. CASE UserActs
    BY <1>3, <1>8 DEF UserActs, UserCopies, Focused, Reconnect, Reattached, SessionEnds
<1>9. CASE SendFiles \/ ServerReceives \/ \E s \in Side : WriteFiles(s) \/ SetClipboard(s)
    BY <1>3, <1>9 DEF SendFiles, ServerReceives, Receive, WriteFiles, SetClipboard
<1>10. CASE ClientReceives
    BY <1>3, <1>10 DEF ClientReceives
<1> QED BY <1>5, <1>6, <1>7, <1>8, <1>9, <1>10 DEF ClipboardNext, Delivery, Watch

\* In every order of polls, messages and threads, a content of this connection goes
\* back to the client only when another one of its kind has arrived on it, or as a
\* list of files that wl-paste hands out as text.
THEOREM EchoesOnlyStale == ClipboardSpec => EchoOnlyStale
<1>1. CInv /\ [ClipboardNext]_clipboardVars => [Echoes => FilesAsText]_clipboardVars
    BY StepEchoesOnlyStale
<1> QED BY <1>1, ClipboardInvariance, PTL DEF ClipboardSpec, EchoOnlyStale

\* Where wl-paste hands out a list of files only to who asks for one, the client is
\* sent none of its own clipboard back, as the comments say (receive_file_transfer),
\* but for contents whose hash has been replaced by another's.
THEOREM NothingEchoed == ClipboardSpec /\ ~pastes_lists => NeverEchoed
<1>1. ~pastes_lists /\ [ClipboardNext]_clipboardVars => ~pastes_lists'
    <2> SUFFICES ASSUME [ClipboardNext]_clipboardVars PROVE pastes_lists' = pastes_lists
        OBVIOUS
    <2>1. CASE UserActs
        BY <2>1 DEF UserActs, UserCopies, Focused, Reconnect, Reattached, SessionEnds
    <2>2. CASE Delivery
        BY <2>2 DEF Delivery, SendFiles, ClientReceives, ServerReceives, Receive, WriteFiles,
                    SetClipboard
    <2>3. CASE Watch \/ UNCHANGED clipboardVars
        BY <2>3 DEF Watch, PollText, PollFiles, clipboardVars
    <2> QED BY <2>1, <2>2, <2>3 DEF ClipboardNext
<1>2. CInv /\ ~pastes_lists /\ [ClipboardNext]_clipboardVars => [~Echoes]_clipboardVars
    BY StepEchoesOnlyStale DEF FilesAsText
<1> QED BY <1>1, <1>2, ClipboardInvariance, PTL DEF ClipboardSpec, NeverEchoed

HIDE ClipboardAssumption DEF wireVars, watchVars, historyVars, Side, Kind

USE DEF launchVars, scriptVars, desktopVars, windowVars, keyboardVars, inputVars

(***************************************************************************)
(* The inductive invariant of the desktop.                                 *)
(***************************************************************************)

Launched == {"running", "late"}
Lines == {"logout", "record", "kwin", "socket", "shell", "trap", "terminal", "wait", "stop_shell",
          "wait_shell", "stop_kwin", "wait_kwin", "exit"}

DShape ==
    /\ host \in Hosts /\ desktop \in {"none", "nested", "labwc", "terminal", "app"}
    /\ launch \in Launched \cup {"choose", "resolve", "rundir", "spawn", "initgroups", "setgid", "setuid",
                                 "exec", "failed"}
    /\ cred \in [groups : {"server", "user"}, gid : {"server", "user"}, uid : {"server", "user"}]
    /\ rundir \in {"none", "user", "server"} /\ up \subseteq Program /\ told \subseteq Program
    /\ script \in Lines \cup {"none", "ended", "killed"} /\ aborted \subseteq Program
    /\ trap \in BOOLEAN /\ pidfile \in BOOLEAN
    /\ ends \in 0 .. MaxEnds /\ crashes \in 0 .. MaxCrashes

\* The child drops one credential after another, and only for a user of the host.
LaunchInv ==
    /\ launch \notin Launched => up = {} /\ told = {} /\ script = "none" /\ ~pidfile /\ aborted = {}
    /\ launch \in {"initgroups", "setgid", "setuid"} => host.isolated
    /\ launch \in {"choose", "resolve", "rundir", "spawn", "initgroups", "failed"} => cred = Server
    /\ launch = "setgid" => cred = [Server EXCEPT !.groups = "user"]
    /\ launch = "setuid" => cred = [User EXCEPT !.uid = "server"]
    /\ launch \in Launched \cup {"exec"} => cred = IF host.isolated THEN User ELSE Server
    /\ launch \in Launched /\ host.isolated => rundir = "user"

\* What the line the script is at says of the programs and of the record.
ScriptInv ==
    /\ script \in Lines => "script" \in up /\ "bus" \in up /\ Plasma /\ launch = "running"
    /\ "script" \in up => script \in Lines
    /\ script \in {"record", "kwin", "socket", "stop_kwin", "wait_kwin"} => desktop = "nested"
    /\ script = "terminal" => desktop # "nested"
    /\ desktop = "nested" /\ script \in Lines \ {"logout", "record", "exit"} => pidfile
    /\ "kwin" \in up => pidfile
    /\ pidfile => desktop = "nested"
    /\ script \in {"wait", "terminal"} => trap
    /\ script \in {"stop_kwin", "wait_kwin", "exit", "ended"} => "shell" \notin up
    /\ script \in {"exit", "ended"} =>
          "kwin" \notin up /\ ~pidfile /\ (desktop = "nested" => "kded" \notin up)

\* While nothing goes wrong KWin runs from its line to its SIGTERM, in a labwc and on a
\* bus that outlast the script, and plasmashell only beside it.
Undisturbed == desktop = "nested" /\ crashes = 0 /\ script # "killed" /\ "labwc" \notin told
OrderInv ==
    Undisturbed =>
        /\ aborted = {}
        /\ "kwin" \in told => script \in {"wait_kwin", "exit", "ended"}
        /\ script \in {"socket", "shell", "trap", "wait", "stop_shell", "wait_shell", "stop_kwin"} => "kwin" \in up
        /\ "bus" \in up => "labwc" \in up
        /\ script \in {"none", "ended"} => up \cap {"kwin", "shell"} = {}
        /\ "shell" \in up => script \in {"trap", "wait", "stop_shell", "wait_shell"}

DInv == DShape /\ LaunchInv /\ ScriptInv /\ OrderInv

(***************************************************************************)
(* The inductive invariant of the input.                                   *)
(***************************************************************************)

KeyCommand == [is : {"key"}, key : Key, pressed : BOOLEAN]
TextCommand == [is : {"text"}, text : Texts]

IShape ==
    /\ InputTypeOK /\ stream \in {"none", "on"} /\ held \subseteq Key
    /\ sent_as \in {None, "rctrl", "lctrl"} /\ (sent_as = None <=> "rctrl" \notin held)
    /\ input \in Seq(KeyCommand \cup TextCommand)

\* What is not held is up, or its release is under way and nothing presses it again.
Wanted == {SentFor(k) : k \in held}
Presses(c, v) == c.is = "key" /\ c.key = v /\ c.pressed
Releases(c, v) == c.is = "key" /\ c.key = v /\ ~c.pressed
Released(v) ==
    \/ v \notin down /\ \A i \in 1 .. Len(input) : ~Presses(input[i], v)
    \/ \E i \in 1 .. Len(input) :
         Releases(input[i], v) /\ \A j \in i + 1 .. Len(input) : ~Presses(input[j], v)
KeysInv ==
    /\ \A v \in Key \ Wanted : Released(v)
    /\ mods \subseteq {ModifierOf(k) : k \in down}

SeenInv == (stream = "none" => last_windows = {}) /\ Recognised

JInv == IShape /\ KeysInv /\ SeenInv /\ KeymapKept
TextInv ==
    /\ IsPrefix(text.typed, TypableOf(text.asked))
    /\ text.whole => text.typed = TypableOf(text.asked)
IInv == DInv /\ JInv /\ TextInv

(***************************************************************************)
(* The desktop: its launch.                                                *)
(***************************************************************************)

USE DesktopAssumption DEF DShape, At, noPrograms

LEMMA LaunchStep ==
    ASSUME DInv, Launch
    PROVE  DInv'
<1> USE DEF DInv, LaunchInv
<1>0. ASSUME launch \notin Launched, launch' \notin Launched,
             host' = host, noPrograms, DShape', LaunchInv' PROVE DInv'
    BY <1>0 DEF ScriptInv, OrderInv, Undisturbed, Lines
<1>1. CASE Choose
    <2>1. DShape' /\ LaunchInv'
        BY <1>1 DEF Choose, DetectDesktopShell, Launched
    <2> QED BY <1>1, <1>0, <2>1 DEF Choose, Launched
<1>2. CASE Resolve \/ RuntimeDir \/ LaunchAgain \/ Fork
    <2>1. DShape' /\ LaunchInv'
        BY <1>2 DEF Resolve, RuntimeDir, LaunchAgain, Fork, Launched
    <2> QED BY <1>2, <1>0, <2>1 DEF Resolve, RuntimeDir, LaunchAgain, Fork, Launched
<1>3. CASE InitGroups
    <2>1. DShape' /\ LaunchInv'
        BY <1>3 DEF InitGroups, Change, Launched, Server, User
    <2> QED BY <1>3, <1>0, <2>1 DEF InitGroups, Change, Launched
<1>4. CASE SetGid
    <2>1. DShape' /\ LaunchInv'
        BY <1>4 DEF SetGid, Change, Launched, Server, User
    <2> QED BY <1>4, <1>0, <2>1 DEF SetGid, Change, Launched
<1>5. CASE SetUid
    <2>1. DShape' /\ LaunchInv'
        BY <1>5 DEF SetUid, Change, Launched, Server, User
    <2> QED BY <1>5, <1>0, <2>1 DEF SetUid, Change, Launched
<1>6. CASE Exec
    <2>1. DShape'
        BY <1>6 DEF Exec, Launched, Program, Lines, Server
    <2>2. LaunchInv'
        BY <1>6 DEF Exec, Launched
    <2>3. ScriptInv'
        BY <1>6 DEF Exec, Launched, ScriptInv, Plasma, Lines
    <2>4. OrderInv'
        BY <1>6 DEF Exec, Launched, OrderInv, Undisturbed
    <2> QED BY <2>1, <2>2, <2>3, <2>4
<1> QED BY <1>1, <1>2, <1>3, <1>4, <1>5, <1>6 DEF Launch

(***************************************************************************)
(* The desktop: its script.                                                *)
(***************************************************************************)

LEMMA ScriptLines ==
    ASSUME DInv, ScriptStep \/ ScriptKilled
    PROVE  DInv'
<1> USE DEF DInv, Line, Start, scriptUnchanged
<1>1. "script" \in up /\ script \in Lines /\ "bus" \in up /\ Plasma /\ launch = "running"
      /\ UNCHANGED <<launchVars, ends, crashes, aborted>>
    BY DEF ScriptStep, ScriptKilled, StartLogout, Record, StartKwin, SocketWait, StartShell, SetTrap,
        StartTerminal, WaitReturns, StopShell, WaitShell, StopKwin, WaitKwin, ScriptExits, ScriptInv
<1>2. LaunchInv'
    BY <1>1 DEF LaunchInv, Launched
<1>3. Plasma' = Plasma
    BY <1>1 DEF Plasma
<1>a. CASE StartLogout
    <2>1. DShape'
        BY <1>1, <1>a DEF StartLogout, Lines, Program
    <2>2. ScriptInv'
        BY <1>1, <1>3, <1>a DEF StartLogout, Lines, ScriptInv
    <2>3. OrderInv'
        BY <1>1, <1>a DEF StartLogout, OrderInv, Undisturbed
    <2> QED BY <1>2, <2>1, <2>2, <2>3
<1>b. CASE Record
    <2>1. DShape'
        BY <1>1, <1>b DEF Record, Lines, Program
    <2>2. ScriptInv'
        BY <1>1, <1>3, <1>b DEF Record, Lines, ScriptInv
    <2>3. OrderInv'
        BY <1>1, <1>b DEF Record, OrderInv, Undisturbed
    <2> QED BY <1>2, <2>1, <2>2, <2>3
<1>c. CASE StartKwin
    <2>1. DShape'
        BY <1>1, <1>c DEF StartKwin, Lines, Program
    <2>2. ScriptInv'
        BY <1>1, <1>3, <1>c DEF StartKwin, Lines, ScriptInv
    <2>3. OrderInv'
        BY <1>1, <1>c DEF StartKwin, OrderInv, Undisturbed, ScriptInv
    <2> QED BY <1>2, <2>1, <2>2, <2>3
<1>d. CASE SocketWait
    <2>1. DShape'
        BY <1>1, <1>d DEF SocketWait, Lines, Program
    <2>2. ScriptInv'
        BY <1>1, <1>3, <1>d DEF SocketWait, Lines, ScriptInv
    <2>3. OrderInv'
        BY <1>1, <1>d DEF SocketWait, OrderInv, Undisturbed
    <2> QED BY <1>2, <2>1, <2>2, <2>3
<1>e. CASE StartShell
    <2>1. DShape'
        BY <1>1, <1>e DEF StartShell, Lines, Program
    <2>2. ScriptInv'
        BY <1>1, <1>3, <1>e DEF StartShell, Lines, ScriptInv
    <2>3. OrderInv'
        BY <1>1, <1>e DEF StartShell, OrderInv, Undisturbed
    <2> QED BY <1>2, <2>1, <2>2, <2>3
<1>f. CASE SetTrap
    <2>1. DShape'
        BY <1>1, <1>f DEF SetTrap, Lines, Program
    <2>2. ScriptInv'
        BY <1>1, <1>3, <1>f DEF SetTrap, Lines, ScriptInv
    <2>3. OrderInv'
        BY <1>1, <1>f DEF SetTrap, OrderInv, Undisturbed
    <2> QED BY <1>2, <2>1, <2>2, <2>3
<1>g. CASE StartTerminal
    <2>1. DShape'
        BY <1>1, <1>g DEF StartTerminal, Lines, Program
    <2>2. ScriptInv'
        BY <1>1, <1>3, <1>g DEF StartTerminal, Lines, ScriptInv
    <2>3. OrderInv'
        BY <1>1, <1>g DEF StartTerminal, OrderInv, Undisturbed, ScriptInv
    <2> QED BY <1>2, <2>1, <2>2, <2>3
<1>h. CASE WaitReturns
    <2>1. DShape'
        BY <1>1, <1>h DEF WaitReturns, Lines, Program
    <2>2. ScriptInv'
        BY <1>1, <1>3, <1>h DEF WaitReturns, Lines, ScriptInv
    <2>3. OrderInv'
        BY <1>1, <1>h DEF WaitReturns, OrderInv, Undisturbed, ScriptInv
    <2> QED BY <1>2, <2>1, <2>2, <2>3
<1>i. CASE StopShell
    <2>1. DShape'
        BY <1>1, <1>i DEF StopShell, Lines, Program
    <2>2. ScriptInv'
        BY <1>1, <1>3, <1>i DEF StopShell, Lines, ScriptInv
    <2>3. OrderInv'
        BY <1>1, <1>i DEF StopShell, OrderInv, Undisturbed
    <2> QED BY <1>2, <2>1, <2>2, <2>3
<1>j. CASE WaitShell
    <2>1. DShape'
        BY <1>1, <1>j DEF WaitShell, Lines, Program
    <2>2. ScriptInv'
        BY <1>1, <1>3, <1>j DEF WaitShell, Lines, ScriptInv, Plasma
    <2>3. OrderInv'
        BY <1>1, <1>j DEF WaitShell, OrderInv, Undisturbed
    <2> QED BY <1>2, <2>1, <2>2, <2>3
<1>k. CASE StopKwin
    <2>1. DShape'
        BY <1>1, <1>k DEF StopKwin, Lines, Program
    <2>2. ScriptInv'
        BY <1>1, <1>3, <1>k DEF StopKwin, Lines, ScriptInv
    <2>3. OrderInv'
        BY <1>1, <1>k DEF StopKwin, OrderInv, Undisturbed
    <2> QED BY <1>2, <2>1, <2>2, <2>3
<1>l. CASE WaitKwin
    <2>1. DShape'
        BY <1>1, <1>l DEF WaitKwin, Lines, Program
    <2>2. ScriptInv'
        BY <1>1, <1>3, <1>l DEF WaitKwin, Lines, ScriptInv
    <2>3. OrderInv'
        BY <1>1, <1>l DEF WaitKwin, OrderInv, Undisturbed
    <2> QED BY <1>2, <2>1, <2>2, <2>3
<1>m. CASE ScriptExits
    <2>1. DShape'
        BY <1>1, <1>m DEF ScriptExits, Lines, Program
    <2>2. ScriptInv'
        BY <1>1, <1>3, <1>m DEF ScriptExits, Lines, ScriptInv
    <2>3. OrderInv'
        BY <1>1, <1>m DEF ScriptExits, OrderInv, Undisturbed, ScriptInv
    <2> QED BY <1>2, <2>1, <2>2, <2>3
<1>n. CASE ScriptKilled
    <2>1. DShape'
        BY <1>1, <1>n DEF ScriptKilled, Lines, Program
    <2>2. ScriptInv'
        BY <1>1, <1>3, <1>n DEF ScriptKilled, Lines, ScriptInv
    <2>3. OrderInv'
        BY <1>n DEF ScriptKilled, OrderInv, Undisturbed
    <2> QED BY <1>2, <2>1, <2>2, <2>3
<1> QED BY <1>a, <1>b, <1>c, <1>d, <1>e, <1>f, <1>g, <1>h, <1>i, <1>j, <1>k, <1>l, <1>m, <1>n DEF ScriptStep

(***************************************************************************)
(* The desktop: its programs, and who ends them.                           *)
(***************************************************************************)

LEMMA ProgramStep ==
    ASSUME DInv, NEW p \in Program, EndSession \/ KdedStarts \/ ProgramEnds(p) \/ Follows(p) \/ Crashes(p)
    PROVE  DInv'
<1> USE DEF DInv, programUnchanged
<1>1. UNCHANGED <<launchVars, scriptVars>>
    BY DEF EndSession, EndThrough, KdedStarts, ProgramEnds, Follows, Crashes
<1>2. up # {} => launch \in Launched
    BY DEF LaunchInv
<1>3. Plasma' = Plasma
    BY <1>1 DEF Plasma
<1>4. ASSUME UNCHANGED told \/ launch \in Launched, UNCHANGED aborted \/ launch \in Launched, up # {} \/ up' = up
      PROVE  LaunchInv'
    BY <1>1, <1>2, <1>4 DEF LaunchInv, Launched
<1>a. CASE EndSession
    <2>1. DShape' /\ LaunchInv' /\ ScriptInv'
        BY <1>1, <1>3, <1>4, <1>a DEF EndSession, EndThrough, ScriptInv, Launched
    <2>2. OrderInv'
        BY <1>1, <1>a DEF EndSession, EndThrough, OrderInv, Undisturbed
    <2> QED BY <2>1, <2>2
<1>b. CASE KdedStarts
    <2>1. DShape' /\ LaunchInv'
        BY <1>1, <1>4, <1>b DEF KdedStarts, Program
    <2>2. ScriptInv'
        BY <1>1, <1>3, <1>b DEF KdedStarts, ScriptInv
    <2>3. OrderInv'
        BY <1>1, <1>b DEF KdedStarts, OrderInv, Undisturbed
    <2> QED BY <2>1, <2>2, <2>3
<1>c. CASE ProgramEnds(p)
    <2>1. DShape' /\ LaunchInv'
        BY <1>1, <1>4, <1>c DEF ProgramEnds
    <2>2. ScriptInv'
        BY <1>1, <1>3, <1>c DEF ProgramEnds, ScriptInv
    <2>3. OrderInv'
        BY <1>1, <1>c DEF ProgramEnds, OrderInv, Undisturbed
    <2> QED BY <2>1, <2>2, <2>3
<1>d. CASE Follows(p)
    <2>0. p # "script" /\ (p = "bus" => "script" \notin up)
        BY <1>d DEF Follows, Orphaned
    <2>1. DShape' /\ LaunchInv'
        BY <1>1, <1>4, <1>d DEF Follows, Launched
    <2>2. ScriptInv'
        BY <1>1, <1>3, <1>d, <2>0 DEF Follows, ScriptInv
    <2>3. OrderInv'
        <3> SUFFICES ASSUME Undisturbed PROVE OrderInv'
            BY <1>1, <1>d DEF Follows, OrderInv, Undisturbed
        <3>1. Plasma /\ launch = "running"
            BY <1>d DEF Follows, Undisturbed, Plasma
        <3>2. p = "labwc" => "bus" \notin up
            BY <1>d, <3>1 DEF Follows, Orphaned
        <3>3. "kwin" \in up \/ "shell" \in up => "script" \in up /\ "bus" \in up /\ "labwc" \in up
            BY DEF OrderInv, ScriptInv, Undisturbed
        <3>4. "shell" \in up => "kwin" \in up
            BY DEF OrderInv
        <3>5. p \notin {"kwin", "shell"}
            BY <1>d, <3>3, <3>4 DEF Follows, Orphaned, Undisturbed
        <3>6. aborted' = aborted /\ up' = up \ {p} /\ told' = told
            BY <1>d, <3>5 DEF Follows
        <3> QED BY <1>1, <3>2, <3>5, <3>6 DEF OrderInv, Undisturbed
    <2> QED BY <2>1, <2>2, <2>3
<1>e. CASE Crashes(p)
    <2>1. DShape' /\ LaunchInv'
        BY <1>1, <1>4, <1>e DEF Crashes
    <2>2. ScriptInv'
        BY <1>1, <1>3, <1>e DEF Crashes, ScriptInv
    <2>3. OrderInv'
        BY <1>1, <1>e DEF Crashes, OrderInv, Undisturbed
    <2> QED BY <2>1, <2>2, <2>3
<1> QED BY <1>a, <1>b, <1>c, <1>d, <1>e

\* The desktop takes no notice of the connection, so its part of every step keeps its
\* part of the invariant.
LEMMA DesktopKept ==
    ASSUME DInv, [NextSession]_vars
    PROVE  DInv'
<1>1. CASE DesktopStep
    BY <1>1, LaunchStep, ScriptLines, ProgramStep DEF DesktopStep, Program
<1>2. CASE UNCHANGED desktopVars
    BY <1>2 DEF DInv, LaunchInv, ScriptInv, Plasma, OrderInv, Undisturbed
<1>3. InputStep => UNCHANGED desktopVars
    BY DEF InputStep, StreamStarts, Poll, InjectKey, InjectText, injectorUnchanged, WindowMaps, KeyEvent, TextInput
<1> QED BY <1>1, <1>2, <1>3 DEF NextSession, vars

(***************************************************************************)
(* The queue of the input thread.                                          *)
(***************************************************************************)

HIDE DEF DShape, At, noPrograms

Command == KeyCommand \cup TextCommand

LEMMA ReleasedAppend ==
    ASSUME NEW v, input \in Seq(Command), NEW c \in Command, Send(c), down' = down,
           \/ Released(v) /\ ~Presses(c, v)
           \/ Releases(c, v)
    PROVE  Released(v)'
<1> DEFINE n == Len(input)
<1>1. /\ n \in Nat /\ input' = Append(input, c) /\ Len(input') = n + 1
      /\ input'[n + 1] = c /\ \A i \in 1 .. n : input'[i] = input[i]
    BY DEF Send
<1> HIDE DEF n
<1>2. CASE Releases(c, v)
    <2>1. n + 1 \in 1 .. Len(input') /\ \A j \in n + 2 .. Len(input') : FALSE
        BY <1>1
    <2>2. Releases(input'[n + 1], v)
        BY <1>1, <1>2
    <2> QED BY <2>1, <2>2, <1>1 DEF Released
<1>3. CASE ~Presses(c, v) /\ v \notin down /\ \A i \in 1 .. Len(input) : ~Presses(input[i], v)
    <2>1. ASSUME NEW i \in 1 .. Len(input') PROVE ~Presses(input'[i], v)
        BY <1>1, <1>3 DEF n
    <2> QED BY <1>3, <2>1 DEF Released
<1>4. CASE ~Presses(c, v) /\ \E i \in 1 .. Len(input) :
              Releases(input[i], v) /\ \A j \in i + 1 .. Len(input) : ~Presses(input[j], v)
    <2> PICK i \in 1 .. Len(input) :
              Releases(input[i], v) /\ \A j \in i + 1 .. Len(input) : ~Presses(input[j], v)
        BY <1>4
    <2>1. i \in 1 .. Len(input') /\ Releases(input'[i], v)
        BY <1>1 DEF n
    <2>2. ASSUME NEW j \in i + 1 .. Len(input') PROVE ~Presses(input'[j], v)
        BY <1>1, <1>4 DEF n
    <2> QED BY <2>1, <2>2 DEF Released
<1> QED BY <1>2, <1>3, <1>4 DEF Released

\* What the thread takes from the queue is what it does to the key.
LEMMA ReleasedTail ==
    ASSUME NEW v, input \in Seq(Command), input # <<>>, input' = Tail(input), Released(v),
           v \in down' => Presses(Head(input), v) \/ (v \in down /\ ~Releases(Head(input), v))
    PROVE  Released(v)'
<1> DEFINE n == Len(input)
<1>1. /\ n \in Nat \ {0} /\ Len(input') = n - 1 /\ Head(input) = input[1]
      /\ \A i \in 1 .. n - 1 : input'[i] = input[i + 1]
    OBVIOUS
<1> HIDE DEF n
<1>2. CASE v \notin down /\ \A i \in 1 .. Len(input) : ~Presses(input[i], v)
    <2>1. v \notin down'
        BY <1>1, <1>2 DEF n
    <2>2. ASSUME NEW i \in 1 .. Len(input') PROVE ~Presses(input'[i], v)
        BY <1>1, <1>2 DEF n
    <2> QED BY <2>1, <2>2 DEF Released
<1>3. CASE \E i \in 1 .. Len(input) :
              Releases(input[i], v) /\ \A j \in i + 1 .. Len(input) : ~Presses(input[j], v)
    <2> PICK i \in 1 .. Len(input) :
              Releases(input[i], v) /\ \A j \in i + 1 .. Len(input) : ~Presses(input[j], v)
        BY <1>3
    <2>1. CASE i = 1
        <3>1. v \notin down'
            BY <1>1, <2>1 DEF Presses, Releases
        <3>2. ASSUME NEW j \in 1 .. Len(input') PROVE ~Presses(input'[j], v)
            BY <1>1, <2>1 DEF n
        <3> QED BY <3>1, <3>2 DEF Released
    <2>2. CASE i # 1
        <3>1. i - 1 \in 1 .. Len(input') /\ Releases(input'[i - 1], v)
            BY <1>1, <2>2 DEF n
        <3>2. ASSUME NEW j \in (i - 1) + 1 .. Len(input') PROVE ~Presses(input'[j], v)
            BY <1>1, <2>2 DEF n
        <3> QED BY <3>1, <3>2 DEF Released
    <2> QED BY <2>1, <2>2
<1> QED BY <1>2, <1>3 DEF Released

(***************************************************************************)
(* The input, the windows and the loop between them.                       *)
(***************************************************************************)

USE InputAssumption DEF IShape, InputTypeOK, Key, None

\* What the loop makes of a key is a key, and a release goes out as its press did.
LEMMA KeyEventKeeps ==
    ASSUME JInv, NEW key \in Keys, KeyEvent(key)
    PROVE  JInv'
<1> USE DEF JInv
<1> DEFINE pressed == key \notin held
           m == Map(key, pressed)
           c == [is |-> "key", key |-> m, pressed |-> pressed]
<1>1. /\ key \in Key /\ Send(c) /\ held' = IF pressed THEN held \cup {key} ELSE held \ {key}
      /\ sent_as' = IF key # "rctrl" THEN sent_as ELSE IF pressed THEN Map(key, TRUE) ELSE None
      /\ UNCHANGED <<desktopVars, stream, windowVars, injector, keyboardVars, text>>
    BY DEF KeyEvent
<1>2. m \in Key /\ c \in KeyCommand /\ m = IF pressed THEN Map(key, TRUE) ELSE SentFor(key)
    <2>1. pressed \in BOOLEAN
        OBVIOUS
    <2>2. m \in Key /\ m = IF pressed THEN Map(key, TRUE) ELSE SentFor(key)
        BY <1>1 DEF Map, SentFor
    <2> HIDE DEF pressed, m
    <2> QED BY <2>1, <2>2 DEF KeyCommand
<1>3. /\ pressed => Presses(c, m) /\ \A v : v # m => ~Presses(c, v)
      /\ ~pressed => Releases(c, m) /\ \A v : ~Presses(c, v)
    BY DEF Presses, Releases
<1> HIDE DEF c
<1>4. /\ pressed => Wanted \cup {m} \subseteq Wanted'
      /\ ~pressed => Wanted \ {m} \subseteq Wanted'
    <2>1. CASE pressed
        <3>1. SentFor(key)' = m
            BY <1>1, <1>2, <2>1 DEF SentFor, Map
        <3>2. \A k \in held : SentFor(k)' = SentFor(k) /\ k \in held'
            BY <1>1, <2>1 DEF SentFor
        <3>3. key \in held'
            BY <1>1, <2>1
        <3> HIDE DEF m, pressed
        <3> QED BY <2>1, <3>1, <3>2, <3>3 DEF Wanted
    <2>2. CASE ~pressed
        <3>1. SentFor(key) = m
            BY <1>2, <2>2
        <3>2. \A k \in held \ {key} : SentFor(k)' = SentFor(k) /\ k \in held'
            BY <1>1, <2>2 DEF SentFor
        <3> HIDE DEF m, pressed
        <3> QED BY <2>2, <3>1, <3>2 DEF Wanted
    <2> QED BY <2>1, <2>2
<1>5. IShape'
    <2>1. input' \in Seq(KeyCommand \cup TextCommand)
        BY <1>1, <1>2 DEF Send
    <2>2. sent_as' \in {None, "rctrl", "lctrl"} /\ (sent_as' = None <=> "rctrl" \notin held') /\ held' \subseteq Key
        BY <1>1 DEF Map
    <2> QED BY <1>1, <2>1, <2>2
<1>6. ASSUME NEW v \in Key \ Wanted' PROVE Released(v)'
    <2>0. input \in Seq(Command) /\ c \in Command /\ down' = down
        BY <1>1, <1>2 DEF Command
    <2>1. CASE pressed
        <3>1. Released(v) /\ ~Presses(c, v)
            BY <1>3, <1>4, <1>6, <2>1 DEF KeysInv
        <3> HIDE DEF pressed, m
        <3> QED BY <1>1, <2>0, <3>1, ReleasedAppend
    <2>2. CASE ~pressed
        <3>1. (Released(v) /\ ~Presses(c, v)) \/ Releases(c, v)
            BY <1>3, <1>4, <1>6, <2>2 DEF KeysInv
        <3> HIDE DEF pressed, m
        <3> QED BY <1>1, <2>0, <3>1, ReleasedAppend
    <2> QED BY <2>1, <2>2
<1>7. mods' \subseteq {ModifierOf(k) : k \in down'}
    BY <1>1 DEF KeysInv
<1>8. SeenInv' /\ KeymapKept'
    BY <1>1 DEF SeenInv, Recognised, KeymapKept
<1> QED BY <1>5, <1>6, <1>7, <1>8 DEF KeysInv

LEMMA TextInputKeeps ==
    ASSUME JInv, NEW t \in Texts, TextInput(t)
    PROVE  JInv'
<1> USE DEF JInv
<1> DEFINE c == [is |-> "text", text |-> t]
<1>1. Send(c) /\ UNCHANGED <<desktopVars, stream, windowVars, sent_as, held, injector, keyboardVars, text>>
    BY DEF TextInput
<1>2. c \in TextCommand /\ \A v : ~Presses(c, v)
    BY DEF TextCommand, Presses
<1> HIDE DEF c
<1>3. IShape'
    BY <1>1, <1>2 DEF Send
<1>4. Wanted' = Wanted
    BY <1>1 DEF Wanted, SentFor
<1>5. input \in Seq(Command) /\ c \in Command
    BY <1>2 DEF Command
<1>6. ASSUME NEW v \in Key \ Wanted' PROVE Released(v)'
    BY <1>1, <1>2, <1>4, <1>5, <1>6, ReleasedAppend DEF KeysInv
<1> QED BY <1>1, <1>3, <1>6 DEF KeysInv, SeenInv, Recognised, KeymapKept

LEMMA InjectKeyKeeps ==
    ASSUME JInv, InjectKey
    PROVE  JInv'
<1> USE DEF JInv
<1> DEFINE c == Head(input)
           key == c.key
           mod == {ModifierOf(key)} \ {None}
<1>1. /\ input # <<>> /\ c.is = "key" /\ input' = Tail(input)
      /\ UNCHANGED <<injector, keymap, text, desktopVars, stream, windowVars, sent_as, held, messages>>
      /\ down' = IF c.pressed THEN down \cup {key} ELSE down \ {key}
      /\ mods' = IF c.pressed THEN mods \cup mod ELSE mods \ mod
    BY DEF InjectKey, injectorUnchanged
<1>2. c \in KeyCommand \cup TextCommand /\ Tail(input) \in Seq(KeyCommand \cup TextCommand)
    BY <1>1
<1>3. key \in Key
    BY <1>1, <1>2 DEF KeyCommand, TextCommand
<1>4. mod \subseteq {"ctrl", "shift"}
    BY DEF ModifierOf
<1> HIDE DEF c
<1>5. IShape'
    <2> HIDE DEF mod, key
    <2> QED BY <1>1, <1>2, <1>3, <1>4
<1>6. Wanted' = Wanted
    BY <1>1 DEF Wanted, SentFor
<1>7. ASSUME NEW v \in Key \ Wanted' PROVE Released(v)'
    <2>1. v \in down' => Presses(c, v) \/ (v \in down /\ ~Releases(c, v))
        BY <1>1 DEF Presses, Releases
    <2>2. Released(v) /\ input \in Seq(Command)
        BY <1>6, <1>7 DEF KeysInv, Command
    <2> QED BY <1>1, <2>1, <2>2, ReleasedTail DEF c
<1>8. mods' \subseteq {ModifierOf(k) : k \in down'}
    <2> SUFFICES ASSUME NEW x \in mods' PROVE \E k \in down' : ModifierOf(k) = x
        OBVIOUS
    <2>1. CASE c.pressed
        <3>1. x \in mods \/ x = ModifierOf(key)
            BY <1>1, <2>1
        <3> QED BY <1>1, <2>1, <3>1 DEF KeysInv
    <2>2. CASE ~c.pressed
        <3>1. x \in mods /\ x \notin mod
            BY <1>1, <2>2
        <3>2. x # None
            BY <3>1
        <3>3. PICK k \in down : ModifierOf(k) = x
            BY <3>1 DEF KeysInv
        <3>4. k # key
            BY <3>1, <3>2, <3>3
        <3> QED BY <1>1, <2>2, <3>3, <3>4
    <2> QED BY <2>1, <2>2
<1> QED BY <1>1, <1>5, <1>7, <1>8 DEF KeysInv, SeenInv, Recognised, KeymapKept

LEMMA InjectTextKeeps ==
    ASSUME JInv, InjectText
    PROVE  JInv'
<1> USE DEF JInv
<1>1. /\ input # <<>> /\ Head(input).is = "text" /\ input' = Tail(input)
      /\ UNCHANGED <<injector, down, mods, desktopVars, stream, windowVars, sent_as, held, messages>>
    BY DEF InjectText, injectorUnchanged
<1>2. (keymap' = "static" <=> text'.restored) /\ keymap' \in {"static", "text"}
    BY DEF InjectText, KeymapAfter, KeymapKept
<1>3. IShape'
    BY <1>1, <1>2
<1>4. Wanted' = Wanted
    BY <1>1 DEF Wanted, SentFor
<1>5. ASSUME NEW v \in Key \ Wanted' PROVE Released(v)'
    <2>1. Released(v) /\ input \in Seq(Command)
        BY <1>4, <1>5 DEF KeysInv, Command
    <2>2. ~Releases(Head(input), v)
        BY <1>1 DEF Releases
    <2> QED BY <1>1, <2>1, <2>2, ReleasedTail
<1> QED BY <1>1, <1>2, <1>3, <1>5 DEF KeysInv, SeenInv, Recognised, KeymapKept

\* KWin has recorded itself before it can have a window, so the loop that tells the
\* client of the window takes the desktop for a nested KWin.
LEMMA LoopKeeps ==
    ASSUME JInv, DInv, StreamStarts \/ Poll \/ (\E p \in Program : WindowMaps(p)) \/ UNCHANGED inputVars
    PROVE  JInv'
<1> USE DEF JInv
<1>0. pidfile \in BOOLEAN /\ ("kwin" \in up => pidfile)
    BY DEF DInv, DShape, ScriptInv
<1>1. IShape'
    BY <1>0 DEF StreamStarts, Poll, WindowMaps
<1>2. UNCHANGED <<sent_as, held, input, down, mods, keymap, text>>
    BY DEF StreamStarts, Poll, WindowMaps
<1>3. KeysInv' /\ KeymapKept'
    BY <1>2 DEF KeysInv, KeymapKept, Released, Wanted, SentFor
<1>4. SeenInv'
    BY <1>0 DEF StreamStarts, Poll, WindowMaps, SeenInv, Recognised, Mapped
<1> QED BY <1>1, <1>3, <1>4

(***************************************************************************)
(* The chunks of a text.                                                   *)
(***************************************************************************)

\* A character put with the chunks is typed after them, and leaves room in each keymap.
Taken(s, c) == IF Typable(c) THEN Append(s, c) ELSE s
Room(chunk) == Cardinality(ToSet(chunk)) =< MAX_KEYS_PER_KEYMAP

LEMMA SetOfAppend ==
    ASSUME NEW T, NEW s \in Seq(T), NEW c \in T
    PROVE  ToSet(Append(s, c)) = ToSet(s) \cup {c} /\ IsFiniteSet(ToSet(s))
<1>1. ToSet(Append(s, c)) = ToSet(s) \cup {c}
    <2> DEFINE n == Len(s)
    <2>1. /\ DOMAIN s = 1 .. n /\ DOMAIN Append(s, c) = 1 .. n + 1 /\ n \in Nat
          /\ Append(s, c)[n + 1] = c /\ \A i \in 1 .. n : Append(s, c)[i] = s[i]
        OBVIOUS
    <2> HIDE DEF n
    <2>2. \A i \in 1 .. n + 1 : i \in 1 .. n \/ i = n + 1
        BY <2>1
    <2> QED BY <2>1, <2>2 DEF ToSet
<1>2. IsFiniteSet(ToSet(s))
    <2>1. ToSet(s) = {s[i] : i \in 1 .. Len(s)}
        BY DEF ToSet
    <2>2. IsFiniteSet(1 .. Len(s))
        BY FS_Interval
    <2> DEFINE f == [i \in 1 .. Len(s) |-> s[i]]
    <2>3. f \in Surjection(1 .. Len(s), ToSet(s))
        BY <2>1 DEF Surjection
    <2> QED BY <2>2, <2>3, FS_Surjection
<1> QED BY <1>1, <1>2

LEMMA PutFacts ==
    ASSUME NEW T, NEW chunks \in Seq(Seq(T)), NEW c \in T
    PROVE  /\ Put(chunks, c) \in Seq(Seq(T))
           /\ FlattenSeq(Put(chunks, c)) = Taken(FlattenSeq(chunks), c)
           /\ (\A j \in DOMAIN chunks : Room(chunks[j])) =>
                  \A j \in DOMAIN Put(chunks, c) : Room(Put(chunks, c)[j])
<1> DEFINE n == Len(chunks)
           last == Last(chunks)
           before == Front(chunks)
<1>1. CASE ~Typable(c)
    BY <1>1 DEF Put, Taken
<1>2. CASE Typable(c) /\ ~(chunks # <<>> /\ Fits(last, c))
    <2> DEFINE one == <<c>>
               more == Append(chunks, one)
    <2>0. one \in Seq(T) /\ Len(one) = 1 /\ one[1] = c /\ DOMAIN one = 1 .. 1
        OBVIOUS
    <2>1. Put(chunks, c) = more
        <3> HIDE DEF last
        <3> QED BY <1>2 DEF Put, Begun, last
    <2>2. FlattenSeq(chunks) \in Seq(T) /\ Append(FlattenSeq(chunks), c) = FlattenSeq(chunks) \o one
        <3>1. FlattenSeq(chunks) \in Seq(T)
            BY FlattenSeqLast, <2>0
        <3> QED BY <3>1, AppendIsConcat
    <2> HIDE DEF one
    <2>3. FlattenSeq(more) = FlattenSeq(chunks) \o one
        BY <2>0, FlattenSeqLast
    <2>4. Room(one)
        <3>1. ToSet(one) = {c}
            BY <2>0 DEF ToSet
        <3>2. Cardinality({c}) = 1
            BY FS_Singleton
        <3>3. 1 =< MAX_KEYS_PER_KEYMAP
            BY InputAssumption
        <3> QED BY <3>1, <3>2, <3>3 DEF Room
    <2>5. \A j \in 1 .. n + 1 : more[j] = IF j = n + 1 THEN one ELSE chunks[j]
        BY <2>0
    <2>6. more \in Seq(Seq(T)) /\ DOMAIN more = 1 .. n + 1 /\ DOMAIN chunks = 1 .. n /\ n \in Nat
        BY <2>0
    <2> HIDE DEF n, more, last
    <2>7. (\A j \in 1 .. n : Room(chunks[j])) => \A j \in 1 .. n + 1 : Room(more[j])
        BY <2>4, <2>5, <2>6
    <2>8. Taken(FlattenSeq(chunks), c) = Append(FlattenSeq(chunks), c)
        BY <1>2 DEF Taken
    <2> QED BY <2>1, <2>2, <2>3, <2>6, <2>7, <2>8
<1>3. CASE Typable(c) /\ chunks # <<>> /\ Fits(last, c)
    <2> DEFINE longer == Append(last, c)
    <2>0. n \in Nat \ {0} /\ DOMAIN chunks = 1 .. n /\ last = chunks[n] /\ before = SubSeq(chunks, 1, n - 1)
        BY <1>3 DEF Last, Front
    <2>1. /\ before \in Seq(Seq(T)) /\ last \in Seq(T) /\ longer \in Seq(T)
          /\ Len(before) = n - 1 /\ \A j \in 1 .. n - 1 : before[j] = chunks[j]
        BY <2>0
    <2>2. chunks = Append(before, last)
        <3> HIDE DEF before, last
        <3> QED BY <2>0, <2>1
    <2>3. Put(chunks, c) = Append(before, longer)
        BY <1>3 DEF Put, Longer
    <2> HIDE DEF before, last, longer
    <2>4. FlattenSeq(Append(before, last)) = FlattenSeq(before) \o last
          /\ FlattenSeq(Append(before, longer)) = FlattenSeq(before) \o longer
          /\ FlattenSeq(before) \in Seq(T)
        BY <2>1, FlattenSeqLast
    <2>5. FlattenSeq(before) \o longer = Append(FlattenSeq(before) \o last, c)
        <3> DEFINE one == <<c>>
        <3>0. one \in Seq(T)
            OBVIOUS
        <3>1. longer = last \o one
            BY <2>1, AppendIsConcat DEF longer
        <3>2. FlattenSeq(before) \o last \in Seq(T)
            BY <2>1, <2>4
        <3>3. Append(FlattenSeq(before) \o last, c) = (FlattenSeq(before) \o last) \o one
            BY <3>2, AppendIsConcat
        <3> HIDE DEF one
        <3>4. (FlattenSeq(before) \o last) \o one = FlattenSeq(before) \o (last \o one)
            <4> DEFINE a == FlattenSeq(before)
            <4>1. a \in Seq(T) /\ last \in Seq(T)
                BY <2>1, <2>4
            <4> HIDE DEF a
            <4>2. (a \o last) \o one = a \o (last \o one)
                BY <4>1, <3>0, ConcatAssociative
            <4> QED BY <4>2 DEF a
        <3> QED BY <2>4, <3>1, <3>3, <3>4
    <2>6. FlattenSeq(Put(chunks, c)) = Append(FlattenSeq(chunks), c)
        BY <2>2, <2>3, <2>4, <2>5
    <2>7. Room(last) => Room(longer)
        <3>1. ToSet(longer) = ToSet(last) \cup {c} /\ IsFiniteSet(ToSet(last))
            BY <2>1, SetOfAppend DEF longer
        <3>2. CASE c \in ToSet(last)
            <4> ToSet(longer) = ToSet(last)
                BY <3>1, <3>2
            <4> QED BY DEF Room
        <3>3. CASE c \notin ToSet(last)
            <4>1. Cardinality(ToSet(longer)) = Cardinality(ToSet(last)) + 1 /\ Cardinality(ToSet(last)) \in Nat
                BY <3>1, <3>3, FS_AddElement, FS_CardinalityType
            <4>2. Cardinality(ToSet(last)) < MAX_KEYS_PER_KEYMAP
                BY <1>3, <3>3 DEF Fits
            <4> QED BY <4>1, <4>2, InputAssumption DEF Room
        <3> QED BY <3>2, <3>3
    <2>8. /\ DOMAIN Append(before, longer) = 1 .. n
          /\ \A j \in 1 .. n : Append(before, longer)[j] = IF j = n THEN longer ELSE chunks[j]
        <3> HIDE DEF n
        <3> QED BY <2>0, <2>1
    <2>9. (\A j \in 1 .. n : Room(chunks[j])) => \A j \in 1 .. n : Room(Append(before, longer)[j])
        <3> HIDE DEF n
        <3> QED BY <2>0, <2>7, <2>8
    <2>10. Put(chunks, c) \in Seq(Seq(T))
        BY <2>1, <2>3
    <2>11. (\A j \in DOMAIN chunks : Room(chunks[j])) =>
                  \A j \in DOMAIN Put(chunks, c) : Room(Put(chunks, c)[j])
        <3> HIDE DEF n
        <3> QED BY <2>0, <2>3, <2>8, <2>9
    <2> QED BY <1>3, <2>6, <2>10, <2>11 DEF Taken
<1> QED BY <1>1, <1>2, <1>3

\* The functions that TypableOf and Chunks are defined with do what their definitions say.
Typing(t) ==
    CHOOSE f : f = [i \in 0 .. Len(t) |-> IF i = 0 THEN <<>> ELSE Taken(f[i - 1], t[i])]

LEMMA TypingDef ==
    ASSUME NEW T, NEW t \in Seq(T)
    PROVE  /\ Typing(t)[0] = <<>>
           /\ \A i \in 0 .. Len(t) : Typing(t)[i] \in Seq(T)
           /\ \A i \in 1 .. Len(t) : Typing(t)[i] = Taken(Typing(t)[i - 1], t[i])
<1> DEFINE n == Len(t)
           V == Seq(T)
           base == <<>>
           step == [i \in 1 .. n |-> [v \in V |-> Taken(v, t[i])]]
           h == Typing(t)
<1>1. n \in Nat /\ base \in V /\ \A i \in 1 .. n : t[i] \in T
    OBVIOUS
<1>2. AreSteps(step, n, V)
    <2>1. ASSUME NEW i \in 1 .. n, NEW v \in V PROVE Taken(v, t[i]) \in V
        BY <1>1 DEF Taken
    <2> HIDE DEF n, V
    <2> QED BY <2>1 DEF AreSteps
<1>3. PICK f : Tracks(f, base, step, n, V)
    <2> HIDE DEF base, step, n, V
    <2> QED BY <1>1, <1>2, Recursion
<1> HIDE DEF n, V
<1>4. /\ f \in [0 .. n -> V] /\ f[0] = base
      /\ \A i \in 1 .. n : f[i] = step[i][f[i - 1]]
    <2> HIDE DEF base, step
    <2> QED BY <1>3 DEF Tracks
<1>5. ASSUME NEW i \in 1 .. n PROVE f[i] = Taken(f[i - 1], t[i])
    <2> f[i - 1] \in V
        BY <1>1, <1>4
    <2> QED BY <1>4
<1> HIDE DEF base, step
<1>6. f = [i \in 0 .. n |-> IF i = 0 THEN base ELSE Taken(f[i - 1], t[i])]
    <2>1. f = [i \in 0 .. n |-> f[i]]
        BY <1>4
    <2>2. ASSUME NEW i \in 0 .. n PROVE f[i] = IF i = 0 THEN base ELSE Taken(f[i - 1], t[i])
        <3> i # 0 => i \in 1 .. n
            BY <1>1
        <3> QED BY <1>4, <1>5
    <2> QED BY <2>1, <2>2
<1>7. h = [i \in 0 .. n |-> IF i = 0 THEN base ELSE Taken(h[i - 1], t[i])]
    BY <1>6 DEF Typing, n, base
<1> HIDE DEF h
<1>8. /\ h[0] = base
      /\ \A i \in 1 .. n : h[i] = Taken(h[i - 1], t[i])
    BY <1>1, <1>7
<1>9. \A i \in 0 .. n : h[i] \in V
    <2> DEFINE S == {i \in Nat : i \in 0 .. n => h[i] \in V}
    <2>1. 0 \in S
        BY <1>1, <1>8
    <2>2. ASSUME NEW i \in S PROVE i + 1 \in S
        <3>0. i \in Nat /\ (i \in 0 .. n => h[i] \in V)
            OBVIOUS
        <3>1. SUFFICES ASSUME i + 1 \in 1 .. n PROVE h[i + 1] \in V
            BY <3>0
        <3>2. i \in 0 .. n /\ (i + 1) - 1 = i
            BY <1>1, <3>0, <3>1
        <3>3. h[i + 1] = Taken(h[i], t[i + 1])
            BY <1>8, <3>1, <3>2
        <3>4. Taken(h[i], t[i + 1]) = step[i + 1][h[i]]
            BY <3>0, <3>1, <3>2 DEF step
        <3>5. step[i + 1][h[i]] \in V
            BY <1>2, <3>0, <3>1, <3>2 DEF AreSteps
        <3> QED BY <3>3, <3>4, <3>5
    <2> HIDE DEF S
    <2>3. \A i \in Nat : i \in S
        BY <2>1, <2>2, Induction DEF S
    <2> QED BY <2>3, <1>1 DEF S
<1> QED BY <1>8, <1>9 DEF h, n, V, base

Chunking(t) ==
    CHOOSE f : f = [i \in 0 .. Len(t) |-> IF i = 0 THEN <<>> ELSE Put(f[i - 1], t[i])]

LEMMA ChunkingDef ==
    ASSUME NEW T, NEW t \in Seq(T)
    PROVE  /\ Chunking(t)[0] = <<>>
           /\ \A i \in 0 .. Len(t) : Chunking(t)[i] \in Seq(Seq(T))
           /\ \A i \in 1 .. Len(t) : Chunking(t)[i] = Put(Chunking(t)[i - 1], t[i])
<1> DEFINE n == Len(t)
           V == Seq(Seq(T))
           base == <<>>
           step == [i \in 1 .. n |-> [v \in V |-> Put(v, t[i])]]
           h == Chunking(t)
<1>1. n \in Nat /\ base \in V /\ \A i \in 1 .. n : t[i] \in T
    OBVIOUS
<1>2. AreSteps(step, n, V)
    <2>1. ASSUME NEW i \in 1 .. n, NEW v \in V PROVE Put(v, t[i]) \in V
        BY <1>1, PutFacts
    <2> HIDE DEF n, V
    <2> QED BY <2>1 DEF AreSteps
<1>3. PICK f : Tracks(f, base, step, n, V)
    <2> HIDE DEF base, step, n, V
    <2> QED BY <1>1, <1>2, Recursion
<1> HIDE DEF n, V
<1>4. /\ f \in [0 .. n -> V] /\ f[0] = base
      /\ \A i \in 1 .. n : f[i] = step[i][f[i - 1]]
    <2> HIDE DEF base, step
    <2> QED BY <1>3 DEF Tracks
<1>5. ASSUME NEW i \in 1 .. n PROVE f[i] = Put(f[i - 1], t[i])
    <2> f[i - 1] \in V
        BY <1>1, <1>4
    <2> QED BY <1>4
<1> HIDE DEF base, step
<1>6. f = [i \in 0 .. n |-> IF i = 0 THEN base ELSE Put(f[i - 1], t[i])]
    <2>1. f = [i \in 0 .. n |-> f[i]]
        BY <1>4
    <2>2. ASSUME NEW i \in 0 .. n PROVE f[i] = IF i = 0 THEN base ELSE Put(f[i - 1], t[i])
        <3> i # 0 => i \in 1 .. n
            BY <1>1
        <3> QED BY <1>4, <1>5
    <2> QED BY <2>1, <2>2
<1>7. h = [i \in 0 .. n |-> IF i = 0 THEN base ELSE Put(h[i - 1], t[i])]
    BY <1>6 DEF Chunking, n, base
<1> HIDE DEF h
<1>8. /\ h[0] = base
      /\ \A i \in 1 .. n : h[i] = Put(h[i - 1], t[i])
    BY <1>1, <1>7
<1>9. \A i \in 0 .. n : h[i] \in V
    <2> DEFINE S == {i \in Nat : i \in 0 .. n => h[i] \in V}
    <2>1. 0 \in S
        BY <1>1, <1>8
    <2>2. ASSUME NEW i \in S PROVE i + 1 \in S
        <3>0. i \in Nat /\ (i \in 0 .. n => h[i] \in V)
            OBVIOUS
        <3>1. SUFFICES ASSUME i + 1 \in 1 .. n PROVE h[i + 1] \in V
            BY <3>0
        <3>2. i \in 0 .. n /\ (i + 1) - 1 = i
            BY <1>1, <3>0, <3>1
        <3>3. h[i + 1] = Put(h[i], t[i + 1])
            BY <1>8, <3>1, <3>2
        <3>4. Put(h[i], t[i + 1]) = step[i + 1][h[i]]
            BY <3>0, <3>1, <3>2 DEF step
        <3>5. step[i + 1][h[i]] \in V
            BY <1>2, <3>0, <3>1, <3>2 DEF AreSteps
        <3> QED BY <3>3, <3>4, <3>5
    <2> HIDE DEF S
    <2>3. \A i \in Nat : i \in S
        BY <2>1, <2>2, Induction DEF S
    <2> QED BY <2>3, <1>1 DEF S
<1> QED BY <1>8, <1>9 DEF h, n, V, base

\* What is typed of a text is all of it that can be typed, chunk after chunk, and every
\* chunk has room in a keymap.
LEMMA ChunksWhole ==
    ASSUME NEW T, NEW t \in Seq(T)
    PROVE  /\ TypableOf(t) \in Seq(T) /\ FlattenSeq(Chunks(t)) = TypableOf(t)
           /\ \A j \in DOMAIN Chunks(t) : Room(Chunks(t)[j])
<1> DEFINE n == Len(t)
           k == Typing(t)
           c == Chunking(t)
           Whole(i) == FlattenSeq(c[i]) = k[i] /\ \A j \in DOMAIN c[i] : Room(c[i][j])
           S == {i \in Nat : i \in 0 .. n => Whole(i)}
<1>0. n \in Nat /\ \A i \in 1 .. n : t[i] \in T
    OBVIOUS
<1>1. TypableOf(t) = k[n]
    BY DEF TypableOf, Typing, Taken
<1>2. Chunks(t) = c[n]
    BY DEF Chunks, Chunking
<1>3. /\ k[0] = <<>> /\ \A i \in 0 .. n : k[i] \in Seq(T)
      /\ \A i \in 1 .. n : k[i] = Taken(k[i - 1], t[i])
    BY TypingDef
<1>4. /\ c[0] = <<>> /\ \A i \in 0 .. n : c[i] \in Seq(Seq(T))
      /\ \A i \in 1 .. n : c[i] = Put(c[i - 1], t[i])
    BY ChunkingDef
<1> HIDE DEF k, c, n
<1>5. 0 \in S
    <2>1. FlattenSeq(<<>>) = <<>>
        BY DEF FlattenSeq
    <2>2. DOMAIN c[0] = {}
        BY <1>4
    <2> QED BY <1>3, <1>4, <2>1, <2>2
<1>6. ASSUME NEW i \in S PROVE i + 1 \in S
    <2>0. i \in Nat /\ (i \in 0 .. n => Whole(i))
        OBVIOUS
    <2> HIDE DEF Whole
    <2>1. SUFFICES ASSUME i + 1 \in 1 .. n PROVE Whole(i + 1)
        BY <2>0
    <2>2. i \in 0 .. n /\ (i + 1) - 1 = i /\ Whole(i)
        BY <1>0, <2>0, <2>1
    <2>3. c[i + 1] = Put(c[i], t[i + 1]) /\ k[i + 1] = Taken(k[i], t[i + 1]) /\ t[i + 1] \in T /\ c[i] \in Seq(Seq(T))
        BY <1>0, <1>3, <1>4, <2>1, <2>2
    <2>4. /\ FlattenSeq(Put(c[i], t[i + 1])) = Taken(FlattenSeq(c[i]), t[i + 1])
          /\ (\A j \in DOMAIN c[i] : Room(c[i][j])) =>
                 \A j \in DOMAIN Put(c[i], t[i + 1]) : Room(Put(c[i], t[i + 1])[j])
        <3>1. t[i + 1] \in T /\ c[i] \in Seq(Seq(T))
            BY <2>3
        <3> HIDE <2>3
        <3> QED BY <3>1, PutFacts
    <2> QED BY <2>2, <2>3, <2>4 DEF Whole
<1> HIDE DEF S
<1>7. \A i \in Nat : i \in S
    BY <1>5, <1>6, Induction DEF S
<1>8. n \in 0 .. n /\ n \in S
    BY <1>0, <1>7
<1> QED BY <1>1, <1>2, <1>3, <1>8 DEF S

\* A beginning of a sequence is a prefix of it.
LEMMA BeginningIsPrefix ==
    ASSUME NEW T, NEW w \in Seq(T), NEW m \in 0 .. Len(w)
    PROVE  IsPrefix(SubSeq(w, 1, m), w) /\ (m = Len(w) => SubSeq(w, 1, m) = w)
<1> DEFINE b == SubSeq(w, 1, m)
<1>1. b \in Seq(T) /\ Len(b) = m /\ \A i \in 1 .. m : b[i] = w[i]
    OBVIOUS
<1>2. SubSeq(b, 1, m) = b
    BY <1>1, SubSeqFull
<1>3. SubSeq(b, 1, Len(b)) = SubSeq(w, 1, Len(b)) /\ Len(b) =< Len(w)
    BY <1>1, <1>2
<1>4. IsPrefix(b, w)
    <2> HIDE DEF b
    <2> QED BY <1>3 DEF IsPrefix
<1> QED BY <1>4, SubSeqFull

\* What is typed is a beginning of what can be.
LEMMA TextKept ==
    ASSUME JInv, TextInv, [NextSession]_vars
    PROVE  TextInv'
<1>1. CASE InjectText
    <2> DEFINE t == Head(input).text
               w == FlattenSeq(Chunks(t))
    <2>1. t \in Seq(STRING)
        <3>1. Head(input) \in KeyCommand \cup TextCommand /\ Head(input).is = "text"
            BY <1>1 DEF JInv, IShape, InjectText
        <3>2. Head(input) \in TextCommand
            BY <3>1 DEF KeyCommand
        <3> QED BY <3>2, InputAssumption DEF TextCommand
    <2>2. w = TypableOf(t) /\ w \in Seq(STRING)
        BY <2>1, ChunksWhole
    <2>3. PICK m \in 0 .. Len(w), restored \in BOOLEAN :
              text' = [asked |-> t, typed |-> SubSeq(w, 1, m), whole |-> m = Len(w), restored |-> restored]
        BY <1>1 DEF InjectText, Typed
    <2> HIDE DEF t, w
    <2>4. IsPrefix(SubSeq(w, 1, m), w) /\ (m = Len(w) => SubSeq(w, 1, m) = w)
        BY <2>2, BeginningIsPrefix
    <2>5. text'.asked = t /\ text'.typed = SubSeq(w, 1, m) /\ text'.whole = (m = Len(w))
        BY <2>3
    <2> QED BY <2>2, <2>4, <2>5 DEF TextInv
<1>2. CASE UNCHANGED text
    BY <1>2 DEF TextInv
<1>3. InjectText \/ UNCHANGED text
    BY DEF NextSession, InputStep, vars, StreamStarts, Poll, InjectKey, WindowMaps, KeyEvent, TextInput
<1> QED BY <1>1, <1>2, <1>3

\* The initial states satisfy the invariant.
LEMMA InitKeeps == InitSession => IInv
<1> SUFFICES ASSUME InitSession PROVE IInv
    OBVIOUS
<1> USE DEF InitSession, Init, InitInput
<1>1. DInv
    <2>1. DShape
        <3>1. cred \in [groups : {"server", "user"}, gid : {"server", "user"}, uid : {"server", "user"}]
            BY DEF Server
        <3>2. /\ host \in Hosts /\ desktop = "none" /\ launch = "choose" /\ rundir \in {"none", "user"}
              /\ up = {} /\ told = {} /\ aborted = {} /\ script = "none" /\ ~trap /\ ~pidfile
              /\ trap \in BOOLEAN /\ pidfile \in BOOLEAN /\ ends = 0 /\ crashes = 0
            OBVIOUS
        <3> HIDE DEF InitSession, Init, InitInput
        <3> QED BY <3>1, <3>2, DesktopAssumption DEF DShape
    <2>2. LaunchInv
        BY DEF LaunchInv, Launched
    <2>3. ScriptInv /\ OrderInv
        BY DEF ScriptInv, OrderInv, Lines
    <2> QED BY <2>1, <2>2, <2>3 DEF DInv
<1>2. IShape
    <2>1. input \in Seq(KeyCommand \cup TextCommand)
        OBVIOUS
    <2> QED BY <2>1
<1>3. KeysInv /\ SeenInv /\ KeymapKept
    BY DEF KeysInv, Released, SeenInv, Recognised, KeymapKept
<1>4. TextInv
    <2>1. <<>> \in Seq(STRING) /\ text.asked = <<>> /\ text.typed = <<>>
        OBVIOUS
    <2> HIDE DEF InitSession, Init, InitInput
    <2>2. TypableOf(<<>>) = <<>>
        <3>1. Typing(<<>>)[0] = <<>>
            BY <2>1, TypingDef
        <3> QED BY <3>1 DEF TypableOf, Typing, Taken
    <2>3. IsPrefix(<<>>, <<>>)
        BY DEF IsPrefix
    <2> QED BY <2>1, <2>2, <2>3 DEF TextInv
<1> QED BY <1>1, <1>2, <1>3, <1>4 DEF IInv, JInv

\* The invariant holds in every behaviour.
THEOREM SessionInvariance == Spec => []IInv
<1>1. IInv /\ [NextSession]_vars => IInv'
    BY DesktopKept, KeyEventKeeps, TextInputKeeps, InjectKeyKeeps, InjectTextKeeps, LoopKeeps, TextKept
       DEF IInv, NextSession, InputStep, vars
<1> QED BY InitKeeps, <1>1, PTL DEF Spec

\* A desktop runs as whom it is for, is recognised as a nested KWin exactly when it is
\* one, and is taken down in order: for every host, and any number of requests to end
\* it and of crashes.
THEOREM DesktopIsSafe == Spec => []DesktopSafety
<1>1. DInv => DesktopSafety
    <2> SUFFICES ASSUME DInv PROVE DesktopSafety
        OBVIOUS
    <2>1. DesktopTypeOK
        BY DEF DInv, DShape, DesktopTypeOK
    <2>2. Isolated
        BY DEF DInv, LaunchInv, Isolated, Launched
    <2>3. RecordedFirst /\ NothingLeft
        BY DEF DInv, ScriptInv, RecordedFirst, NothingLeft
    <2>4. Orderly
        BY DEF DInv, OrderInv, Undisturbed, Orderly
    <2> QED BY <2>1, <2>2, <2>3, <2>4 DEF DesktopSafety
<1> QED BY SessionInvariance, <1>1, PTL DEF IInv

\* No key stays down that the user has let go, for any keys and any order of presses,
\* releases, texts and changes of the desktop; KWin's window is not told of before the
\* desktop is taken for one; and the keymap of the keys comes back after a text.
THEOREM KeyboardIsKept == Spec => [](InputTypeOK /\ NoStuckKey /\ Recognised /\ KeymapKept)
<1>1. JInv => InputTypeOK /\ Recognised /\ KeymapKept
    BY DEF JInv, SeenInv
<1>2. JInv => NoStuckKey
    <2> SUFFICES ASSUME JInv, input = <<>>
                 PROVE  down \subseteq Wanted /\ mods \subseteq {ModifierOf(k) : k \in down}
        BY DEF NoStuckKey, Wanted
    <2>1. \A v \in Key : Released(v) => v \notin down
        BY DEF Released
    <2> QED BY <2>1 DEF JInv, KeysInv
<1> QED BY SessionInvariance, <1>1, <1>2, PTL DEF IInv

\* A text is cut into chunks that each have room in a keymap, for any texts and any size
\* of keymap, and what is typed is a beginning of what can be typed of it, in order: all
\* of it when no key failed.
THEOREM TextIsWhole == Spec => []TextWhole
<1>1. \A t \in Texts : \A i \in DOMAIN Chunks(t) : Room(Chunks(t)[i])
    BY ChunksWhole, InputAssumption
<1>2. TextInv => TextWhole
    BY <1>1 DEF TextInv, TextWhole, Room
<1> QED BY SessionInvariance, <1>2, PTL DEF IInv

\* The safety of the input as a whole, for every host, keys, texts and size of keymap, and
\* for any order of messages, polls, crashes and failures.
THEOREM InputIsSafe == Spec => []InputSafety
BY KeyboardIsKept, TextIsWhole, PTL DEF InputSafety
===============================================================================
