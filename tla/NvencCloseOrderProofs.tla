----------------------- MODULE NvencCloseOrderProofs -----------------------
(***************************************************************************)
(* Proofs about NvencCloseOrder, for any set of encoders: the order is     *)
(* kept, nothing is closed young, and nothing is left behind.              *)
(*                                                                         *)
(* The inductive invariant says where an encoder is: while it is used or   *)
(* being dropped it has an entry in the order; once dropped it has an      *)
(* entry that waits, or is among those the holder of the mutex has still   *)
(* to close, which are all newer than every entry left, newest first.  And *)
(* the last entry never waits.                                             *)
(***************************************************************************)
EXTENDS NvencCloseOrder, TLAPS

\* An entry belongs to an encoder that is open, and waits once it is dropped.
EntriesTrue ==
    \A i \in 1..Len(open) :
        /\ open[i].seq = nvenc_seq[open[i].encoder]
        /\ IF open[i].waiting THEN stage[open[i].encoder] = "dropped"
                              ELSE stage[open[i].encoder] \in {"used", "dropping"}

\* Every encoder that is open has an entry, or is about to be closed.
AllAccounted ==
    \A e \in Encoder :
        /\ stage[e] \in {"used", "dropping"} => \E i \in 1..Len(open) : open[i].encoder = e
        /\ stage[e] = "dropped" => \/ \E i \in 1..Len(open) : open[i].encoder = e
                                   \/ \E j \in 1..Len(close) : close[j] = e

\* What is about to be closed is newer than all that stays, and newest first.
CloseNewer ==
    /\ \A j \in 1..Len(close) :
        /\ stage[close[j]] = "dropped"
        /\ \A i \in 1..Len(open) : open[i].seq < nvenc_seq[close[j]]
    /\ \A j, k \in 1..Len(close) : j < k => nvenc_seq[close[k]] < nvenc_seq[close[j]]

\* The newest entry is in use.
LastInUse == Len(open) > 0 => ~open[Len(open)].waiting

\* Only the holder of the mutex closes, and only what is old enough.
HolderCloses ==
    /\ lock = NoEncoder => close = <<>>
    /\ \A e \in young : stage[e] # "dropped"

IInv == TypeOK /\ EntriesTrue /\ AllAccounted /\ CloseNewer /\ LastInUse /\ HolderCloses

\* The fields of an entry have their types.
LEMMA EntryTypes ==
    ASSUME TypeOK
    PROVE  \A i \in 1..Len(open) :
            /\ open[i] \in Entry
            /\ open[i].seq \in Nat /\ open[i].encoder \in Encoder
            /\ open[i].waiting \in BOOLEAN
<1>1. \A i \in 1..Len(open) : open[i] \in Entry
  BY DEF TypeOK
<1> QED BY <1>1 DEF Entry

\* Marking an encoder in the order sets the flag of its own entry, and nothing
\* else (the find in CloseOrder::dropped).
LEMMA MarkedIsOwn ==
    ASSUME IInv, NEW e \in Encoder, stage[e] = "dropping"
    PROVE  /\ Marked(e) \in Seq(Entry) /\ Len(Marked(e)) = Len(open)
           /\ \A i \in 1..Len(open) :
                /\ Marked(e)[i].seq = open[i].seq
                /\ Marked(e)[i].encoder = open[i].encoder
                /\ Marked(e)[i].waiting = (open[i].waiting \/ open[i].encoder = e)
<1>1. PICK k \in 1..Len(open) : open[k].encoder = e
  BY DEF IInv, AllAccounted
<1>2. open[k].seq = nvenc_seq[e]
  BY <1>1 DEF IInv, EntriesTrue
<1>3. ASSUME NEW i \in 1..Len(open) PROVE open[i].seq = nvenc_seq[e] <=> open[i].encoder = e
  <2>1. open[i].encoder = e => open[i].seq = nvenc_seq[e]
    BY DEF IInv, EntriesTrue
  <2>2. /\ i < k => open[i].seq < open[k].seq
        /\ k < i => open[k].seq < open[i].seq
    BY DEF IInv, TypeOK
  <2>3. i \in Int /\ k \in Int /\ open[i].seq \in Nat /\ open[k].seq \in Nat
    BY EntryTypes DEF IInv
  <2>4. open[i].seq = nvenc_seq[e] => i = k
    BY <1>2, <2>2, <2>3
  <2> QED BY <2>1, <2>4, <1>1
<1>4. \A i \in 1..Len(open) : open[i] \in Entry
  BY EntryTypes DEF IInv
<1>5. Marked(e) \in Seq(Entry) /\ Len(Marked(e)) = Len(open)
  <2>1. \A i \in 1..Len(open) : [open[i] EXCEPT !.waiting = TRUE] \in Entry
    BY <1>4 DEF Entry
  <2>2. Marked(e) \in [1..Len(open) -> Entry]
    BY <1>4, <2>1 DEF Marked
  <2>3. Len(open) \in Nat
    BY DEF IInv, TypeOK
  <2> QED BY <2>2, <2>3
<1>6. ASSUME NEW i \in 1..Len(open)
      PROVE  /\ Marked(e)[i].seq = open[i].seq
             /\ Marked(e)[i].encoder = open[i].encoder
             /\ Marked(e)[i].waiting = (open[i].waiting \/ open[i].encoder = e)
  <2>1. open[i] \in [seq : Nat, encoder : Encoder, waiting : BOOLEAN]
    BY <1>4 DEF Entry
  <2>2. CASE open[i].encoder = e
    <3>1. Marked(e)[i] = [open[i] EXCEPT !.waiting = TRUE]
      BY <1>3, <2>2 DEF Marked
    <3> QED BY <3>1, <2>1, <2>2
  <2>3. CASE open[i].encoder # e
    <3>1. Marked(e)[i] = open[i]
      BY <1>3, <2>3 DEF Marked
    <3> QED BY <3>1, <2>1, <2>3
  <2> QED BY <2>2, <2>3
<1> QED BY <1>5, <1>6

\* OpenWith and Opened keep the invariant: the new entry is the newest.
LEMMA OpeningKeeps ==
    ASSUME IInv, NEW e \in Encoder, OpenWith(e) \/ Opened(e)
    PROVE  IInv'
<1>1. CASE OpenWith(e)
  <2>1. /\ stage[e] = "unopened" /\ stage' = [stage EXCEPT ![e] = "opened"]
        /\ stage \in [Encoder -> Stages] /\ stage' \in [Encoder -> Stages]
        /\ UNCHANGED <<nvenc_seq, open, next, lock, close>>
    BY <1>1 DEF IInv, TypeOK, OpenWith, Stages
  <2>2. \A f \in Encoder : f # e => stage'[f] = stage[f]
    BY <2>1
  <2>3. TypeOK'
    <3>1. young' \subseteq Encoder /\ driver' \in Seq(Encoder)
      BY <1>1 DEF IInv, TypeOK, OpenWith
    <3> QED BY <2>1, <3>1 DEF IInv, TypeOK
  <2>4. EntriesTrue'
    BY <1>1, <2>1, <2>2, EntryTypes DEF IInv, EntriesTrue, OpenWith
  <2>5. AllAccounted'
    BY <2>1, <2>2 DEF IInv, AllAccounted
  <2>6. CloseNewer'
    BY <2>1, <2>2 DEF IInv, TypeOK, CloseNewer
  <2>7. LastInUse' /\ HolderCloses'
    <3>1. young' = young \cup {e} /\ stage'[e] = "opened"
      BY <1>1, <2>1 DEF OpenWith
    <3>2. \A f \in young' : stage'[f] # "dropped"
      BY <2>2, <3>1 DEF IInv, TypeOK, HolderCloses
    <3> QED BY <2>1, <3>2 DEF IInv, LastInUse, HolderCloses
  <2> QED BY <2>3, <2>4, <2>5, <2>6, <2>7 DEF IInv
<1>2. CASE Opened(e)
  <2> DEFINE new == [seq |-> next, encoder |-> e, waiting |-> FALSE]
  <2>1. new \in Entry
    BY DEF IInv, TypeOK, Entry
  <2>2. /\ open' = Append(open, new) /\ open' \in Seq(Entry)
        /\ Len(open') = Len(open) + 1 /\ open'[Len(open) + 1] = new
        /\ \A i \in 1..Len(open) : open'[i] = open[i]
        /\ Len(open) \in Nat
    BY <1>2, <2>1 DEF IInv, TypeOK, Opened
  <2>3. /\ close = <<>> /\ close' = <<>> /\ Len(close') = 0
    BY <1>2 DEF IInv, HolderCloses, Opened
  <2>4. \A i \in 1..Len(open) : open[i].encoder # e
    BY <1>2 DEF IInv, EntriesTrue, Opened
  <2>5. \A i \in 1..Len(open) : open[i] \in Entry
    BY DEF IInv, TypeOK
  <2>6. TypeOK'
    <3>1. /\ stage' \in [Encoder -> Stages] /\ nvenc_seq' \in [Encoder -> Nat]
          /\ next \in Nat /\ next' \in Nat /\ next' = next + 1
      BY <1>2 DEF IInv, TypeOK, Opened, Stages
    <3>2. UNCHANGED <<young, lock, close, driver>>
      BY <1>2 DEF Opened
    <3>3. \A i \in 1..Len(open) : open[i].seq < next /\ open[i].seq \in Nat
      BY EntryTypes DEF IInv, TypeOK
    <3>4. \A i \in 1..Len(open') : open'[i].seq < next'
      <4> SUFFICES ASSUME NEW i \in 1..Len(open') PROVE open'[i].seq < next'
        OBVIOUS
      <4>1. CASE i \in 1..Len(open)
        <5>1. open'[i] = open[i] /\ open[i].seq < next /\ open[i].seq \in Nat
          BY <4>1, <2>2, <3>3
        <5> QED BY <5>1, <3>1
      <4>2. CASE i = Len(open) + 1 BY <4>2, <2>2, <3>1 DEF IInv, TypeOK
      <4> QED BY <4>1, <4>2, <2>2
    <3>5. \A i, j \in 1..Len(open') : i < j => open'[i].seq < open'[j].seq
      <4> SUFFICES ASSUME NEW i \in 1..Len(open'), NEW j \in 1..Len(open'), i < j
                   PROVE  open'[i].seq < open'[j].seq
        OBVIOUS
      <4>1. i \in 1..Len(open)
        <5>1. Len(open') = Len(open) + 1 /\ Len(open) \in Nat BY <2>2
        <5> QED BY <5>1
      <4>2. CASE j \in 1..Len(open) BY <4>1, <4>2, <2>2 DEF IInv, TypeOK
      <4>3. CASE j = Len(open) + 1 BY <4>1, <4>3, <2>2, <3>3
      <4> QED BY <4>2, <4>3, <2>2
    <3> QED BY <2>2, <3>1, <3>2, <3>4, <3>5 DEF IInv, TypeOK
  <2>7. EntriesTrue'
    <3>1. /\ stage'[e] = "used" /\ nvenc_seq'[e] = next
          /\ \A f \in Encoder : f # e => stage'[f] = stage[f] /\ nvenc_seq'[f] = nvenc_seq[f]
      BY <1>2 DEF IInv, TypeOK, Opened
    <3>2. \A i \in 1..Len(open) : open[i].encoder \in Encoder /\ open[i].encoder # e
      BY <2>4, EntryTypes DEF IInv
    <3> SUFFICES ASSUME NEW i \in 1..Len(open')
                 PROVE  /\ open'[i].seq = nvenc_seq'[open'[i].encoder]
                        /\ IF open'[i].waiting
                           THEN stage'[open'[i].encoder] = "dropped"
                           ELSE stage'[open'[i].encoder] \in {"used", "dropping"}
      BY DEF EntriesTrue
    <3>3. CASE i \in 1..Len(open)
      <4>1. open'[i] = open[i] BY <3>3, <2>2
      <4>2. /\ stage'[open[i].encoder] = stage[open[i].encoder]
            /\ nvenc_seq'[open[i].encoder] = nvenc_seq[open[i].encoder]
        BY <3>1, <3>2, <3>3
      <4> QED BY <3>3, <4>1, <4>2 DEF IInv, EntriesTrue
    <3>4. CASE i = Len(open) + 1
      BY <3>1, <3>4, <2>2
    <3> QED BY <3>3, <3>4, <2>2
  <2>8. AllAccounted'
    <3> SUFFICES ASSUME NEW f \in Encoder, stage'[f] \in {"used", "dropping", "dropped"}
                 PROVE  \E i \in 1..Len(open') : open'[i].encoder = f
      BY <2>3 DEF AllAccounted
    <3>1. CASE f = e
      BY <3>1, <2>2
    <3>2. CASE f # e
      <4>1. stage[f] \in {"used", "dropping", "dropped"}
        BY <1>2, <3>2 DEF IInv, TypeOK, Opened
      <4>2. PICK i \in 1..Len(open) : open[i].encoder = f
        BY <4>1, <2>3 DEF IInv, AllAccounted
      <4> QED BY <4>2, <2>2
    <3> QED BY <3>1, <3>2
  <2>9. CloseNewer'
    BY <2>3 DEF CloseNewer
  <2>10. LastInUse'
    BY <2>2 DEF LastInUse
  <2>11. HolderCloses'
    BY <1>2, <2>3 DEF IInv, TypeOK, HolderCloses, Opened
  <2> QED BY <2>6, <2>7, <2>8, <2>9, <2>10, <2>11 DEF IInv
<1> QED BY <1>1, <1>2

\* Dropping an encoder keeps the invariant: what is taken off the order is its
\* newest part, and the part that is kept ends with one in use.
LEMMA DroppedKeeps ==
    ASSUME IInv, NEW e \in Encoder, Dropped(e)
    PROVE  IInv'
<1>1. /\ stage[e] = "dropping" /\ e \notin young /\ lock = NoEncoder /\ lock' = e
      /\ stage' = [stage EXCEPT ![e] = "dropped"]
      /\ UNCHANGED <<young, nvenc_seq, next, driver>>
  BY DEF Dropped
<1> DEFINE M == Marked(e)
<1>2. PICK n \in 0..Len(open) :
        /\ IsKept(M, n)
        /\ open' = SubSeq(M, 1, n)
        /\ close' = [i \in 1 .. Len(open) - n |-> open[Len(open) + 1 - i].encoder]
  BY DEF Dropped
<1>3. /\ M \in Seq(Entry) /\ Len(M) = Len(open)
      /\ \A i \in 1..Len(open) : /\ M[i].seq = open[i].seq
                                 /\ M[i].encoder = open[i].encoder
                                 /\ M[i].waiting = (open[i].waiting \/ open[i].encoder = e)
  BY <1>1, MarkedIsOwn
<1>4. \A i \in n + 1 .. Len(open) : M[i].waiting
  BY <1>2, <1>3 DEF IsKept
<1>5. n > 0 => ~M[n].waiting
  BY <1>2 DEF IsKept
<1> HIDE DEF M
<1>6. /\ Len(open) \in Nat /\ n \in Nat /\ n <= Len(open)
      /\ open' \in Seq(Entry) /\ Len(open') = n
      /\ \A i \in 1..n : open'[i] = M[i]
  <2>1. Len(open) \in Nat
    BY DEF IInv, TypeOK
  <2> QED BY <1>2, <1>3, <2>1
<1>7. \A i \in 1..Len(open) : open[i] \in Entry /\ open[i].encoder \in Encoder
  BY EntryTypes DEF IInv
<1>8. /\ close' \in Seq(Encoder) /\ Len(close') = Len(open) - n
      /\ \A j \in 1 .. Len(open) - n : close'[j] = open[Len(open) + 1 - j].encoder
  <2>1. \A j \in 1 .. Len(open) - n : open[Len(open) + 1 - j].encoder \in Encoder
    BY <1>6, <1>7
  <2>2. close' \in [1 .. Len(open) - n -> Encoder]
    BY <1>2, <2>1
  <2>3. Len(open) - n \in Nat
    BY <1>6
  <2>4. close' \in Seq(Encoder) /\ Len(close') = Len(open) - n
    BY <2>2, <2>3
  <2> QED BY <1>2, <2>4
<1>9. \A i \in 1..Len(open) : M[i].waiting => stage'[open[i].encoder] = "dropped"
  BY <1>1, <1>3, <1>7 DEF IInv, TypeOK, EntriesTrue
<1>10. \A i \in 1..Len(open) :
        ~M[i].waiting => stage'[open[i].encoder] \in {"used", "dropping"}
  BY <1>1, <1>3, <1>7 DEF IInv, TypeOK, EntriesTrue
<1>11. TypeOK'
  <2>1. \A i \in 1..n : open'[i].seq = open[i].seq
    BY <1>3, <1>6
  <2>2. \A i \in 1..Len(open') : open'[i].seq < next'
    <3> SUFFICES ASSUME NEW i \in 1..n PROVE open[i].seq < next
      BY <1>1, <1>6, <2>1
    <3>1. i \in 1..Len(open)
      BY <1>6
    <3> QED BY <3>1 DEF IInv, TypeOK
  <2>3. \A i, j \in 1..Len(open') : i < j => open'[i].seq < open'[j].seq
    <3> SUFFICES ASSUME NEW i \in 1..n, NEW j \in 1..n, i < j
                 PROVE  open[i].seq < open[j].seq
      BY <1>6, <2>1
    <3>1. i \in 1..Len(open) /\ j \in 1..Len(open)
      BY <1>6
    <3> QED BY <3>1 DEF IInv, TypeOK
  <2> QED BY <1>1, <1>6, <1>8, <2>2, <2>3 DEF IInv, TypeOK, Stages
<1>12. EntriesTrue'
  BY <1>1, <1>3, <1>6, <1>9, <1>10 DEF IInv, EntriesTrue
<1>13. AllAccounted'
  <2> SUFFICES ASSUME NEW f \in Encoder, stage'[f] \in {"used", "dropping", "dropped"}
               PROVE  /\ \/ \E i \in 1..Len(open') : open'[i].encoder = f
                         \/ \E j \in 1..Len(close') : close'[j] = f
                      /\ stage'[f] # "dropped" => \E i \in 1..Len(open') : open'[i].encoder = f
    BY DEF AllAccounted
  <2>1. stage[f] \in {"used", "dropping", "dropped"}
    BY <1>1 DEF IInv, TypeOK
  <2>2. close = <<>>
    BY <1>1 DEF IInv, HolderCloses
  <2>3. PICK i \in 1..Len(open) : open[i].encoder = f
    BY <2>1, <2>2 DEF IInv, AllAccounted
  <2>4. CASE i <= n
    BY <2>3, <2>4, <1>3, <1>6
  <2>5. CASE i > n
    <3>1. stage'[f] = "dropped"
      BY <2>3, <2>5, <1>4, <1>6, <1>9
    <3>2. /\ Len(open) + 1 - i \in 1..Len(close')
          /\ close'[Len(open) + 1 - i] = open[Len(open) + 1 - (Len(open) + 1 - i)].encoder
      <4> DEFINE j == Len(open) + 1 - i
      <4>1. j \in 1 .. Len(open) - n
        BY <2>5, <1>6
      <4> HIDE DEF j
      <4>2. j \in 1..Len(close') /\ close'[j] = open[Len(open) + 1 - j].encoder
        BY <4>1, <1>8
      <4> QED BY <4>2 DEF j
    <3>3. Len(open) + 1 - (Len(open) + 1 - i) = i
      BY <1>6
    <3> QED BY <3>1, <3>2, <3>3, <2>3
  <2> QED BY <2>4, <2>5, <1>6
<1>14. CloseNewer'
  <2>1. ASSUME NEW j \in 1..Len(close')
        PROVE  /\ Len(open) + 1 - j \in n + 1 .. Len(open)
               /\ close'[j] = open[Len(open) + 1 - j].encoder
               /\ nvenc_seq'[close'[j]] = open[Len(open) + 1 - j].seq
    <3>1. Len(open) + 1 - j \in n + 1 .. Len(open) /\ Len(open) + 1 - j \in 1..Len(open)
      BY <1>6, <1>8
    <3>2. close'[j] = open[Len(open) + 1 - j].encoder
      BY <1>8
    <3> QED BY <1>1, <3>1, <3>2 DEF IInv, EntriesTrue
  <2>2. ASSUME NEW j \in 1..Len(close') PROVE stage'[close'[j]] = "dropped"
    <3> DEFINE i == Len(open) + 1 - j
    <3>1. i \in n + 1 .. Len(open) /\ i \in 1..Len(open) /\ close'[j] = open[i].encoder
      BY <2>1, <1>6
    <3> HIDE DEF i
    <3>2. M[i].waiting
      BY <3>1, <1>4
    <3> QED BY <3>1, <3>2, <1>9
  <2>3. ASSUME NEW j \in 1..Len(close'), NEW i \in 1..Len(open')
        PROVE  open'[i].seq < nvenc_seq'[close'[j]]
    <3>1. i \in 1..Len(open) /\ i <= n /\ n \in Nat /\ Len(open) \in Nat
      BY <1>6
    <3>2. Len(open) + 1 - j \in n + 1 .. Len(open)
          /\ nvenc_seq'[close'[j]] = open[Len(open) + 1 - j].seq
      BY <2>1
    <3>3. i < Len(open) + 1 - j /\ Len(open) + 1 - j \in 1..Len(open)
      BY <3>1, <3>2
    <3>4. open'[i].seq = open[i].seq
      BY <3>1, <1>3, <1>6
    <3>5. open[i].seq < open[Len(open) + 1 - j].seq
      BY <3>1, <3>3 DEF IInv, TypeOK
    <3> QED BY <3>2, <3>4, <3>5
  <2>4. ASSUME NEW j \in 1..Len(close'), NEW k \in 1..Len(close'), j < k
        PROVE  nvenc_seq'[close'[k]] < nvenc_seq'[close'[j]]
    <3>1. /\ Len(open) + 1 - k < Len(open) + 1 - j
          /\ Len(open) + 1 - k \in 1..Len(open) /\ Len(open) + 1 - j \in 1..Len(open)
      BY <2>1, <2>4, <1>6
    <3> QED BY <2>1, <3>1 DEF IInv, TypeOK
  <2> QED BY <2>2, <2>3, <2>4 DEF CloseNewer
<1>15. LastInUse'
  BY <1>5, <1>6 DEF LastInUse
<1>16. HolderCloses'
  BY <1>1, EncoderAssumption DEF IInv, TypeOK, HolderCloses
<1> QED BY <1>11, <1>12, <1>13, <1>14, <1>15, <1>16 DEF IInv

\* Closing the next encoder and releasing the mutex keep the invariant.
LEMMA ClosingKeeps ==
    ASSUME IInv, NEW e \in Encoder, CloseNext(e) \/ Unlock(e)
    PROVE  IInv'
<1>1. CASE CloseNext(e)
  <2> DEFINE h == Head(close)
  <2>1. /\ h \in Encoder /\ h = close[1] /\ Len(close) \in Nat /\ Len(close) >= 1
        /\ close' \in Seq(Encoder) /\ Len(close') = Len(close) - 1
        /\ \A j \in 1..Len(close') : close'[j] = close[j + 1] /\ close[j + 1] \in Encoder
    BY <1>1 DEF IInv, TypeOK, CloseNext
  <2>2. /\ stage' = [stage EXCEPT ![h] = "closed"] /\ lock # NoEncoder
        /\ UNCHANGED <<young, nvenc_seq, open, next, lock, driver>>
    BY <1>1, EncoderAssumption DEF CloseNext
  <2>3. stage[h] = "dropped" /\ \A i \in 1..Len(open) : open[i].encoder # h
    <3>1. stage[h] = "dropped" /\ \A i \in 1..Len(open) : open[i].seq < nvenc_seq[h]
      BY <2>1 DEF IInv, CloseNewer
    <3>2. \A i \in 1..Len(open) : open[i].seq = nvenc_seq[open[i].encoder] /\ open[i].seq \in Nat
      BY EntryTypes DEF IInv, EntriesTrue
    <3> QED BY <3>1, <3>2
  <2>4. \A j \in 1..Len(close') : close'[j] # h
    <3> SUFFICES ASSUME NEW j \in 1..Len(close') PROVE close'[j] # h
      OBVIOUS
    <3>1. 1 \in 1..Len(close) /\ j + 1 \in 1..Len(close) /\ 1 < j + 1
      BY <2>1
    <3>2. nvenc_seq[close[j + 1]] < nvenc_seq[close[1]]
      BY <3>1 DEF IInv, CloseNewer
    <3>3. nvenc_seq[close[1]] \in Nat /\ nvenc_seq[close[j + 1]] \in Nat
      BY <2>1 DEF IInv, TypeOK
    <3> QED BY <2>1, <3>2, <3>3
  <2>5. TypeOK'
    BY <2>1, <2>2 DEF IInv, TypeOK, Stages
  <2>6. EntriesTrue'
    BY <2>2, <2>3, EntryTypes DEF IInv, TypeOK, EntriesTrue
  <2>7. AllAccounted'
    <3> SUFFICES ASSUME NEW f \in Encoder, f # h
                 PROVE  /\ stage[f] \in {"used", "dropping"} =>
                             \E i \in 1..Len(open) : open[i].encoder = f
                        /\ stage[f] = "dropped" =>
                             \/ \E i \in 1..Len(open) : open[i].encoder = f
                             \/ \E j \in 1..Len(close') : close'[j] = f
      BY <2>1, <2>2 DEF IInv, TypeOK, AllAccounted
    <3>1. ASSUME NEW k \in 1..Len(close), close[k] = f
          PROVE  \E j \in 1..Len(close') : close'[j] = f
      <4>1. k # 1
        BY <2>1, <3>1
      <4>2. k - 1 \in 1..Len(close') /\ close'[k - 1] = close[k - 1 + 1] /\ k - 1 + 1 = k
        BY <2>1, <4>1
      <4> QED BY <3>1, <4>2
    <3> QED BY <3>1 DEF IInv, AllAccounted
  <2>8. CloseNewer'
    <3> SUFFICES ASSUME NEW j \in 1..Len(close')
                 PROVE  /\ stage'[close'[j]] = "dropped"
                        /\ \A i \in 1..Len(open) : open[i].seq < nvenc_seq[close'[j]]
                        /\ \A k \in 1..Len(close') :
                              j < k => nvenc_seq[close'[k]] < nvenc_seq[close'[j]]
      BY <2>2 DEF CloseNewer
    <3>1. j + 1 \in 1..Len(close) /\ close'[j] = close[j + 1]
      BY <2>1
    <3>2. stage'[close'[j]] = "dropped"
      BY <2>1, <2>2, <2>4, <3>1 DEF IInv, TypeOK, CloseNewer
    <3>3. \A i \in 1..Len(open) : open[i].seq < nvenc_seq[close'[j]]
      BY <3>1 DEF IInv, CloseNewer
    <3>4. ASSUME NEW k \in 1..Len(close'), j < k
          PROVE  nvenc_seq[close'[k]] < nvenc_seq[close'[j]]
      <4>1. k + 1 \in 1..Len(close) /\ j + 1 < k + 1 /\ close'[k] = close[k + 1]
        BY <2>1, <3>4
      <4> QED BY <3>1, <4>1 DEF IInv, CloseNewer
    <3> QED BY <3>2, <3>3, <3>4
  <2>9. LastInUse'
    BY <2>2 DEF IInv, LastInUse
  <2>10. HolderCloses'
    BY <2>1, <2>2 DEF IInv, TypeOK, HolderCloses
  <2> QED BY <2>5, <2>6, <2>7, <2>8, <2>9, <2>10 DEF IInv
<1>2. CASE Unlock(e)
  BY <1>2 DEF IInv, TypeOK, EntriesTrue, AllAccounted, CloseNewer, LastInUse, HolderCloses, Unlock
<1> QED BY <1>1, <1>2

\* The invariant holds in every reachable state.
THEOREM Invariance == Spec => []IInv
<1>1. Init => IInv
  BY DEF Init, IInv, TypeOK, EntriesTrue, AllAccounted, CloseNewer, LastInUse, HolderCloses, Stages
<1>2. IInv /\ [Next]_vars => IInv'
  <2> SUFFICES ASSUME IInv, [Next]_vars PROVE IInv'
    OBVIOUS
  <2>1. ASSUME NEW e \in Encoder, OpenWith(e) \/ Opened(e) PROVE IInv'
    BY <2>1, OpeningKeeps
  <2>2. ASSUME NEW e \in Encoder, Ages(e) PROVE IInv'
    BY <2>2 DEF IInv, TypeOK, EntriesTrue, AllAccounted, CloseNewer, LastInUse, HolderCloses, Ages
  <2>3. ASSUME NEW e \in Encoder, BeginDrop(e) PROVE IInv'
    <3>1. TypeOK' /\ LastInUse' /\ HolderCloses'
      BY <2>3 DEF IInv, TypeOK, LastInUse, HolderCloses, BeginDrop, Stages
    <3>2. EntriesTrue'
      BY <2>3, EntryTypes DEF IInv, TypeOK, EntriesTrue, BeginDrop
    <3>3. AllAccounted'
      BY <2>3 DEF IInv, TypeOK, AllAccounted, BeginDrop
    <3>4. CloseNewer'
      <4>1. \A j \in 1..Len(close) : close[j] # e /\ close[j] \in Encoder
        BY <2>3 DEF IInv, TypeOK, CloseNewer, BeginDrop
      <4> QED BY <2>3, <4>1 DEF IInv, TypeOK, CloseNewer, BeginDrop
    <3> QED BY <3>1, <3>2, <3>3, <3>4 DEF IInv
  <2>4. ASSUME NEW e \in Encoder, DropStep(e) PROVE IInv'
    BY <2>4, DroppedKeeps, ClosingKeeps DEF DropStep
  <2>5. CASE UNCHANGED vars
    BY <2>5 DEF IInv, TypeOK, EntriesTrue, AllAccounted, CloseNewer, LastInUse, HolderCloses, vars
  <2> QED BY <2>1, <2>2, <2>3, <2>4, <2>5 DEF Next
<1> QED BY <1>1, <1>2, PTL DEF Spec

\* Every variable keeps its type, and the places in the order go up.
THEOREM TypeCorrect == Spec => []TypeOK
<1>1. IInv => TypeOK
  BY DEF IInv
<1> QED BY <1>1, Invariance, PTL

\* No encoder stays open unused except for the sake of a newer one in use,
\* whatever the order in which the sessions of a server end.
THEOREM LeavesNothing == Spec => []NoneLeftBehind
<1>1. IInv => NoneLeftBehind
  <2> SUFFICES ASSUME IInv, lock = NoEncoder, NEW e \in Encoder, stage[e] = "dropped"
               PROVE  \E f \in Encoder : /\ stage[f] \in {"used", "dropping"}
                                         /\ nvenc_seq[f] > nvenc_seq[e]
    BY DEF NoneLeftBehind
  <2>1. close = <<>>
    BY DEF IInv, HolderCloses
  <2>2. PICK i \in 1..Len(open) : open[i].encoder = e
    BY <2>1 DEF IInv, AllAccounted
  <2>3. open[i].seq = nvenc_seq[e] /\ open[i].waiting
    BY <2>2 DEF IInv, EntriesTrue
  <2> DEFINE last == Len(open)
  <2>4. last \in 1..Len(open) /\ i < last
    BY <2>3 DEF IInv, TypeOK, LastInUse
  <2>5. /\ open[last].encoder \in Encoder /\ open[last].seq \in Nat /\ open[i].seq \in Nat
        /\ open[i].seq < open[last].seq
    BY <2>4, EntryTypes DEF IInv, TypeOK
  <2>6. /\ stage[open[last].encoder] \in {"used", "dropping"}
        /\ nvenc_seq[open[last].encoder] = open[last].seq
    BY <2>4 DEF IInv, EntriesTrue, LastInUse
  <2> QED BY <2>3, <2>5, <2>6
<1> QED BY <1>1, Invariance, PTL

\* Encoders are closed newest first, in the order in which they were recorded.
THEOREM ClosesInOrder == Spec => ClosedNewestFirst
<1>1. IInv /\ [Next]_vars =>
        [\A e, f \in Encoder :
            stage[e] # "closed" /\ stage'[e] = "closed" /\ Recorded(f) /\ f # e =>
                nvenc_seq[f] < nvenc_seq[e]]_vars
  <2> SUFFICES ASSUME IInv, [Next]_vars, NEW e \in Encoder, NEW f \in Encoder,
                      stage[e] # "closed", stage'[e] = "closed", Recorded(f), f # e
               PROVE  nvenc_seq[f] < nvenc_seq[e]
    OBVIOUS
  <2>1. close # <<>> /\ e = Head(close)
    BY DEF IInv, TypeOK, Next, vars, OpenWith, Opened, Ages, BeginDrop, DropStep, Dropped,
           CloseNext, Unlock
  <2>2. 1 \in 1..Len(close) /\ e = close[1]
    BY <2>1 DEF IInv, TypeOK
  <2>3. CASE \E i \in 1..Len(open) : open[i].encoder = f
    BY <2>2, <2>3 DEF IInv, EntriesTrue, CloseNewer
  <2>4. CASE \E j \in 1..Len(close) : close[j] = f
    <3>1. PICK j \in 1..Len(close) : close[j] = f
      BY <2>4
    <3>2. j # 1 /\ 1 < j
      BY <2>2, <3>1
    <3> QED BY <2>2, <3>1, <3>2 DEF IInv, CloseNewer
  <2> QED BY <2>3, <2>4 DEF IInv, AllAccounted, Recorded
<1> QED BY <1>1, Invariance, PTL DEF Spec, ClosedNewestFirst

\* No encoder is closed within NVENC_MIN_LIFETIME of having been recorded.
THEOREM ClosesNoneYoung == Spec => NeverClosedYoung
<1>1. IInv /\ [Next]_vars =>
        [\A e \in young : stage'[e] = "closed" => stage[e] = "closed"]_vars
  <2> SUFFICES ASSUME IInv, [Next]_vars, NEW e \in young, stage'[e] = "closed",
                      stage[e] # "closed"
               PROVE  FALSE
    OBVIOUS
  <2>0. e \in Encoder
    BY DEF IInv, TypeOK
  <2>1. close # <<>> /\ e = Head(close)
    BY <2>0 DEF IInv, TypeOK, Next, vars, OpenWith, Opened, Ages, BeginDrop, DropStep, Dropped,
           CloseNext, Unlock
  <2>2. stage[e] = "dropped"
    BY <2>1 DEF IInv, TypeOK, CloseNewer
  <2> QED BY <2>2 DEF IInv, HolderCloses
<1> QED BY <1>1, Invariance, PTL DEF Spec, NeverClosedYoung

\* The order keeps its shape, and leaves nothing open without need.
THEOREM OrderIsSafe == Spec => []OrderSafety
BY TypeCorrect, LeavesNothing, PTL DEF OrderSafety

\* Encoders are closed in their turn, and not before their time.
THEOREM ClosesEachInTurn == Spec => ClosesInTurn
BY ClosesInOrder, ClosesNoneYoung, PTL DEF ClosesInTurn
============================================================================
