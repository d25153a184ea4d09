---------------------------- MODULE AccessProofs ----------------------------
(***************************************************************************)
(* Proofs about Access, for any number of connections and permits.         *)
(***************************************************************************)
EXTENDS Access, FiniteSetTheorems, TLAPS

USE DEF vars, config, keyVars, connVars, serverVars, clientVars

(***************************************************************************)
(* The inductive invariant.  The key pair and the connections share no     *)
(* step but the failure of a listener, and each has its part.              *)
(***************************************************************************)

KeyShape ==
    /\ legacy \in BOOLEAN /\ overlap \in BOOLEAN /\ broken \in BOOLEAN
    /\ program \in [Program -> {"check", "cert", "key", "read_cert", "read_key", "up", "exited", "done"}]
    /\ read \in [Part -> 0 .. 3 \cup {LegacyPair}]
    /\ file \in [Part -> 0 .. 3]

\* Only one program writes, and only where a file is lacking; what the server has
\* read so far is half of the pair that is there; what it has shown is that pair.
WritingBy(g) == program[g] \in {"cert", "key"}
Current == IF Complete THEN file["cert"] ELSE LegacyPair
PairOf ==
    /\ \A g, h \in Program : WritingBy(g) /\ WritingBy(h) => g = h
    /\ \A g \in Program : program[g] = "cert" => ~Complete /\ ~legacy
    /\ \A g \in Program : program[g] = "key" => ~legacy /\ file["cert"] = Pair(g)
    /\ ~Writing /\ Complete => file["cert"] = file["key"]
    /\ program["server"] = "read_cert" => Complete
    /\ program["server"] = "read_key" => (Complete \/ legacy) /\ read["cert"] = Current
    /\ served # {} => Complete \/ legacy
    /\ served \subseteq {Current}
PairInv == ~overlap /\ ~broken => PairOf

KInv == KeyShape /\ PairInv

UpMsg == {"Hello", "AuthResponse"} \cup Op
DownMsg == {"HelloAck", "AuthRequest", "AuthOk", "AuthFailed", "answer"}
LinkShape ==
    /\ require_auth \in BOOLEAN /\ tls \in BOOLEAN
    /\ permits \in [Permitted -> Nat]
    /\ phase \in [Peer -> Phases] /\ holds \in [Peer -> BOOLEAN]
    /\ up \in [Peer -> Seq(UpMsg)] /\ down \in [Peer -> Seq(DownMsg)]
    /\ way \in [Peer -> Way \cup {"none"}] /\ creds \in [Peer -> Credentials \cup {"none"}]
    /\ client \in [Peer -> {"idle", "silent", "ack", "request", "result", "answer", "closing", "eof",
                            "session", "done"}]
    /\ told \in [Peer -> {"none", "ok", "refused", "closed", "ssh", "failed", "quit"}]
    /\ gone \in [Peer -> BOOLEAN] /\ reaped \in [Peer -> BOOLEAN]
    /\ ssh \in [Peer -> {"none", "running", "failed", "clean"}]
    /\ failures \in 0 .. MaxFailures

\* A peer that has not dialled has no connection.
IdleOf(p) ==
    client[p] = "idle" =>
        phase[p] = "none" /\ up[p] = <<>> /\ down[p] = <<>> /\ told[p] = "none" /\ creds[p] = "none"

\* A permit is held by a connection that has been accepted and is not over.
Held(w) == {p \in Peer : holds[p] /\ way[p] = w}
PermitInv ==
    /\ \A w \in Permitted : IsFiniteSet(Held(w)) /\ permits[w] + Cardinality(Held(w)) = MAX_CONCURRENT_SESSIONS
    /\ \A p \in Peer : holds[p] => way[p] \in Permitted /\ phase[p] \notin Closed \cup {"arriving"}

\* The user is accepted where the connection is, in the answer on its way, and at
\* the client, which has given its credentials before any of that.
UnderWay(q, m) == \E i \in 1 .. Len(q) : q[i] = m
AuthOf(p) ==
    /\ client[p] \in {"silent", "ack", "request"} => creds[p] = "none"
    /\ UnderWay(up[p], "AuthResponse") \/ phase[p] = "pam" => creds[p] \in Credentials
    /\ phase[p] = "delay" => creds[p] = "bad"
    /\ NeedsAuth(p) /\ phase[p] \in {"control", "session", "teardown", "hung"} => creds[p] = "good"
    /\ UnderWay(down[p], "AuthOk") => creds[p] = "good"
    /\ UnderWay(down[p], "AuthFailed") => creds[p] = "bad" /\ phase[p] = "closed"
    /\ NeedsAuth(p) /\ client[p] \in {"answer", "closing", "session"} => creds[p] = "good"
    /\ NeedsAuth(p) /\ told[p] = "ok" => creds[p] = "good"
    /\ told[p] # "none" => client[p] \in {"session", "done"}
    /\ told[p] = "refused" => creds[p] = "bad" /\ phase[p] = "closed"
    /\ told[p] = "ssh" => ssh[p] = "failed"

LInv == LinkShape /\ (\A p \in Peer : IdleOf(p) /\ AuthOf(p)) /\ PermitInv
IInv == KInv /\ LInv


(***************************************************************************)
(* The key pair.                                                           *)
(***************************************************************************)

\* The old pair is no pair of a program, so half of one is never half of the other.
LEMMA KeyStep ==
    ASSUME KInv, [Next]_vars
    PROVE  KInv'
<1> USE AccessAssumption DEF Program, Part, LegacyPair, Pair
<1> DEFINE Still == UNCHANGED keyVars
<1>0. Still => KInv'
    BY DEF KInv, KeyShape, PairInv, PairOf, WritingBy, Writing, Current, Complete
<1>1. ASSUME NEW g \in Program, CheckPair(g) PROVE KInv'
    <2>1. KeyShape'
        BY <1>1 DEF KInv, KeyShape, CheckPair, Runs
    <2>2. ASSUME ~overlap', ~broken' PROVE PairOf'
        <3> USE <1>1, <2>2 DEF KInv, KeyShape, CheckPair, Runs, WritingBy
        <3>0. ~overlap /\ ~broken /\ PairOf
            BY DEF PairInv
        <3>1. Complete' = Complete /\ Current' = Current /\ legacy' = legacy /\ served' = served /\ file' = file
            BY DEF Complete, Current
        <3>2. CASE ~Complete /\ ~legacy
            <4>1. \A h \in Program \ {g} : ~WritingBy(h)
                BY <3>2, <3>0
            <4>2. program' = [program EXCEPT ![g] = "cert"] /\ read' = read
                BY <3>2
            <4> HIDE DEF CheckPair, WritingBy
            <4> QED BY <3>0, <3>1, <3>2, <4>1, <4>2 DEF PairOf, WritingBy, Writing, Up
        <3>3. CASE Complete \/ legacy
            <4>1. /\ program[g] = "check" /\ program'[g] \in {"done", "read_key", "read_cert"}
                  /\ \A h \in Program \ {g} : program'[h] = program[h]
                BY <3>3
            <4>2. program'["server"] = "read_cert" => Complete \/ program["server"] = "read_cert"
                BY <3>3
            <4>3. program'["server"] = "read_key" =>
                     \/ ~Complete /\ legacy /\ read'["cert"] = LegacyPair
                     \/ program["server"] = "read_key" /\ read'["cert"] = read["cert"]
                BY <3>3
            <4> HIDE DEF CheckPair
            <4>4. Writing' = Writing
                BY <4>1 DEF Writing
            <4>5. \A h \in Program : WritingBy(h)' => WritingBy(h) /\ program'[h] = program[h]
                BY <4>1
            <4> QED BY <3>0, <3>1, <3>3, <4>1, <4>2, <4>3, <4>4, <4>5 DEF PairOf, Current
        <3> QED BY <3>2, <3>3
    <2> QED BY <2>1, <2>2 DEF KInv, PairInv
<1>2. ASSUME NEW g \in Program, WriteCert(g) PROVE KInv'
    <2>1. KeyShape'
        BY <1>2 DEF KInv, KeyShape, WriteCert, Runs
    <2>2. ASSUME ~overlap', ~broken' PROVE PairOf'
        <3> USE <1>2, <2>2 DEF KInv, KeyShape, WriteCert, Runs, WritingBy
        <3>0. ~overlap /\ ~broken /\ PairOf
            BY DEF PairInv
        <3>1. served = {} /\ ~legacy /\ ~Complete
            BY <3>0 DEF PairOf
        <3>2. program["server"] \notin {"read_cert", "read_key"} \/ g = "server"
            BY <3>0, <3>1 DEF PairOf
        <3>3. /\ \A h \in Program \ {g} : program'[h] = program[h] /\ ~WritingBy(h)
              /\ program'[g] = "key" /\ file'["cert"] = Pair(g) /\ file'["key"] = file["key"]
            BY <3>0 DEF PairOf
        <3> HIDE DEF WriteCert
        <3> QED BY <3>0, <3>1, <3>2, <3>3 DEF PairOf, Writing, WriteCert
    <2> QED BY <2>1, <2>2 DEF KInv, PairInv
<1>3. ASSUME NEW g \in Program, WriteKey(g) PROVE KInv'
    <2>1. KeyShape'
        BY <1>3 DEF KInv, KeyShape, WriteKey, WriteKeyTo, Runs
    <2>2. ASSUME ~overlap', ~broken' PROVE PairOf'
        <3> USE <1>3, <2>2 DEF KInv, KeyShape, WriteKey, WriteKeyTo, Runs, WritingBy
        <3>0. ~overlap /\ ~broken /\ PairOf
            BY DEF PairInv
        <3>1. ~legacy /\ file["cert"] = Pair(g) /\ file' = [file EXCEPT !["key"] = Pair(g)]
            BY <3>0 DEF PairOf
        <3>2. Complete' /\ file'["cert"] = Pair(g) /\ file'["key"] = Pair(g)
            BY <3>1 DEF Complete
        <3>3. /\ \A h \in Program \ {g} : program'[h] = program[h] /\ ~WritingBy(h)
              /\ program'[g] \in {"read_cert", "done"} /\ legacy' = legacy /\ served' = served /\ read' = read
            BY <3>0 DEF PairOf
        <3>4. Complete => Current = Pair(g)
            BY <3>1 DEF Current
        <3>5. Current' = Pair(g)
            BY <3>2 DEF Current
        <3> HIDE DEF WriteKey, WriteKeyTo
        <3>6. ~Writing' /\ \A h \in Program : ~WritingBy(h)'
            BY <3>3 DEF Writing
        <3>7. program'["server"] = "read_key" => program["server"] = "read_key"
            BY <3>3
        <3>8. served # {} \/ program["server"] = "read_key" => Complete
            BY <3>0, <3>1 DEF PairOf
        <3> QED BY <3>0, <3>1, <3>2, <3>3, <3>4, <3>5, <3>6, <3>7, <3>8 DEF PairOf
    <2> QED BY <2>1, <2>2 DEF KInv, PairInv
<1>4. ASSUME ReadCert PROVE KInv'
    <2>1. KeyShape'
        BY <1>4 DEF KInv, KeyShape, ReadCert
    <2>2. ASSUME ~overlap', ~broken' PROVE PairOf'
        BY <1>4, <2>2 DEF KInv, KeyShape, PairInv, PairOf, ReadCert, WritingBy, Writing, Current, Complete
    <2> QED BY <2>1, <2>2 DEF KInv, PairInv
<1>5. ASSUME ReadKey PROVE KInv'
    <2>1. KeyShape'
        BY <1>5 DEF KInv, KeyShape, ReadKey
    <2>2. ASSUME ~overlap', ~broken' PROVE PairOf'
        BY <1>5, <2>2 DEF KInv, KeyShape, PairInv, PairOf, ReadKey, WritingBy, Writing, Current, Complete
    <2> QED BY <2>1, <2>2 DEF KInv, PairInv
<1>6. ASSUME NEW g \in Program, ProgramDies(g) PROVE KInv'
    BY <1>6 DEF KInv, KeyShape, PairInv, ProgramDies
<1>7. ASSUME NEW f \in Part, LoseFile(f) PROVE KInv'
    BY <1>7 DEF KInv, KeyShape, PairInv, LoseFile
<1>8. ASSUME Restart PROVE KInv'
    BY <1>8 DEF KInv, KeyShape, PairInv, PairOf, Restart, WritingBy, Writing, Current, Complete
<1>9. ASSUME ListenerFails PROVE KInv'
    BY <1>9 DEF KInv, KeyShape, PairInv, PairOf, ListenerFails, Up, WritingBy, Writing, Current, Complete
<1>10. ASSUME NEW p \in Peer, ServerStep(p) \/ ClientStep(p) \/ SshStep(p) \/ UserStep(p) PROVE Still
    <2>1. CASE ServerStep(p)
        BY <2>1 DEF ServerStep, Accept, HandshakeFails, HandshakeDone, StreamOpened, PeerLost, TornDown,
            TeardownHangs, Receive, PamErr, PamAnswers, DelayOver
    <2>2. CASE ClientStep(p) \/ SshStep(p)
        BY <2>2 DEF ClientStep, SshStep, ClientReads, ClientEof, SshEof, Reap, SshSteps
    <2>3. CASE UserStep(p)
        BY <2>3 DEF UserStep, Dial, DialOther, Quit
    <2> QED BY <1>10, <2>1, <2>2, <2>3
<1>11. CASE UNCHANGED vars
    BY <1>0, <1>11
<1> QED BY <1>0, <1>1, <1>2, <1>3, <1>4, <1>5, <1>6, <1>7, <1>8, <1>9, <1>10, <1>11
        DEF Next, StartStep, Trouble

(***************************************************************************)
(* Messages under way.                                                     *)
(***************************************************************************)

LEMMA UnderWayEmpty == \A m : ~UnderWay(<<>>, m)
BY DEF UnderWay

LEMMA UnderWayAppend ==
    ASSUME NEW S, NEW q \in Seq(S), NEW x \in S, NEW m, UnderWay(Append(q, x), m)
    PROVE  UnderWay(q, m) \/ m = x
BY DEF UnderWay

LEMMA UnderWayConcat ==
    ASSUME NEW S, NEW q \in Seq(S), NEW r \in Seq(S), NEW m, UnderWay(q \o r, m)
    PROVE  UnderWay(q, m) \/ UnderWay(r, m)
<1>1. PICK i \in 1 .. Len(q \o r) : (q \o r)[i] = m
    BY DEF UnderWay
<1>2. CASE i <= Len(q)
    BY <1>1, <1>2 DEF UnderWay
<1>3. CASE i > Len(q)
    <2>1. i - Len(q) \in 1 .. Len(r) /\ r[i - Len(q)] = m
        BY <1>1, <1>3
    <2> QED BY <2>1 DEF UnderWay
<1> QED BY <1>2, <1>3

LEMMA UnderWayHead ==
    ASSUME NEW S, NEW q \in Seq(S), q # <<>>
    PROVE  /\ Head(q) \in S /\ Tail(q) \in Seq(S) /\ UnderWay(q, Head(q))
           /\ \A m : UnderWay(Tail(q), m) => UnderWay(q, m)
<1>1. Len(q) \in Nat \ {0} /\ Head(q) = q[1] /\ Head(q) \in S /\ Tail(q) \in Seq(S)
    OBVIOUS
<1>2. ASSUME NEW m, UnderWay(Tail(q), m) PROVE UnderWay(q, m)
    <2>1. PICK i \in 1 .. Len(Tail(q)) : Tail(q)[i] = m
        BY <1>2 DEF UnderWay
    <2>2. i + 1 \in 1 .. Len(q) /\ q[i + 1] = m
        BY <1>1, <2>1
    <2> QED BY <2>2 DEF UnderWay
<1> QED BY <1>1, <1>2 DEF UnderWay

(***************************************************************************)
(* The permits.                                                            *)
(***************************************************************************)

\* A step that moves no permit only has to leave the holders where they may be.
LEMMA PermitsStay ==
    ASSUME LInv, UNCHANGED <<permits, holds>>,
           \A q \in Peer : holds[q] => way'[q] = way[q] /\ phase'[q] \notin Closed \cup {"arriving"}
    PROVE  PermitInv'
<1>1. \A w \in Permitted : Held(w)' = Held(w)
    BY DEF Held, LInv, LinkShape
<1> QED BY <1>1 DEF LInv, PermitInv

LEMMA CloseReturns ==
    ASSUME LInv, NEW p \in Peer, Close(p), UNCHANGED way
    PROVE  PermitInv'
<1> USE DEF LInv, LinkShape, Close
<1>1. CASE ~holds[p]
    <2>1. holds' = holds /\ permits' = permits
        BY <1>1
    <2> QED BY <2>1, <1>1, PermitsStay DEF PermitInv
<1>2. CASE holds[p]
    <2> PICK v \in Permitted : v = way[p]
        BY <1>2 DEF PermitInv
    <2>1. v \in Permitted /\ permits' = [permits EXCEPT ![v] = @ + 1]
        BY <1>2 DEF PermitInv
    <2>2. Held(v)' = Held(v) \ {p} /\ p \in Held(v)
        BY <1>2 DEF Held
    <2>3. \A w \in Permitted \ {v} : Held(w)' = Held(w)
        BY DEF Held
    <2>4. IsFiniteSet(Held(v)') /\ Cardinality(Held(v)') = Cardinality(Held(v)) - 1
        <3> HIDE DEF Close, LinkShape
        <3>1. IsFiniteSet(Held(v))
            BY DEF PermitInv
        <3>2. IsFiniteSet(Held(v) \ {p}) /\ Cardinality(Held(v) \ {p}) = Cardinality(Held(v)) - 1
            BY <3>1, <2>2, FS_RemoveElement
        <3> QED BY <3>2, <2>2
    <2>5. Cardinality(Held(v)) \in Nat
        BY <2>1, FS_CardinalityType DEF PermitInv
    <2>6. \A w \in Permitted :
            IsFiniteSet(Held(w)') /\ permits'[w] + Cardinality(Held(w)') = MAX_CONCURRENT_SESSIONS
        BY <2>1, <2>3, <2>4, <2>5, AccessAssumption DEF PermitInv
    <2>7. \A q \in Peer : holds'[q] => way'[q] \in Permitted /\ phase'[q] \notin Closed \cup {"arriving"}
        BY DEF PermitInv
    <2> QED BY <2>6, <2>7 DEF PermitInv
<1> QED BY <1>1, <1>2

LEMMA CloseShape ==
    ASSUME LInv, NEW p \in Peer, Close(p)
    PROVE  permits' \in [Permitted -> Nat] /\ phase' \in [Peer -> Phases] /\ holds' \in [Peer -> BOOLEAN]
<1>1. phase' \in [Peer -> Phases] /\ holds' \in [Peer -> BOOLEAN]
    BY DEF LInv, LinkShape, Close, Phases
<1>2. permits' \in [Permitted -> Nat]
    <2>1. CASE holds[p]
        <3>1. way[p] \in Permitted /\ permits[way[p]] + 1 \in Nat
            BY <2>1 DEF LInv, LinkShape, PermitInv
        <3> QED BY <2>1, <3>1 DEF LInv, LinkShape, Close
    <2>2. CASE ~holds[p]
        BY <2>2 DEF LInv, LinkShape, Close
    <2> QED BY <2>1, <2>2
<1> QED BY <1>1, <1>2

LEMMA AcceptTakes ==
    ASSUME LInv, NEW p \in Peer, Accept(p)
    PROVE  PermitInv'
<1> USE DEF LInv, LinkShape, Accept
<1>0. ~holds[p]
    BY DEF PermitInv
<1>1. CASE way[p] \notin Permitted \/ permits[way[p]] = 0
    <2>1. UNCHANGED <<permits, holds, way>> /\ \A q \in Peer \ {p} : phase'[q] = phase[q]
        BY <1>1 DEF Goto, Refuse
    <2> QED BY <2>1, <1>0, PermitsStay DEF PermitInv
<1>2. CASE way[p] \in Permitted /\ permits[way[p]] # 0
    <2> PICK v \in Permitted : v = way[p]
        BY <1>2
    <2>1. /\ permits' = [permits EXCEPT ![v] = @ - 1] /\ holds' = [holds EXCEPT ![p] = TRUE]
          /\ way' = way /\ phase'[p] \in {"hello", "handshake"}
          /\ \A q \in Peer \ {p} : phase'[q] = phase[q]
        BY <1>2
    <2>2. Held(v)' = Held(v) \cup {p} /\ p \notin Held(v)
        BY <1>0, <2>1 DEF Held
    <2>3. \A w \in Permitted \ {v} : Held(w)' = Held(w)
        BY <2>1 DEF Held
    <2>4. IsFiniteSet(Held(v)') /\ Cardinality(Held(v)') = Cardinality(Held(v)) + 1
        <3> HIDE DEF Accept, LinkShape
        <3>1. IsFiniteSet(Held(v))
            BY DEF PermitInv
        <3>2. IsFiniteSet(Held(v) \cup {p}) /\ Cardinality(Held(v) \cup {p}) = Cardinality(Held(v)) + 1
            BY <3>1, <2>2, FS_AddElement
        <3> QED BY <3>2, <2>2
    <2>5. Cardinality(Held(v)) \in Nat
        BY <1>2, FS_CardinalityType DEF PermitInv
    <2>6. \A w \in Permitted :
            IsFiniteSet(Held(w)') /\ permits'[w] + Cardinality(Held(w)') = MAX_CONCURRENT_SESSIONS
        BY <1>2, <2>1, <2>3, <2>4, <2>5, AccessAssumption DEF PermitInv
    <2>7. \A q \in Peer : holds'[q] => way'[q] \in Permitted /\ phase'[q] \notin Closed \cup {"arriving"}
        BY <1>2, <2>1 DEF PermitInv, Closed
    <2> QED BY <2>6, <2>7 DEF PermitInv
<1> QED BY <1>1, <1>2

(***************************************************************************)
(* The connections.                                                        *)
(***************************************************************************)

Same(p) == /\ <<phase[p], up[p], down[p], way[p], client[p]>>' = <<phase[p], up[p], down[p], way[p], client[p]>>
           /\ <<told[p], creds[p], ssh[p]>>' = <<told[p], creds[p], ssh[p]>>

LEMMA OthersKept ==
    ASSUME LInv, UNCHANGED config, NEW p \in Peer, Same(p)
    PROVE  IdleOf(p)' /\ AuthOf(p)'
BY DEF LInv, IdleOf, AuthOf, Same, NeedsAuth

\* The steps that end a connection, and those that only take it further.
Rest == UNCHANGED <<config, keyVars, clientVars, down, failures>>
Drop(p) == phase[p] \notin Closed /\ Close(p) /\ Rest
Move(p, to) ==
    /\ phase[p] \notin Closed /\ Goto(p, to) /\ Rest
    /\ \/ to \in {"hello", "stream"}
       \/ to \in {"teardown", "hung"} /\ phase[p] \in {"session", "teardown"}

LEMMA ServerSteps ==
    ASSUME NEW p \in Peer, ServerStep(p)
    PROVE  \/ Accept(p) \/ Receive(p) \/ PamAnswers(p) \/ DelayOver(p)
           \/ Drop(p) \/ \E to \in Phases : Move(p, to)
<1> USE DEF Closed, Rest, Drop, Move, Phases
<1>1. CASE HandshakeFails(p) \/ TornDown(p) \/ PamErr(p)
    BY <1>1 DEF HandshakeFails, TornDown, PamErr
<1>2. CASE HandshakeDone(p)
    <2>1. Move(p, "hello") \/ Move(p, "stream")
        BY <1>2 DEF HandshakeDone
    <2> QED BY <2>1
<1>3. CASE StreamOpened(p)
    <2>1. Move(p, "hello")
        BY <1>3 DEF StreamOpened
    <2> QED BY <2>1
<1>4. CASE PeerLost(p)
    <2>1. Drop(p) \/ Move(p, "teardown")
        BY <1>4 DEF PeerLost, Lost, Attended
    <2> QED BY <2>1
<1>5. CASE TeardownHangs(p)
    <2>1. Move(p, "hung")
        BY <1>5 DEF TeardownHangs
    <2> QED BY <2>1
<1> QED BY <1>1, <1>2, <1>3, <1>4, <1>5 DEF ServerStep

LEMMA ServerKeeps ==
    ASSUME LInv, NEW p \in Peer, ServerStep(p)
    PROVE  LInv'
<1> USE DEF Goto, Rest
<1>0. client[p] # "idle" \/ phase[p] = "none"
    BY DEF LInv, IdleOf
<1>1. ASSUME LinkShape', PermitInv', UNCHANGED <<config, clientVars>> \/ Receive(p),
             \A q \in Peer \ {p} : Same(q), phase[p] # "none", AuthOf(p)'
      PROVE  LInv'
    <2>1. UNCHANGED config /\ client' = client
        BY <1>1 DEF Receive
    <2>2. IdleOf(p)'
        BY <1>0, <1>1, <2>1 DEF IdleOf
    <2> QED BY <1>1, <2>1, <2>2, OthersKept DEF LInv
<1>2. CASE Drop(p)
    <2>1. LinkShape'
        BY <1>2, CloseShape DEF LInv, LinkShape, Drop
    <2>2. PermitInv'
        BY <1>2, CloseReturns DEF Drop
    <2>3. \A q \in Peer \ {p} : Same(q)
        BY <1>2 DEF Drop, Close, Same, LInv, LinkShape
    <2>4. AuthOf(p)'
        BY <1>2 DEF LInv, LinkShape, AuthOf, Drop, Close, Closed, NeedsAuth
    <2> QED BY <1>1, <1>2, <2>1, <2>2, <2>3, <2>4 DEF Drop, Closed
<1>3. CASE \E to \in Phases : Move(p, to)
    <2> PICK to \in Phases : Move(p, to)
        BY <1>3
    <2>1. LinkShape'
        BY DEF LInv, LinkShape, Move
    <2>2. PermitInv'
        BY PermitsStay DEF Move, Closed, LInv, LinkShape, PermitInv
    <2>3. \A q \in Peer \ {p} : Same(q)
        BY DEF Move, Same, LInv, LinkShape
    <2>4. AuthOf(p)'
        BY DEF LInv, LinkShape, AuthOf, Move, Closed, NeedsAuth
    <2> QED BY <1>1, <2>1, <2>2, <2>3, <2>4 DEF Move, Closed
<1>4. CASE Accept(p)
    <2>1. LinkShape'
        <3>1. phase' \in [Peer -> Phases] /\ holds' \in [Peer -> BOOLEAN]
            BY <1>4, ZenonT(30) DEF LInv, LinkShape, Accept, Refuse, Phases
        <3>2. permits' \in [Permitted -> Nat]
            <4>1. CASE way[p] \in Permitted /\ permits[way[p]] # 0
                <5>1. permits[way[p]] - 1 \in Nat
                    BY <4>1 DEF LInv, LinkShape
                <5> QED BY <1>4, <4>1, <5>1 DEF LInv, LinkShape, Accept
            <4>2. CASE ~(way[p] \in Permitted /\ permits[way[p]] # 0)
                BY <1>4, <4>2 DEF LInv, LinkShape, Accept, Refuse
            <4> QED BY <4>1, <4>2
        <3> QED BY <1>4, <3>1, <3>2 DEF LInv, LinkShape, Accept
    <2>2. PermitInv'
        BY <1>4, AcceptTakes
    <2>3. \A q \in Peer \ {p} : Same(q)
        BY <1>4 DEF Accept, Refuse, Same, LInv, LinkShape
    <2>4. AuthOf(p)'
        BY <1>4 DEF LInv, LinkShape, AuthOf, Accept, Refuse, NeedsAuth
    <2> QED BY <1>1, <1>4, <2>1, <2>2, <2>3, <2>4 DEF Accept
<1>5. CASE PamAnswers(p)
    <2> USE DEF Send
    <2>0. creds[p] \in Credentials
        BY <1>5 DEF LInv, AuthOf, PamAnswers
    <2>1. LinkShape'
        <3>1. down' \in [Peer -> Seq(DownMsg)]
            <4>1. Append(down[p], "AuthOk") \in Seq(DownMsg)
                BY DEF LInv, LinkShape, DownMsg
            <4>2. down' = down \/ down' = [down EXCEPT ![p] = Append(@, "AuthOk")]
                BY <1>5, <2>0 DEF PamAnswers, Credentials
            <4> QED BY <4>1, <4>2 DEF LInv, LinkShape
        <3>2. permits' \in [Permitted -> Nat] /\ phase' \in [Peer -> Phases] /\ holds' \in [Peer -> BOOLEAN]
            BY <1>5, <2>0, CloseShape DEF LInv, LinkShape, PamAnswers, Credentials, Phases
        <3> QED BY <1>5, <3>1, <3>2 DEF LInv, LinkShape, PamAnswers
    <2>2. PermitInv'
        <3>1. CASE creds[p] = "newline"
            BY <1>5, <3>1, CloseReturns DEF PamAnswers
        <3>2. CASE creds[p] \in {"good", "bad"}
            BY <1>5, <3>2, PermitsStay, ZenonT(30) DEF PamAnswers, Closed, LInv, LinkShape, PermitInv
        <3> QED BY <2>0, <3>1, <3>2 DEF Credentials
    <2>3. \A q \in Peer \ {p} : Same(q)
        BY <1>5, <2>0 DEF PamAnswers, Close, Same, LInv, LinkShape, Credentials
    <2>4. AuthOf(p)'
        <3>1. \A m : UnderWay(down'[p], m) => UnderWay(down[p], m) \/ (m = "AuthOk" /\ creds[p] = "good")
            <4>1. down[p] \in Seq(DownMsg) /\ "AuthOk" \in DownMsg
                BY DEF LInv, LinkShape, DownMsg
            <4>2. \/ down'[p] = down[p]
                  \/ down'[p] = Append(down[p], "AuthOk") /\ creds[p] = "good"
                BY <1>5, <2>0 DEF PamAnswers, LInv, LinkShape, Credentials
            <4> QED BY <4>1, <4>2, UnderWayAppend
        <3>2. /\ phase[p] = "pam" /\ phase'[p] \in {"control", "delay", "closed"}
              /\ phase'[p] = "control" => creds[p] = "good"
              /\ phase'[p] = "delay" => creds[p] = "bad"
            BY <1>5, <2>0 DEF PamAnswers, Close, LInv, LinkShape, Credentials
        <3>3. UNCHANGED <<config, clientVars>>
            BY <1>5 DEF PamAnswers
        <3> QED BY <2>0, <3>1, <3>2, <3>3 DEF LInv, AuthOf, NeedsAuth
    <2> QED BY <1>1, <1>5, <2>1, <2>2, <2>3, <2>4 DEF PamAnswers
<1>6. CASE DelayOver(p)
    <2> USE DEF Send
    <2>1. LinkShape'
        BY <1>6, CloseShape DEF LInv, LinkShape, DelayOver, DownMsg
    <2>2. PermitInv'
        BY <1>6, CloseReturns DEF DelayOver
    <2>3. \A q \in Peer \ {p} : Same(q)
        BY <1>6 DEF DelayOver, Close, Same, LInv, LinkShape
    <2>4. AuthOf(p)'
        <3>1. \A m : UnderWay(down'[p], m) => UnderWay(down[p], m) \/ m = "AuthFailed"
            <4>1. down[p] \in Seq(DownMsg) /\ "AuthFailed" \in DownMsg
                BY DEF LInv, LinkShape, DownMsg
            <4>2. down'[p] = Append(down[p], "AuthFailed")
                BY <1>6 DEF DelayOver, LInv, LinkShape
            <4> QED BY <4>1, <4>2, UnderWayAppend
        <3> QED BY <1>6, <3>1 DEF LInv, LinkShape, AuthOf, DelayOver, Close, NeedsAuth
    <2> QED BY <1>1, <1>6, <2>1, <2>2, <2>3, <2>4 DEF DelayOver
<1>7. CASE Receive(p)
    <2> USE DEF Send
    <2> DEFINE msg == Head(up[p])
               Next1(to) == Goto(p, to) /\ to \in {"auth", "control", "pam", "session"}
    <2>0. /\ msg \in UpMsg /\ Tail(up[p]) \in Seq(UpMsg) /\ UnderWay(up[p], msg)
          /\ \A m : UnderWay(Tail(up[p]), m) => UnderWay(up[p], m)
        BY <1>7, UnderWayHead DEF Receive, LInv, LinkShape
    <2>1. up' = [up EXCEPT ![p] = Tail(@)] /\ phase[p] \in {"hello", "auth", "control"}
          /\ UNCHANGED <<config, keyVars, way, client, told, creds, gone, ssh, reaped, failures>>
        BY <1>7 DEF Receive
    <2>2. \/ Close(p) /\ UNCHANGED down
          \/ \E to \in {"auth", "control", "pam", "session"}, q \in Seq(DownMsg) :
               /\ Goto(p, to) /\ down' = [down EXCEPT ![p] = q]
               /\ \A m \in {"AuthOk", "AuthFailed"} : UnderWay(q, m) => UnderWay(down[p], m)
               /\ to = "pam" => msg = "AuthResponse"
               /\ to \in {"control", "session"} /\ NeedsAuth(p) => phase[p] = "control"
        <3> DEFINE Goes(to, q) ==
               /\ Goto(p, to) /\ down' = [down EXCEPT ![p] = q]
               /\ \A m \in {"AuthOk", "AuthFailed"} : UnderWay(q, m) => UnderWay(down[p], m)
               /\ to = "pam" => msg = "AuthResponse"
               /\ to \in {"control", "session"} /\ NeedsAuth(p) => phase[p] = "control"
        <3> HIDE DEF Goes
        <3>0. down[p] \in Seq(DownMsg)
            BY DEF LInv, LinkShape
        <3>1. CASE Close(p) /\ UNCHANGED down
            BY <3>1
        <3>2. CASE msg = "Hello" /\ phase[p] = "hello"
             /\ Goto(p, IF NeedsAuth(p) THEN "auth" ELSE "control")
             /\ down' = [down EXCEPT ![p] = @ \o
                  IF NeedsAuth(p) THEN <<"HelloAck", "AuthRequest">> ELSE <<"HelloAck">>]
            <4> DEFINE r == IF NeedsAuth(p) THEN <<"HelloAck", "AuthRequest">> ELSE <<"HelloAck">>
            <4>1. r \in Seq(DownMsg) /\ \A m \in {"AuthOk", "AuthFailed"} : ~UnderWay(r, m)
                BY DEF UnderWay, DownMsg
            <4> HIDE DEF r
            <4>2. down[p] \o r \in Seq(DownMsg)
                BY <3>0, <4>1
            <4>3. \A m \in {"AuthOk", "AuthFailed"} : UnderWay(down[p] \o r, m) => UnderWay(down[p], m)
                BY <3>0, <4>1, UnderWayConcat
            <4>4. Goes(IF NeedsAuth(p) THEN "auth" ELSE "control", down[p] \o r)
                BY <3>2, <4>3 DEF r, Goes
            <4> QED BY <4>2, <4>4 DEF Goes
        <3>3. CASE msg = "AuthResponse" /\ phase[p] = "auth" /\ Goto(p, "pam") /\ UNCHANGED down
            <4>1. down' = [down EXCEPT ![p] = down[p]]
                BY <3>3 DEF LInv, LinkShape
            <4>2. Goes("pam", down[p])
                BY <3>3, <4>1 DEF Goes
            <4> QED BY <3>0, <4>2 DEF Goes
        <3>4. CASE phase[p] = "control" /\ Send(p, "answer") /\ (Goto(p, "control") \/ Goto(p, "session"))
            <4>1. Append(down[p], "answer") \in Seq(DownMsg)
                BY <3>0 DEF DownMsg
            <4>2. \A m \in {"AuthOk", "AuthFailed"} :
                     UnderWay(Append(down[p], "answer"), m) => UnderWay(down[p], m)
                BY <3>0, UnderWayAppend DEF DownMsg
            <4>3. \E to \in {"control", "session"} : Goes(to, Append(down[p], "answer"))
                BY <3>4, <4>2 DEF Goes
            <4> QED BY <4>1, <4>3 DEF Goes
        <3> QED BY <1>7, <2>1, <3>1, <3>2, <3>3, <3>4 DEF Receive, Expected, Op
    <2>3. LinkShape'
        <3> HIDE DEF msg
        <3>1. up' \in [Peer -> Seq(UpMsg)]
            BY <2>0, <2>1 DEF LInv, LinkShape
        <3>2. /\ permits' \in [Permitted -> Nat] /\ phase' \in [Peer -> Phases] /\ holds' \in [Peer -> BOOLEAN]
              /\ down' \in [Peer -> Seq(DownMsg)]
            <4>1. CASE Close(p) /\ UNCHANGED down
                BY <4>1, CloseShape DEF LInv, LinkShape
            <4>2. CASE \E to \in {"auth", "control", "pam", "session"}, q \in Seq(DownMsg) :
                          Goto(p, to) /\ down' = [down EXCEPT ![p] = q]
                BY <4>2 DEF LInv, LinkShape, Phases
            <4> QED BY <2>2, <4>1, <4>2
        <3> QED BY <2>1, <3>1, <3>2 DEF LInv, LinkShape
    <2>4. PermitInv'
        <3>1. CASE Close(p)
            BY <2>1, <3>1, CloseReturns
        <3>2. CASE \E to \in {"auth", "control", "pam", "session"} : Goto(p, to)
            BY <2>1, <3>2, PermitsStay DEF Closed, LInv, LinkShape, PermitInv
        <3> QED BY <2>2, <3>1, <3>2
    <2>5. \A q \in Peer \ {p} : Same(q)
        BY <2>1, <2>2 DEF Close, Same, LInv, LinkShape
    <2>6. AuthOf(p)'
        <3>1. CASE Close(p) /\ UNCHANGED down
            BY <2>0, <2>1, <3>1 DEF LInv, LinkShape, AuthOf, Close, NeedsAuth
        <3>2. ASSUME NEW to \in {"auth", "control", "pam", "session"}, NEW q \in Seq(DownMsg),
                     Goto(p, to), down' = [down EXCEPT ![p] = q],
                     \A m \in {"AuthOk", "AuthFailed"} : UnderWay(q, m) => UnderWay(down[p], m),
                     to = "pam" => msg = "AuthResponse",
                     to \in {"control", "session"} /\ NeedsAuth(p) => phase[p] = "control"
              PROVE  AuthOf(p)'
            <4> HIDE DEF msg
            <4>1. phase'[p] = to /\ down'[p] = q /\ up'[p] = Tail(up[p])
                BY <2>1, <3>2 DEF LInv, LinkShape
            <4> QED BY <2>0, <2>1, <3>2, <4>1 DEF LInv, AuthOf, NeedsAuth
        <3> QED BY <2>2, <3>1, <3>2
    <2> QED BY <1>1, <1>7, <2>1, <2>3, <2>4, <2>5, <2>6
<1> QED BY <1>2, <1>3, <1>4, <1>5, <1>6, <1>7, ServerSteps

LEMMA SayEffect ==
    ASSUME LInv, NEW p \in Peer, NEW msg \in UpMsg, Say(p, msg)
    PROVE  /\ up' \in [Peer -> Seq(UpMsg)] /\ \A q \in Peer \ {p} : up'[q] = up[q]
           /\ \A m : UnderWay(up'[p], m) => UnderWay(up[p], m) \/ m = msg
<1>1. up[p] \in Seq(UpMsg) /\ Append(up[p], msg) \in Seq(UpMsg)
    BY DEF LInv, LinkShape
<1>2. up'[p] = Append(up[p], msg)
    BY DEF Say, LInv, LinkShape
<1> QED BY <1>1, <1>2, UnderWayAppend DEF Say, LInv, LinkShape

LEMMA OperateEffect ==
    ASSUME LInv, NEW p \in Peer, Operate(p)
    PROVE  /\ up' \in [Peer -> Seq(UpMsg)] /\ \A q \in Peer \ {p} : up'[q] = up[q]
           /\ UnderWay(up'[p], "AuthResponse") => UnderWay(up[p], "AuthResponse")
           /\ \E to \in {"closing", "answer"} : client' = [client EXCEPT ![p] = to]
<1> PICK op \in Op : Say(p, op) /\ client' = [client EXCEPT ![p] = IF op = "close" THEN "closing" ELSE "answer"]
    BY DEF Operate
<1>1. op \in UpMsg /\ op # "AuthResponse"
    BY DEF UpMsg, Op
<1> QED BY <1>1, SayEffect

\* A step of the client at one peer has to keep the types and that peer's part.
LEMMA ClientSteps ==
    ASSUME LInv, NEW p \in Peer, UNCHANGED <<config, serverVars, way>>,
           LinkShape', \A q \in Peer \ {p} : Same(q), client'[p] # "idle", AuthOf(p)'
    PROVE  LInv'
<1>1. PermitInv'
    BY PermitsStay DEF LInv, PermitInv
<1>2. IdleOf(p)'
    BY DEF IdleOf
<1> QED BY <1>1, <1>2, OthersKept DEF LInv

\* What the client reads makes it say the next thing, or ends it.
LEMMA ClientReadsKeeps ==
    ASSUME LInv, NEW p \in Peer, ClientReads(p)
    PROVE  LInv'
<1> DEFINE msg == Head(down[p])
<1>0. /\ msg \in DownMsg /\ Tail(down[p]) \in Seq(DownMsg) /\ UnderWay(down[p], msg)
      /\ \A m : UnderWay(Tail(down[p]), m) => UnderWay(down[p], m)
    BY UnderWayHead DEF ClientReads, LInv, LinkShape
<1>1. /\ down' = [down EXCEPT ![p] = Tail(@)] /\ Waiting(p)
      /\ UNCHANGED <<config, keyVars, serverVars, way, ssh, reaped, failures>>
    BY DEF ClientReads
<1>2. /\ down' \in [Peer -> Seq(DownMsg)] /\ \A q \in Peer \ {p} : down'[q] = down[q]
      /\ \A m : UnderWay(down'[p], m) => UnderWay(down[p], m)
    BY <1>0, <1>1 DEF LInv, LinkShape
<1>3. told[p] = "none"
    BY <1>1 DEF LInv, LinkShape, AuthOf, Waiting
<1>4. NeedsAuth(p)' = NeedsAuth(p)
    BY <1>1 DEF NeedsAuth
<1> SUFFICES LinkShape' /\ (\A q \in Peer \ {p} : Same(q)) /\ client'[p] # "idle" /\ AuthOf(p)'
    BY <1>1, ClientSteps
<1>a. CASE /\ client[p] = "ack" /\ NeedsAuth(p) /\ client' = [client EXCEPT ![p] = "request"]
           /\ UNCHANGED <<up, told, creds, gone>>
    BY <1>1, <1>2, <1>3, <1>4, <1>a DEF LInv, LinkShape, Same, AuthOf
<1>b. CASE /\ Operate(p) /\ UNCHANGED <<told, creds, gone>>
           /\ \/ client[p] = "ack" /\ ~NeedsAuth(p)
              \/ client[p] = "result" /\ msg = "AuthOk"
    <2> HIDE DEF msg
    <2>1. NeedsAuth(p) => creds[p] = "good"
        BY <1>0, <1>b DEF LInv, AuthOf
    <2> PICK to \in {"closing", "answer"} : client' = [client EXCEPT ![p] = to]
        BY <1>b, OperateEffect
    <2>2. LinkShape'
        BY <1>1, <1>2, <1>b, OperateEffect DEF LInv, LinkShape
    <2>3. \A q \in Peer \ {p} : Same(q)
        BY <1>1, <1>2, <1>b, OperateEffect DEF LInv, LinkShape, Same
    <2>4. client'[p] = to
        BY DEF LInv, LinkShape
    <2>5. AuthOf(p)'
        BY <1>1, <1>2, <1>3, <1>4, <1>b, <2>1, <2>4, OperateEffect DEF LInv, AuthOf
    <2> QED BY <2>2, <2>3, <2>4, <2>5
<1>c. CASE /\ client[p] = "request" /\ UNCHANGED <<told, gone>>
           /\ \E c \in Credentials : creds' = [creds EXCEPT ![p] = c]
           /\ Say(p, "AuthResponse") /\ client' = [client EXCEPT ![p] = "result"]
    <2> PICK c \in Credentials : creds' = [creds EXCEPT ![p] = c]
        BY <1>c
    <2>1. "AuthResponse" \in UpMsg
        BY DEF UpMsg
    <2>2. LinkShape'
        BY <1>1, <1>2, <1>c, <2>1, SayEffect DEF LInv, LinkShape
    <2>3. \A q \in Peer \ {p} : Same(q)
        BY <1>1, <1>2, <1>c, <2>1, SayEffect DEF LInv, LinkShape, Same
    <2>4. client'[p] = "result" /\ creds'[p] = c /\ creds[p] = "none"
        BY <1>c DEF LInv, LinkShape, AuthOf
    <2>5. AuthOf(p)'
        BY <1>1, <1>2, <1>3, <1>4, <1>c, <2>4 DEF LInv, AuthOf, Credentials
    <2> QED BY <2>2, <2>3, <2>4, <2>5
<1>d. CASE client[p] = "result" /\ msg = "AuthFailed" /\ Finish(p, "refused") /\ UNCHANGED <<up, creds>>
    <2> HIDE DEF msg
    <2>1. creds[p] = "bad" /\ phase[p] = "closed"
        BY <1>0, <1>d DEF LInv, AuthOf
    <2> QED BY <1>1, <1>2, <1>3, <1>4, <1>d, <2>1 DEF LInv, LinkShape, Same, AuthOf, Finish
<1>e. CASE /\ client[p] \in {"answer", "closing"} /\ UNCHANGED <<up, creds>>
           /\ \/ /\ told' = [told EXCEPT ![p] = "ok"] /\ client' = [client EXCEPT ![p] = "session"]
                 /\ UNCHANGED gone
              \/ Finish(p, "ok")
    <2>1. NeedsAuth(p) => creds[p] = "good"
        BY <1>e DEF LInv, AuthOf
    <2>2. LinkShape'
        BY <1>1, <1>2, <1>e DEF LInv, LinkShape, Finish
    <2>3. \A q \in Peer \ {p} : Same(q)
        BY <1>1, <1>2, <1>e DEF LInv, LinkShape, Finish, Same
    <2>4. told'[p] = "ok" /\ client'[p] \in {"session", "done"}
        BY <1>e DEF LInv, LinkShape, Finish
    <2>5. AuthOf(p)'
        BY <1>1, <1>2, <1>4, <1>e, <2>1, <2>4 DEF LInv, AuthOf
    <2> QED BY <2>2, <2>3, <2>4, <2>5
<1> QED BY <1>a, <1>b, <1>c, <1>d, <1>e DEF ClientReads

LEMMA PeerKeeps ==
    ASSUME LInv, NEW p \in Peer, ClientEof(p) \/ SshEof(p) \/ Reap(p) \/ SshSteps(p) \/ UserStep(p)
    PROVE  LInv'
<1>1. CASE ClientEof(p)
    <2>1. told[p] = "none" /\ client[p] # "idle"
        BY <1>1 DEF ClientEof, Waiting, LInv, LinkShape, AuthOf
    <2>2. LinkShape' /\ client'[p] \in {"eof", "done"}
        BY <1>1, ZenonT(30) DEF ClientEof, LInv, LinkShape, Finish
    <2>3. \A q \in Peer \ {p} : Same(q)
        BY <1>1 DEF ClientEof, LInv, LinkShape, Finish, Same
    <2>4. told'[p] \in {"none", "ok", "closed"} /\ (told'[p] = "ok" => client[p] = "closing")
          /\ (told'[p] # "none" => client'[p] = "done")
        BY <1>1, <2>1 DEF ClientEof, LInv, LinkShape, Finish
    <2>5. AuthOf(p)'
        BY <1>1, <2>1, <2>2, <2>4 DEF ClientEof, LInv, AuthOf, NeedsAuth
    <2> QED BY <1>1, <2>2, <2>3, <2>5, ClientSteps DEF ClientEof
<1>2. CASE SshEof(p)
    <2>1. /\ told'[p] \in {"ssh", "closed"} /\ (told'[p] = "ssh" => ssh[p] = "failed") /\ client'[p] = "done"
          /\ client[p] = "eof" /\ LinkShape'
        BY <1>2 DEF SshEof, LInv, LinkShape, Finish
    <2>2. \A q \in Peer \ {p} : Same(q)
        BY <1>2 DEF SshEof, LInv, LinkShape, Finish, Same
    <2>3. AuthOf(p)'
        BY <1>2, <2>1 DEF SshEof, LInv, AuthOf, NeedsAuth
    <2> QED BY <1>2, <2>1, <2>2, <2>3, ClientSteps DEF SshEof
<1>3. CASE Reap(p)
    <2>1. LinkShape' /\ PermitInv'
        BY <1>3, PermitsStay DEF Reap, LInv, LinkShape, PermitInv
    <2>2. \A q \in Peer : Same(q)
        BY <1>3 DEF Reap, Same
    <2> QED BY <1>3, <2>1, <2>2, OthersKept DEF LInv, Reap
<1>4. CASE SshSteps(p)
    <2>1. UNCHANGED <<config, keyVars, up, down, way, client, told, creds, gone, reaped, failures>>
          /\ ssh[p] = "running"
        BY <1>4 DEF SshSteps
    <2>2. /\ permits' \in [Permitted -> Nat] /\ phase' \in [Peer -> Phases] /\ holds' \in [Peer -> BOOLEAN]
          /\ ssh' \in [Peer -> {"none", "running", "failed", "clean"}]
        BY <1>4, CloseShape DEF SshSteps, Goto, LInv, LinkShape, Phases
    <2>3. PermitInv'
        BY <1>4, CloseReturns, PermitsStay DEF SshSteps, Goto, Closed, LInv, LinkShape, PermitInv
    <2>4. \A q \in Peer \ {p} : Same(q)
        BY <1>4 DEF SshSteps, Goto, Close, LInv, LinkShape, Same
    <2>5. \/ phase'[p] = phase[p]
          \/ phase[p] = "starting" /\ phase'[p] \in {"hello", "closed"}
        BY <1>4 DEF SshSteps, Goto, Close, LInv, LinkShape
    <2>6. IdleOf(p)' /\ AuthOf(p)'
        <3>1. client[p] = "idle" => phase[p] = "none"
            BY DEF LInv, IdleOf
        <3> QED BY <2>1, <2>5, <3>1 DEF LInv, IdleOf, AuthOf, NeedsAuth
    <2> QED BY <2>1, <2>2, <2>3, <2>4, <2>6, OthersKept DEF LInv, LinkShape
<1>5. CASE Quit(p)
    <2>1. /\ LinkShape' /\ client'[p] = "done" /\ told'[p] = IF told[p] = "none" THEN "quit" ELSE told[p]
        BY <1>5 DEF Quit, LInv, LinkShape, Finish
    <2>2. \A q \in Peer \ {p} : Same(q)
        BY <1>5 DEF Quit, LInv, LinkShape, Finish, Same
    <2>3. AuthOf(p)'
        BY <1>5, <2>1 DEF Quit, LInv, AuthOf, NeedsAuth
    <2> QED BY <1>5, <2>1, <2>2, <2>3, ClientSteps DEF Quit
<1>6. ASSUME NEW w \in Way, Dial(p, w) \/ DialOther(p, w) PROVE LInv'
    <2>1. /\ client[p] = "idle" /\ phase[p] = "none" /\ up[p] = <<>> /\ down[p] = <<>>
          /\ told[p] = "none" /\ creds[p] = "none" /\ ~holds[p]
        BY <1>6 DEF Dial, DialOther, LInv, IdleOf, PermitInv, Closed
    <2>2. /\ way' = [way EXCEPT ![p] = w] /\ UNCHANGED <<config, down, creds, reaped, failures, permits, holds>>
        BY <1>6 DEF Dial, DialOther, Goto
    <2>3. up' \in [Peer -> Seq(UpMsg)] /\ (\A q \in Peer \ {p} : up'[q] = up[q])
          /\ ~UnderWay(up'[p], "AuthResponse")
        <3>1. CASE up' = up
            BY <2>1, <3>1, UnderWayEmpty DEF LInv, LinkShape
        <3>2. CASE Say(p, "Hello")
            BY <2>1, <3>2, UnderWayEmpty, SayEffect DEF UpMsg
        <3>3. ASSUME NEW said \in OutOfTurn, up' = [up EXCEPT ![p] = said]
              PROVE  up' \in [Peer -> Seq(UpMsg)] /\ (\A q \in Peer \ {p} : up'[q] = up[q])
                     /\ ~UnderWay(up'[p], "AuthResponse")
            <4>1. said \in Seq(UpMsg) /\ \A i \in 1 .. Len(said) : said[i] # "AuthResponse"
                <5>1. said = <<>> \/ said = <<"create">> \/ said = <<"Hello", "create">>
                    BY DEF OutOfTurn
                <5>2. CASE said = <<>>
                    BY <5>2
                <5>3. CASE said = <<"create">>
                    BY <5>3 DEF UpMsg, Op
                <5>4. CASE said = <<"Hello", "create">>
                    BY <5>4 DEF UpMsg, Op
                <5> QED BY <5>1, <5>2, <5>3, <5>4
            <4>2. ~UnderWay(said, "AuthResponse")
                BY <4>1 DEF UnderWay
            <4> QED BY <3>3, <4>1, <4>2 DEF LInv, LinkShape
        <3> QED BY <1>6, <3>1, <3>2, <3>3 DEF Dial, DialOther
    <2>4. LinkShape'
        <3>1. phase' \in [Peer -> Phases] /\ way' \in [Peer -> Way \cup {"none"}]
            BY <1>6, <2>2, ZenonT(30) DEF Dial, DialOther, Goto, LInv, LinkShape, Phases
        <3>2. ssh' \in [Peer -> {"none", "running", "failed", "clean"}] /\ gone' \in [Peer -> BOOLEAN]
            BY <1>6 DEF Dial, DialOther, Finish, LInv, LinkShape
        <3>3. /\ client' = [client EXCEPT ![p] = "done"] \/ client' = [client EXCEPT ![p] = "ack"]
                    \/ client' = [client EXCEPT ![p] = "silent"]
              /\ told' = [told EXCEPT ![p] = "failed"] \/ told' = told
            BY <1>6 DEF Dial, DialOther, Finish
        <3> QED BY <2>2, <2>3, <3>1, <3>2, <3>3, SMTT(30) DEF LInv, LinkShape
    <2>5. phase'[p] \in {"none", "starting", "arriving"} /\ \A q \in Peer \ {p} : phase'[q] = phase[q]
        BY <1>6, <2>1 DEF Dial, DialOther, Goto, LInv, LinkShape
    <2>6. PermitInv'
        BY <2>1, <2>2, <2>5, PermitsStay DEF LInv, LinkShape, PermitInv
    <2>7. \A q \in Peer \ {p} : Same(q)
        BY <1>6, <2>2, <2>3, <2>5 DEF Dial, DialOther, Finish, LInv, LinkShape, Same
    <2>8. \/ client'[p] = "done" /\ told'[p] = "failed"
          \/ client'[p] \in {"ack", "silent"} /\ told'[p] = "none"
        BY <1>6, <2>1 DEF Dial, DialOther, Finish, LInv, LinkShape
    <2>9. IdleOf(p)' /\ AuthOf(p)'
        BY <2>1, <2>2, <2>3, <2>5, <2>8, UnderWayEmpty DEF IdleOf, AuthOf
    <2> QED BY <2>2, <2>4, <2>6, <2>7, <2>9, OthersKept DEF LInv
<1> QED BY <1>1, <1>2, <1>3, <1>4, <1>5, <1>6 DEF UserStep

\* The failure of a listener ends every connection it does not own as a process of
\* its own, and the process with all its permits.
LEMMA ListenerFailsKeeps ==
    ASSUME LInv, ListenerFails
    PROVE  LInv'
<1> USE DEF ListenerFails
<1>1. LinkShape'
    BY AccessAssumption DEF Fault, LInv, LinkShape, Phases
<1>2. PermitInv'
    <2>1. \A w \in Permitted : Held(w)' = {}
        BY DEF Held
    <2>2. \A w \in Permitted : permits'[w] = MAX_CONCURRENT_SESSIONS
        OBVIOUS
    <2> QED BY <2>1, <2>2, FS_EmptySet, AccessAssumption DEF PermitInv
<1>3. ASSUME NEW p \in Peer PROVE IdleOf(p)' /\ AuthOf(p)'
    <2>0. phase' = [q \in Peer |-> IF way[q] # "ssh" /\ phase[q] \notin Closed THEN "closed" ELSE phase[q]]
        OBVIOUS
    <2>2. UNCHANGED <<config, clientVars, down>>
        OBVIOUS
    <2> HIDE DEF ListenerFails
    <2>1. phase'[p] = phase[p] \/ (phase'[p] = "closed" /\ phase[p] \notin Closed)
        BY <2>0, Zenon
    <2> QED BY <2>1, <2>2 DEF LInv, IdleOf, AuthOf, NeedsAuth, Closed
<1> QED BY <1>1, <1>2, <1>3 DEF LInv

\* The programs and the administrator touch no connection.
LEMMA LinkStep ==
    ASSUME LInv, [Next]_vars
    PROVE  LInv'
<1>1. ASSUME UNCHANGED <<config, connVars>>, failures' \in 0 .. MaxFailures PROVE LInv'
    <2>1. LinkShape' /\ PermitInv'
        BY <1>1, PermitsStay DEF LInv, LinkShape, PermitInv
    <2>2. \A p \in Peer : Same(p)
        BY <1>1 DEF Same
    <2> QED BY <1>1, <2>1, <2>2, OthersKept DEF LInv
<1>2. ASSUME NEW g \in Program, CheckPair(g) \/ WriteCert(g) \/ WriteKey(g) PROVE LInv'
    BY <1>1, <1>2 DEF CheckPair, WriteCert, WriteKey, WriteKeyTo, LInv, LinkShape
<1>3. ASSUME NEW g \in Program, ProgramDies(g) PROVE LInv'
    BY <1>1, <1>3, AccessAssumption DEF ProgramDies, Fault, LInv, LinkShape
<1>4. ASSUME NEW f \in Part, LoseFile(f) PROVE LInv'
    BY <1>1, <1>4, AccessAssumption DEF LoseFile, Fault, LInv, LinkShape
<1>5. CASE ReadCert \/ ReadKey \/ Restart \/ UNCHANGED vars
    BY <1>1, <1>5 DEF ReadCert, ReadKey, Restart, LInv, LinkShape
<1> QED BY <1>2, <1>3, <1>4, <1>5, ListenerFailsKeeps, ServerKeeps, ClientReadsKeeps, PeerKeeps
        DEF Next, StartStep, Trouble, ClientStep, SshStep

LEMMA InitKeeps == Init => IInv
<1> SUFFICES ASSUME Init PROVE IInv
    OBVIOUS
<1> USE AccessAssumption DEF Init
<1>1. KInv
    <2>1. KeyShape
        <3>1. file \in [Part -> 0 .. 3] /\ legacy \in BOOLEAN /\ overlap \in BOOLEAN /\ broken \in BOOLEAN
            <4>1. file \in [Part -> {0, 1}] /\ legacy \in BOOLEAN /\ ~overlap /\ ~broken
                OBVIOUS
            <4>2. overlap \in BOOLEAN /\ broken \in BOOLEAN
                OBVIOUS
            <4> HIDE DEF Init
            <4> QED BY <4>1, <4>2
        <3>2. /\ read \in [Part -> 0 .. 3 \cup {LegacyPair}]
              /\ program \in [Program -> {"check", "cert", "key", "read_cert", "read_key", "up", "exited", "done"}]
            OBVIOUS
        <3> QED BY <3>1, <3>2 DEF KeyShape
    <2>2. \A g \in Program : program[g] = "check"
        OBVIOUS
    <2>3. Complete => file["cert"] = file["key"]
        BY DEF Complete, Part
    <2>4. "server" \in Program
        BY DEF Program
    <2>5. PairOf
        BY <2>2, <2>3, <2>4 DEF PairOf, WritingBy, Writing
    <2> QED BY <2>1, <2>5 DEF KInv, PairInv
<1>2. LinkShape
    BY DEF LinkShape, Phases
<1>3. PermitInv
    <2>1. \A w \in Permitted : Held(w) = {}
        BY DEF Held
    <2>2. \A w \in Permitted : permits[w] = MAX_CONCURRENT_SESSIONS
        OBVIOUS
    <2>3. \A p \in Peer : ~holds[p]
        OBVIOUS
    <2>4. \A w \in Permitted : IsFiniteSet(Held(w)) /\ Cardinality(Held(w)) = 0
        BY <2>1, FS_EmptySet
    <2> HIDE DEF Init
    <2> QED BY <2>2, <2>3, <2>4, AccessAssumption DEF PermitInv
<1>4. \A p \in Peer : IdleOf(p) /\ AuthOf(p)
    BY UnderWayEmpty DEF IdleOf, AuthOf
<1> QED BY <1>1, <1>2, <1>3, <1>4 DEF IInv, LInv

THEOREM AccessInvariance == Spec => []IInv
<1>1. IInv /\ [Next]_vars => IInv'
    BY KeyStep, LinkStep DEF IInv
<1> QED BY InitKeeps, <1>1, PTL DEF Spec

\* The safety of the ways in, for any number of connections, permits and failures:
\* every permit taken is held by one connection that is not over, no connection is
\* past authentication whose user PAM has not accepted, and the server shows one key
\* pair as long as the pair on disk was written by one program without a fault.
THEOREM AccessIsSafe == Spec => []AccessSafety
<1>1. IInv => TypeOK
    <2> SUFFICES ASSUME IInv PROVE TypeOK
        OBVIOUS
    <2>1. \A w \in Permitted : permits[w] \in 0 .. MAX_CONCURRENT_SESSIONS
        <3> TAKE w \in Permitted
        <3>1. Cardinality(Held(w)) \in Nat /\ permits[w] \in Nat
            BY FS_CardinalityType DEF IInv, LInv, PermitInv, LinkShape
        <3> QED BY <3>1, AccessAssumption DEF IInv, LInv, PermitInv
    <2>2. permits \in [Permitted -> 0 .. MAX_CONCURRENT_SESSIONS]
        BY <2>1 DEF IInv, LInv, LinkShape
    <2> QED BY <2>2 DEF IInv, KInv, KeyShape, LInv, LinkShape, TypeOK
<1>2. IInv => PermitsAddUp
    BY DEF IInv, LInv, PermitInv, Held, PermitsAddUp
<1>3. IInv => AuthSound
    BY DEF IInv, LInv, AuthOf, AuthSound
<1>4. IInv => KeyPairKept
    <2> SUFFICES ASSUME IInv, ~overlap, ~broken
                 PROVE  Cardinality(served) <= 1 /\ (~Writing /\ Complete => file["cert"] = file["key"])
        BY DEF KeyPairKept
    <2>1. served \subseteq {Current} /\ (~Writing /\ Complete => file["cert"] = file["key"])
        BY DEF IInv, KInv, PairInv, PairOf
    <2>2. IsFiniteSet({Current}) /\ Cardinality({Current}) = 1
        BY FS_Singleton
    <2>3. Cardinality(served) <= Cardinality({Current})
        BY <2>1, <2>2, FS_Subset
    <2> QED BY <2>1, <2>2, <2>3
<1> QED BY AccessInvariance, <1>1, <1>2, <1>3, <1>4, PTL DEF AccessSafety
=============================================================================
