------------------------------- MODULE Access -------------------------------
(***************************************************************************)
(* How a client gets in: the listeners of termland-server and the start of *)
(* a connection, up to the message that selects a session (main.rs,        *)
(* transport.rs, quic.rs, webtransport.rs, auth.rs), the server's key pair *)
(* (tls.rs), and the client's side of both (connection.rs), ssh included.  *)
(*                                                                         *)
(* A connection comes by TCP, with or without TLS, by QUIC, by WebTransport*)
(* or by ssh, where sshd starts a server of its own for it.  TCP and QUIC  *)
(* each have their own permits; WebTransport has none.  What PAM, TLS, ssh *)
(* and the network do is external: each may succeed or fail.  Sessions     *)
(* themselves are in SessionRegistry and SessionStream; here one lasts     *)
(* until its teardown, which may hang.                                     *)
(***************************************************************************)
EXTENDS Integers, Sequences, FiniteSets

CONSTANTS
    Peer,                    \* connections
    MAX_CONCURRENT_SESSIONS,
    WaysOf,                  \* bound: the ways each may come
    MaxFailures              \* bound: crashes, failed listeners, lost key files

Way == {"tcp", "quic", "wt", "ssh"}
Permitted == {"tcp", "quic"}      \* the ways with a semaphore
Credentials == {"good", "bad", "newline"}
Op == {"list", "close", "create"}
Part == {"cert", "key"}
Program == {"server", "command"}  \* termland-server as a service, and --generate-cert

ASSUME AccessAssumption ==
    MAX_CONCURRENT_SESSIONS \in Nat \ {0} /\ WaysOf \in [Peer -> SUBSET Way] /\ MaxFailures \in Nat

VARIABLES
    \* --- the configuration
    require_auth, tls,
    \* --- the key pair: whose each file is, 0 for absent, 1 for an old one
    file, legacy,      \* ... and whether root has a pair in its old place
    program,           \* where each program is
    read,              \* what the server has read of the pair
    served,            \* the pairs the server has presented
    overlap, broken,   \* two programs have generated at once; one died or a file was lost
    \* --- the server's side of connections
    permits, phase, holds,
    \* --- the messages, and the client's side
    up, down, way, client, told, creds, gone,
    ssh, reaped,
    failures

keyVars == <<file, legacy, program, read, served, overlap, broken>>
connVars == <<permits, phase, holds, up, down, way, client, told, creds, gone, ssh, reaped>>
config == <<require_auth, tls>>
vars == <<config, keyVars, connVars, failures>>

Init ==
    /\ require_auth \in BOOLEAN /\ tls \in BOOLEAN
    /\ file \in [Part -> {0, 1}] /\ legacy \in BOOLEAN
    /\ program = [g \in Program |-> "check"]
    /\ read = [f \in Part |-> 0] /\ served = {} /\ overlap = FALSE /\ broken = FALSE
    /\ permits = [w \in Permitted |-> MAX_CONCURRENT_SESSIONS]
    /\ phase = [p \in Peer |-> "none"] /\ holds = [p \in Peer |-> FALSE]
    /\ up = [p \in Peer |-> <<>>] /\ down = [p \in Peer |-> <<>>]
    /\ way = [p \in Peer |-> "none"] /\ client = [p \in Peer |-> "idle"]
    /\ told = [p \in Peer |-> "none"] /\ creds = [p \in Peer |-> "none"]
    /\ gone = [p \in Peer |-> FALSE]
    /\ ssh = [p \in Peer |-> "none"] /\ reaped = [p \in Peer |-> FALSE]
    /\ failures = 0

Fault == failures < MaxFailures /\ failures' = failures + 1
Up == program["server"] = "up"

\* Bound: connections are followed where the pair was there from the start, and files
\* are lost where there are none; what the pair is does not matter to a connection.
Settled == served = {1} /\ ~legacy /\ program["command"] = "done" /\ ~broken
-----------------------------------------------------------------------------
(* tls.rs: the key pair.  The command runs while the server does not serve:   *)
(* later it could only matter to the server's next start.                     *)

Complete == \A f \in Part : file[f] # 0
\* The pair of a program: its own number, above the old one's.
Pair(g) == IF g = "server" THEN 2 ELSE 3
LegacyPair == 9
Runs(g, at) == program[g] = at /\ (g = "command" => ~Up)

\* default_cert_key, and the check in load_or_generate_cert and generate_if_missing:
\* a pair left in the old place is used if the new place lacks one.
CheckPair(g) ==
    /\ Runs(g, "check")
    /\ LET old == ~Complete /\ legacy
           generates == ~Complete /\ ~legacy
       IN  /\ program' = [program EXCEPT ![g] = CASE generates -> "cert"
                                                 [] ~generates /\ g = "command" -> "done"
                                                 [] OTHER -> IF old THEN "read_key" ELSE "read_cert"]
           /\ read' = IF old /\ g = "server" THEN [read EXCEPT !["cert"] = LegacyPair] ELSE read
           /\ overlap' = (overlap \/ (generates /\ \E h \in Program \ {g} : program[h] \in {"cert", "key"}))
    /\ UNCHANGED <<config, file, legacy, served, broken, connVars, failures>>

\* generate_self_signed: the certificate, then the key, over whatever is there.
WriteCert(g) ==
    /\ Runs(g, "cert")
    /\ file' = [file EXCEPT !["cert"] = Pair(g)] /\ program' = [program EXCEPT ![g] = "key"]
    /\ UNCHANGED <<config, legacy, read, served, overlap, broken, connVars, failures>>

WriteKeyTo(g, kept) ==
    /\ Runs(g, "key")
    /\ file' = IF kept THEN file ELSE [file EXCEPT !["key"] = Pair(g)]
    /\ program' = [program EXCEPT ![g] = IF g = "server" THEN "read_cert" ELSE "done"]
    /\ UNCHANGED <<config, legacy, read, served, overlap, broken, connVars, failures>>

\* Mutant: a key that is there is kept.
WriteKeyIfMissing(g) == WriteKeyTo(g, file["key"] # 0)
WriteKey(g) == WriteKeyTo(g, FALSE)

\* load_or_generate_cert reads the two files; with_single_cert (rustls, external)
\* refuses a key that is not the certificate's.
ReadCert ==
    /\ program["server"] = "read_cert"
    /\ program' = [program EXCEPT !["server"] = "read_key"]
    /\ read' = [read EXCEPT !["cert"] = file["cert"]]
    /\ UNCHANGED <<config, file, legacy, served, overlap, broken, connVars, failures>>

ReadKey ==
    /\ program["server"] = "read_key"
    /\ read' = [read EXCEPT !["key"] = IF read["cert"] = LegacyPair THEN LegacyPair ELSE file["key"]]
    /\ program' = [program EXCEPT !["server"] =
         IF read'["cert"] = read'["key"] /\ read["cert"] # 0 THEN "up" ELSE "exited"]
    /\ served' = IF program'["server"] = "up" THEN served \cup {read["cert"]} ELSE served
    /\ UNCHANGED <<config, file, legacy, overlap, broken, connVars, failures>>

\* A program dies halfway, or an administrator loses a file.
ProgramDies(g) ==
    /\ program[g] \in {"cert", "key"} /\ Fault
    /\ program' = [program EXCEPT ![g] = IF g = "server" THEN "exited" ELSE "done"]
    /\ broken' = TRUE
    /\ UNCHANGED <<config, file, legacy, read, served, overlap, connVars>>

LoseFile(f) ==
    /\ file[f] # 0 /\ (\A p \in Peer : client[p] = "idle") /\ Fault /\ file' = [file EXCEPT ![f] = 0] /\ broken' = TRUE
    /\ \A g \in Program : program[g] \in {"check", "exited", "done", "up"}
    /\ UNCHANGED <<config, legacy, program, read, served, overlap, connVars>>

\* Restart=on-failure (the service file, external).
Restart ==
    /\ program["server"] = "exited"
    /\ program' = [program EXCEPT !["server"] = "check"] /\ read' = [f \in Part |-> 0]
    /\ UNCHANGED <<config, file, legacy, served, overlap, broken, connVars, failures>>
-----------------------------------------------------------------------------
(* The server's side of a connection. *)

Closed == {"none", "closed"}
Send(p, msg) == down' = [down EXCEPT ![p] = Append(@, msg)]

\* Mutant: a connection that fails its handshake keeps its permit.
CloseHolding(p) ==
    /\ phase' = [phase EXCEPT ![p] = "closed"]
    /\ UNCHANGED <<permits, holds>>

\* The end of a connection's task, or of its own process, gives back the permit.
Close(p) ==
    /\ phase' = [phase EXCEPT ![p] = "closed"]
    /\ holds' = [holds EXCEPT ![p] = FALSE]
    /\ permits' = IF holds[p] THEN [permits EXCEPT ![way[p]] = @ + 1] ELSE permits

serverVars == <<permits, phase, holds>>
clientVars == <<up, way, client, told, creds, gone, ssh, reaped>>
Goto(p, to) == phase' = [phase EXCEPT ![p] = to] /\ UNCHANGED <<permits, holds>>

\* Mutant: the attempt waits for a permit.
RefuseLater(p) == UNCHANGED serverVars

\* accept: with no permit left TCP drops the socket and QUIC refuses.
Refuse(p) == phase' = [phase EXCEPT ![p] = "closed"] /\ UNCHANGED <<permits, holds>>

Accept(p) ==
    /\ Up /\ phase[p] = "arriving"
    /\ IF way[p] \notin Permitted THEN Goto(p, "request")
       ELSE IF permits[way[p]] = 0 THEN Refuse(p)
       ELSE /\ permits' = [permits EXCEPT ![way[p]] = @ - 1]
            /\ holds' = [holds EXCEPT ![p] = TRUE]
            /\ phase' = [phase EXCEPT ![p] = IF way[p] = "tcp" /\ ~tls THEN "hello" ELSE "handshake"]
    /\ UNCHANGED <<config, keyVars, clientVars, down, failures>>

\* TLS and QUIC handshakes; the path and the origin a WebTransport request names.
HandshakeFails(p) ==
    /\ phase[p] \in {"handshake", "request"} /\ Close(p)
    /\ UNCHANGED <<config, keyVars, clientVars, down, failures>>

HandshakeDone(p) ==
    /\ phase[p] \in {"handshake", "request"} /\ ~gone[p]
    /\ Goto(p, IF way[p] = "tcp" THEN "hello" ELSE "stream")
    /\ UNCHANGED <<config, keyVars, clientVars, down, failures>>

\* accept_bi: the peer's first bytes make its stream known.
StreamOpened(p) ==
    /\ phase[p] = "stream" /\ up[p] # <<>> /\ Goto(p, "hello")
    /\ UNCHANGED <<config, keyVars, clientVars, down, failures>>

\* Nothing more comes from a peer that has gone: the end of the stream, an error, a
\* connection lost.  A session is torn down first, which may take for ever.
Lost(p) == IF phase[p] = "session" THEN Goto(p, "teardown") ELSE Close(p)
Attended == {"handshake", "request", "stream", "hello", "auth", "control", "session"}

\* Mutant: only what comes by a stream is attended to.
PeerLostLate(p) ==
    /\ gone[p] /\ up[p] = <<>> /\ phase[p] \in Attended \ {"stream"} /\ Lost(p)
    /\ UNCHANGED <<config, keyVars, clientVars, down, failures>>

PeerLost(p) ==
    /\ gone[p] /\ up[p] = <<>> /\ phase[p] \in Attended /\ Lost(p)
    /\ UNCHANGED <<config, keyVars, clientVars, down, failures>>

TornDown(p) ==
    /\ phase[p] = "teardown" /\ Close(p)
    /\ UNCHANGED <<config, keyVars, clientVars, down, failures>>

TeardownHangs(p) ==
    /\ phase[p] = "teardown" /\ Goto(p, "hung")
    /\ UNCHANGED <<config, keyVars, clientVars, down, failures>>

\* handle_session: Hello, then AuthResponse if the server runs with --auth, then one
\* message after another until a session starts.  ssh has authenticated already.
NeedsAuth(p) == require_auth /\ way[p] # "ssh"

\* Mutant: an operation is taken while the answer to AuthRequest is awaited.
ExpectedEarly(at) == CASE at = "hello" -> {"Hello"} [] at = "auth" -> {"AuthResponse"} \cup Op [] OTHER -> Op

\* What handle_session takes where it is; anything else ends the connection.
Expected(at) == CASE at = "hello" -> {"Hello"} [] at = "auth" -> {"AuthResponse"} [] OTHER -> Op

Receive(p) ==
    /\ phase[p] \in {"hello", "auth", "control"} /\ up[p] # <<>>
    /\ up' = [up EXCEPT ![p] = Tail(@)]
    /\ LET msg == Head(up[p])
       IN  \/ /\ msg \notin Expected(phase[p]) /\ Close(p) /\ UNCHANGED down
          \/ /\ msg \in Expected(phase[p])
             /\ \/ /\ msg = "Hello" /\ Goto(p, IF NeedsAuth(p) THEN "auth" ELSE "control")
                   /\ down' = [down EXCEPT ![p] = @ \o
                        IF NeedsAuth(p) THEN <<"HelloAck", "AuthRequest">> ELSE <<"HelloAck">>]
                \/ msg = "AuthResponse" /\ Goto(p, "pam") /\ UNCHANGED down
                \/ msg \in {"list", "close"} /\ Goto(p, "control") /\ Send(p, "answer")
                \/ msg = "create" /\ Goto(p, "session") /\ Send(p, "answer")
    /\ UNCHANGED <<config, keyVars, way, client, told, creds, gone, ssh, reaped, failures>>

\* pam_authenticate_user, external; a failure is answered three seconds later.
PamErr(p) ==
    /\ phase[p] = "pam" /\ Close(p)
    /\ UNCHANGED <<config, keyVars, clientVars, down, failures>>

PamAnswers(p) ==
    /\ phase[p] = "pam"
    /\ CASE creds[p] = "good" -> Goto(p, "control") /\ Send(p, "AuthOk")
         [] creds[p] = "bad" -> Goto(p, "delay") /\ UNCHANGED down
         [] creds[p] = "newline" -> Close(p) /\ UNCHANGED down
    /\ UNCHANGED <<config, keyVars, clientVars, failures>>

\* Mutant: the wrong password is told, and the connection goes on.
DelayOverGoesOn(p) ==
    /\ phase[p] = "delay" /\ Goto(p, "control") /\ Send(p, "AuthFailed")
    /\ UNCHANGED <<config, keyVars, clientVars, failures>>

DelayOver(p) ==
    /\ phase[p] = "delay" /\ Close(p) /\ Send(p, "AuthFailed")
    /\ UNCHANGED <<config, keyVars, clientVars, failures>>

\* try_join!: the error of one listener's accept ends them all, and the process.
ListenerFails ==
    /\ Up /\ Fault /\ program' = [program EXCEPT !["server"] = "exited"]
    /\ LET ended == {p \in Peer : way[p] # "ssh" /\ phase[p] \notin Closed}
       IN  /\ phase' = [p \in Peer |-> IF p \in ended THEN "closed" ELSE phase[p]]
           /\ holds' = [p \in Peer |-> FALSE]
    /\ permits' = [w \in Permitted |-> MAX_CONCURRENT_SESSIONS]
    /\ UNCHANGED <<config, file, legacy, read, served, overlap, broken, clientVars, down>>
-----------------------------------------------------------------------------
(* The client: connection.rs, open_io and handshake, then a control operation or   *)
(* a session.  The browser and the mobile client speak the same messages.          *)

Waiting(p) == client[p] \in {"ack", "request", "result", "answer", "closing"}
Say(p, msg) == up' = [up EXCEPT ![p] = Append(@, msg)]
Finish(p, what) ==
    /\ told' = [told EXCEPT ![p] = what] /\ client' = [client EXCEPT ![p] = "done"]
    /\ gone' = [gone EXCEPT ![p] = TRUE]

\* open_io.  ssh is only spawned; anything else fails at once if nobody listens.
Dial(p, w) ==
    /\ client[p] = "idle" /\ w \in WaysOf[p] /\ Settled /\ way' = [way EXCEPT ![p] = w]
    /\ IF w # "ssh" /\ ~Up
         THEN Finish(p, "failed") /\ UNCHANGED <<serverVars, up, ssh>>
         ELSE /\ client' = [client EXCEPT ![p] = "ack"] /\ Say(p, "Hello")
              /\ Goto(p, IF w = "ssh" THEN "starting" ELSE "arriving")
              /\ ssh' = [ssh EXCEPT ![p] = IF w = "ssh" THEN "running" ELSE @]
              /\ UNCHANGED <<told, gone>>
    /\ UNCHANGED <<config, keyVars, down, creds, reaped, failures>>

\* A peer that is no such client: it says nothing, or what is not awaited, and reads
\* nothing.  Nothing in the server takes the silent one to task.
OutOfTurn == {<<>>, <<"create">>, <<"Hello", "create">>}
DialOther(p, w) ==
    /\ client[p] = "idle" /\ w \in WaysOf[p] \ {"ssh"} /\ Settled /\ Up
    /\ way' = [way EXCEPT ![p] = w] /\ client' = [client EXCEPT ![p] = "silent"]
    /\ \E said \in OutOfTurn : up' = [up EXCEPT ![p] = said]
    /\ Goto(p, "arriving")
    /\ UNCHANGED <<config, keyVars, down, told, creds, gone, ssh, reaped, failures>>

\* handshake, then the operation.
Operate(p) ==
    \E op \in Op :
      /\ Say(p, op)
      /\ client' = [client EXCEPT ![p] = IF op = "close" THEN "closing" ELSE "answer"]

ClientReads(p) ==
    /\ Waiting(p) /\ down[p] # <<>> /\ down' = [down EXCEPT ![p] = Tail(@)]
    /\ LET msg == Head(down[p])
       IN  \/ /\ client[p] = "ack" /\ msg = "HelloAck" /\ UNCHANGED <<told, creds, gone>>
              /\ IF NeedsAuth(p) THEN client' = [client EXCEPT ![p] = "request"] /\ UNCHANGED up ELSE Operate(p)
           \/ /\ client[p] = "request" /\ msg = "AuthRequest" /\ UNCHANGED <<told, gone>>
              /\ \E c \in Credentials : creds' = [creds EXCEPT ![p] = c]
              /\ Say(p, "AuthResponse") /\ client' = [client EXCEPT ![p] = "result"]
           \/ /\ client[p] = "result" /\ msg = "AuthOk" /\ Operate(p) /\ UNCHANGED <<told, creds, gone>>
           \/ /\ client[p] = "result" /\ msg = "AuthFailed" /\ Finish(p, "refused") /\ UNCHANGED <<up, creds>>
           \/ /\ client[p] \in {"answer", "closing"} /\ msg = "answer" /\ UNCHANGED <<up, creds>>
              /\ IF phase[p] = "session"
                   THEN /\ told' = [told EXCEPT ![p] = "ok"] /\ client' = [client EXCEPT ![p] = "session"]
                        /\ UNCHANGED gone
                   ELSE Finish(p, "ok")
    /\ UNCHANGED <<config, keyVars, serverVars, way, ssh, reaped, failures>>

\* The end of the stream.  run_control takes it for the answer to a close; ssh's end
\* may have a reason, which SshStdout waits for.
ClientEof(p) ==
    /\ Waiting(p) /\ down[p] = <<>> /\ phase[p] = "closed"
    /\ IF way[p] = "ssh" THEN client' = [client EXCEPT ![p] = "eof"] /\ UNCHANGED <<told, gone>>
       ELSE Finish(p, IF client[p] = "closing" THEN "ok" ELSE "closed")
    /\ UNCHANGED <<config, keyVars, serverVars, up, down, way, creds, ssh, reaped, failures>>

\* SshStdout at the end of ssh's output: what the reaping task says, within 2 s.
SshEof(p) ==
    /\ client[p] = "eof"
    /\ \E told_in_time \in BOOLEAN :
         /\ told_in_time => reaped[p]
         /\ Finish(p, IF told_in_time /\ ssh[p] = "failed" THEN "ssh" ELSE "closed")
    /\ UNCHANGED <<config, keyVars, serverVars, up, down, way, creds, ssh, reaped, failures>>

\* spawn_ssh_transport's task: the last line of stderr, and the exit status.
Reap(p) ==
    /\ ssh[p] \in {"failed", "clean"} /\ ~reaped[p] /\ reaped' = [reaped EXCEPT ![p] = TRUE]
    /\ UNCHANGED <<config, keyVars, serverVars, up, down, way, client, told, creds, gone, ssh, failures>>

\* ssh itself (external): it connects, fails, or ends with the session.
SshSteps(p) ==
    /\ ssh[p] = "running"
    /\ \/ phase[p] = "starting" /\ Goto(p, "hello") /\ UNCHANGED ssh
       \/ phase[p] = "starting" /\ Close(p) /\ ssh' = [ssh EXCEPT ![p] = "failed"]
       \/ phase[p] = "closed" /\ ssh' = [ssh EXCEPT ![p] = "clean"] /\ UNCHANGED serverVars
    /\ UNCHANGED <<config, keyVars, up, down, way, client, told, creds, gone, reaped, failures>>

\* The user gives up, the session ends at the client, or the client dies.
Quit(p) ==
    /\ client[p] \notin {"idle", "done"}
    /\ Finish(p, IF told[p] = "none" THEN "quit" ELSE told[p])
    /\ UNCHANGED <<config, keyVars, serverVars, up, down, way, creds, ssh, reaped, failures>>
-----------------------------------------------------------------------------
StartStep == (\E g \in Program : CheckPair(g) \/ WriteCert(g) \/ WriteKey(g)) \/ ReadCert \/ ReadKey
Trouble == (\E g \in Program : ProgramDies(g)) \/ (\E f \in Part : LoseFile(f)) \/ Restart \/ ListenerFails
ServerStep(p) ==
    \/ Accept(p) \/ HandshakeFails(p) \/ HandshakeDone(p) \/ StreamOpened(p)
    \/ PeerLost(p) \/ TornDown(p) \/ TeardownHangs(p)
    \/ Receive(p) \/ PamErr(p) \/ PamAnswers(p) \/ DelayOver(p)
ClientStep(p) == ClientReads(p) \/ ClientEof(p) \/ SshEof(p)
SshStep(p) == Reap(p) \/ SshSteps(p)
UserStep(p) == (\E w \in Way : Dial(p, w) \/ DialOther(p, w)) \/ Quit(p)

Next == StartStep \/ Trouble \/ \E p \in Peer : ServerStep(p) \/ ClientStep(p) \/ SshStep(p) \/ UserStep(p)

Spec == Init /\ [][Next]_vars

\* The tasks of the server and the client run; nobody need connect, quit or fail.
FairSpec == Spec /\ \A p \in Peer : WF_vars(ServerStep(p)) /\ WF_vars(ClientStep(p)) /\ WF_vars(SshStep(p))
-----------------------------------------------------------------------------
(* Properties. *)

Phases == {"none", "arriving", "starting", "request", "handshake", "stream", "hello", "auth", "pam",
           "delay", "control", "session", "teardown", "hung", "closed"}

TypeOK ==
    /\ phase \in [Peer -> Phases] /\ holds \in [Peer -> BOOLEAN]
    /\ permits \in [Permitted -> 0 .. MAX_CONCURRENT_SESSIONS]
    /\ client \in [Peer -> {"idle", "silent", "ack", "request", "result", "answer", "closing", "eof",
                            "session", "done"}]
    /\ told \in [Peer -> {"none", "ok", "refused", "closed", "ssh", "failed", "quit"}]
    /\ file \in [Part -> 0 .. 3] /\ failures \in 0 .. MaxFailures

\* Every permit taken is held by one connection that is not over, and each way in has
\* its own: no failure on the way in, wherever it happens, costs one for good.
PermitsAddUp ==
    /\ \A w \in Permitted :
         permits[w] + Cardinality({p \in Peer : holds[p] /\ way[p] = w}) = MAX_CONCURRENT_SESSIONS
    /\ \A p \in Peer : holds[p] => phase[p] \notin Closed

\* With --auth no connection gets to list, close or start sessions whose user PAM has
\* not accepted, or whose name could not be kept in a record; its client hears no
\* success, and hears of a refusal only for what was refused.
AuthSound ==
    \A p \in Peer :
      /\ NeedsAuth(p) /\ phase[p] \in {"control", "session", "teardown", "hung"} => creds[p] = "good"
      /\ NeedsAuth(p) /\ told[p] = "ok" => creds[p] = "good"
      /\ told[p] = "refused" => creds[p] = "bad" /\ phase[p] = "closed"
      /\ told[p] = "ssh" => ssh[p] = "failed"

\* The pair on disk is a pair, and the server keeps the fingerprint it has shown,
\* across restarts and whoever generates it, unless two programs generated at once,
\* one died halfway or a file was lost.
Writing == \E g \in Program : program[g] \in {"cert", "key"}
KeyPairKept ==
    (~overlap /\ ~broken) =>
      /\ Cardinality(served) <= 1
      /\ ~Writing /\ Complete => file["cert"] = file["key"]

\* The safety of the ways in.
AccessSafety == TypeOK /\ PermitsAddUp /\ AuthSound /\ KeyPairKept

\* The permit of a client that has gone comes back, wherever in the handshake, the
\* authentication or the session it went, unless the session's teardown hangs
\* (SessionStream shows that it may); one that only falls silent keeps its permit.
PermitsReturn == \A p \in Peer : (holds[p] /\ gone[p]) ~> (~holds[p] \/ phase[p] = "hung")

\* A client that waits for the server hears something: an answer, a refusal or the
\* end of the connection, even when all permits are held by peers that say nothing
\* and whatever becomes of the server.
ClientAnswered == \A p \in Peer : (Waiting(p) \/ client[p] = "eof") ~> told[p] # "none"
=============================================================================
