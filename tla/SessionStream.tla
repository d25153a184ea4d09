--------------------------- MODULE SessionStream ---------------------------
(***************************************************************************)
(* One streaming connection of termland-server: the task of run_session,   *)
(* the threads it spawns (capture, audio, clipboard and cursor watchers,   *)
(* input injection), the bounded channels between them, and the connection *)
(* to a desktop client whose session_loop is at the other end.             *)
(*                                                                         *)
(* Modelled for the transports that carry everything on one stream (TCP,   *)
(* TLS, SSH).  Message contents are left out: what matters is who waits    *)
(* for whom, who is told to stop, and what the session's end is taken for. *)
(***************************************************************************)
EXTENDS Integers, Sequences, FiniteSets

CONSTANTS
    Watcher,        \* the audio, clipboard and cursor threads of the session
    Cap,            \* capacity of each producer's channel
    DownCap,        \* messages the connection holds towards the client
    UpCap,          \* ... and towards the server
    MaxCommands,    \* bound: commands the client sends
    LinkCanFail,    \* the connection may break
    EncoderCanFail  \* a rebuilt video encoder may fail to open

\* The threads that feed the session loop, each through its own channel.
\* The watchers are spawned only once SessionReady has been sent; apart from
\* what they report they are alike.
Producer == {"capture"} \cup Watcher

ASSUME StreamAssumption ==
    /\ "capture" \notin Watcher
    /\ Cap \in [Producer -> Nat \ {0}]
    /\ DownCap \in Nat \ {0} /\ UpCap \in Nat \ {0}
    /\ MaxCommands \in Nat /\ LinkCanFail \in BOOLEAN
    /\ EncoderCanFail \in BOOLEAN

VARIABLES
    task,       \* control state of run_session
    sending,    \* what it is sending
    outcome,    \* SessionOutcome
    thread,     \* control state of each producer thread
    chan,       \* messages in each producer's channel
    rx,         \* receiver held by the session loop (Some)
    stop,       \* stop message sent to each producer
    input,      \* control state of the input thread
    inputs,     \* commands in the input channel
    alive,      \* the compositor runs
    closed,     \* registry::close has been called
    down,       \* messages under way to the client
    up,         \* messages under way to the server
    link,       \* the connection exists
    client,     \* control state of the client's session_loop
    commands    \* commands the client has sent so far

serverVars == <<task, sending, outcome, closed>>
threadVars == <<thread, chan, rx, stop, input, inputs>>
linkVars   == <<down, up, link, client, commands>>
vars       == <<serverVars, threadVars, alive, linkVars>>

TaskStates   == {"starting", "send", "loop", "stop", "join", "finish", "done"}
ThreadStates == {"off", "head", "work", "blocked", "again", "exited"}

\* Messages the session loop tells apart: SessionClose, SessionEnd, Ping and
\* everything it hands to the input thread.
Commands == {"close", "end", "ping", "input"}

\* The receivers of an ended task are gone.
ReceiverAlive == task # "done"

Init ==
    /\ task = "starting" /\ sending = "none" /\ outcome = "Detached"
    /\ thread = [p \in Producer |-> IF p = "capture" THEN "head" ELSE "off"]
    /\ chan = [p \in Producer |-> 0]
    /\ rx = [p \in Producer |-> TRUE]
    /\ stop = [p \in Producer |-> FALSE]
    /\ input = "connect" /\ inputs = 0
    /\ alive = TRUE /\ closed = FALSE
    /\ down = 0 /\ up = <<>> /\ link = TRUE
    /\ client = "wait" /\ commands = 0

----------------------------------------------------------------------------
(***************************************************************************)
(* The producer threads.                                                   *)
(***************************************************************************)

\* Mutant of CheckStop: only the capture thread looks at its stop channel.
CheckStopCaptureOnly(p) ==
    /\ thread[p] = "head"
    /\ thread' = [thread EXCEPT ![p] =
                    IF p = "capture" /\ (stop[p] \/ ~alive) THEN "exited" ELSE "work"]
    /\ UNCHANGED <<serverVars, chan, rx, stop, input, inputs, alive, linkVars>>

\* Top of the loop: leave on a stop message; the capture thread also leaves
\* when the compositor's pid is dead.  A stop sender that was merely dropped
\* is not a stop message.
CheckStop(p) ==
    /\ thread[p] = "head"
    /\ thread' = [thread EXCEPT ![p] =
                    IF stop[p] \/ (p = "capture" /\ ~alive) THEN "exited" ELSE "work"]
    /\ UNCHANGED <<serverVars, chan, rx, stop, input, inputs, alive, linkVars>>

\* Nothing to report: no damage, silence, the same clipboard, the same cursor,
\* but also a capture or an encode that fails while the compositor lives.
PollNothing(p) ==
    /\ thread[p] = "work"
    /\ thread' = [thread EXCEPT ![p] = "head"]
    /\ UNCHANGED <<serverVars, chan, rx, stop, input, inputs, alive, linkVars>>

\* Mutant of Produce: a failed send is not noticed.
ProduceIgnoresError(p) ==
    /\ thread[p] = "work"
    /\ thread' = [thread EXCEPT ![p] = IF ReceiverAlive THEN "blocked" ELSE "head"]
    /\ UNCHANGED <<serverVars, chan, rx, stop, input, inputs, alive, linkVars>>

\* Mutant of Produce: a frame that does not fit ends the thread (try_send).
ProduceOrQuit(p) ==
    /\ thread[p] = "work"
    /\ IF chan[p] < Cap[p]
       THEN /\ thread' = [thread EXCEPT ![p] = "head"]
            /\ chan' = [chan EXCEPT ![p] = @ + 1]
       ELSE thread' = [thread EXCEPT ![p] = "exited"] /\ UNCHANGED chan
    /\ UNCHANGED <<serverVars, rx, stop, input, inputs, alive, linkVars>>

\* blocking_send: fails without a receiver, otherwise waits for room.
Produce(p) ==
    /\ thread[p] = "work"
    /\ thread' = [thread EXCEPT ![p] =
                    IF ReceiverAlive THEN "blocked" ELSE "exited"]
    /\ UNCHANGED <<serverVars, chan, rx, stop, input, inputs, alive, linkVars>>

\* A round ends after its first message or has a second one: copied text and
\* then copied files, two packets of an encoder that catches up.
RoundGoesOn(p) ==
    \/ thread' = [thread EXCEPT ![p] = "head"]
    \/ thread[p] = "blocked" /\ thread' = [thread EXCEPT ![p] = "again"]

\* Mutant of SendCompletes: the channel is unbounded.
SendUnbounded(p) ==
    /\ thread[p] \in {"blocked", "again"}
    /\ IF ReceiverAlive
       THEN RoundGoesOn(p) /\ chan' = [chan EXCEPT ![p] = @ + 1]
       ELSE thread' = [thread EXCEPT ![p] = "exited"] /\ UNCHANGED chan
    /\ UNCHANGED <<serverVars, rx, stop, input, inputs, alive, linkVars>>

\* The message is in the channel, or its receiver is gone.
SendCompletes(p) ==
    /\ thread[p] \in {"blocked", "again"}
    /\ IF ReceiverAlive
       THEN /\ chan[p] < Cap[p]
            /\ RoundGoesOn(p) /\ chan' = [chan EXCEPT ![p] = @ + 1]
       ELSE thread' = [thread EXCEPT ![p] = "exited"] /\ UNCHANGED chan
    /\ UNCHANGED <<serverVars, rx, stop, input, inputs, alive, linkVars>>

\* The thread gives up: PulseAudio, wl-paste or the cursor protocol is missing
\* or fails; a capture error once the compositor is dead; no encoder opens
\* after a resize and init_encoder panics.
ThreadFails(p) ==
    /\ thread[p] = "work"
    /\ p = "capture" => (~alive \/ EncoderCanFail)
    /\ thread' = [thread EXCEPT ![p] = "exited"]
    /\ UNCHANGED <<serverVars, chan, rx, stop, input, inputs, alive, linkVars>>

\* input_thread: the injector connects, or the thread is gone and its queue
\* with it.
InputConnects ==
    /\ input = "connect"
    /\ \/ input' = "run" /\ UNCHANGED inputs
       \/ input' = "exited" /\ inputs' = 0
    /\ UNCHANGED <<serverVars, thread, chan, rx, stop, alive, linkVars>>

\* It injects in order; Stop, or the end of the channel, comes last.
Inject ==
    /\ input = "run"
    /\ \/ inputs > 0 /\ inputs' = inputs - 1 /\ UNCHANGED input
       \/ /\ inputs = 0 /\ task \in {"join", "done"}
          /\ input' = "exited" /\ UNCHANGED inputs
    /\ UNCHANGED <<serverVars, thread, chan, rx, stop, alive, linkVars>>

CompositorExits ==
    /\ alive /\ alive' = FALSE
    /\ UNCHANGED <<serverVars, threadVars, linkVars>>

----------------------------------------------------------------------------
(***************************************************************************)
(* run_session: start, session loop, teardown.                             *)
(***************************************************************************)

BeginSend(what) == task' = "send" /\ sending' = what

\* run_session returns with "?": senders, receivers and the connection are
\* dropped, nobody is told to stop and nobody is joined.
ReturnEarly == task' = "done" /\ sending' = "none" /\ link' = FALSE

\* The first frame arrives within 10 s and SessionReady is due, or it does not
\* (or the capture thread is gone) and the start has failed.
FirstFrame ==
    /\ task = "starting"
    /\ \/ /\ chan["capture"] > 0
          /\ chan' = [chan EXCEPT !["capture"] = @ - 1]
          /\ BeginSend("ready") /\ UNCHANGED link
       \/ ReturnEarly /\ UNCHANGED chan
    /\ UNCHANGED <<outcome, closed, thread, rx, stop, input, inputs, alive, down, up,
                   client, commands>>

\* A send ends: with room in the connection, or with an error.
Sent ==
    /\ task = "send" /\ link /\ down < DownCap
    /\ down' = down + 1
    /\ \/ /\ sending = "ready"
          /\ thread' = [p \in Producer |-> IF p \in Watcher THEN "head" ELSE thread[p]]
          /\ BeginSend("first")
       \/ /\ sending \in {"first", "item", "pong"}
          /\ task' = "loop" /\ sending' = "none" /\ UNCHANGED thread
       \/ /\ sending = "end"
          /\ task' = "stop" /\ sending' = "none" /\ UNCHANGED thread
    /\ UNCHANGED <<outcome, closed, chan, rx, stop, input, inputs, alive, up, link,
                   client, commands>>

SendFails ==
    /\ task = "send" /\ ~link
    /\ \/ sending \in {"ready", "first"} /\ ReturnEarly
       \/ /\ sending = "pong"
          /\ task' = "loop" /\ sending' = "none" /\ UNCHANGED link
       \/ /\ sending \in {"item", "end"}
          /\ task' = "stop" /\ sending' = "none" /\ UNCHANGED link
    /\ UNCHANGED <<outcome, closed, threadVars, alive, down, up, client, commands>>

\* Mutant of Forward: frames first (a biased select).
ForwardFramesFirst(p) ==
    /\ task = "loop" /\ rx[p] /\ chan[p] > 0
    /\ p # "capture" => chan["capture"] = 0
    /\ chan' = [chan EXCEPT ![p] = @ - 1]
    /\ BeginSend("item")
    /\ UNCHANGED <<outcome, closed, thread, rx, stop, input, inputs, alive, linkVars>>

\* select!: something has arrived in a producer's channel.
Forward(p) ==
    /\ task = "loop" /\ rx[p] /\ chan[p] > 0
    /\ chan' = [chan EXCEPT ![p] = @ - 1]
    /\ BeginSend("item")
    /\ UNCHANGED <<outcome, closed, thread, rx, stop, input, inputs, alive, linkVars>>

\* select!: a producer is gone and its channel drained.  Without the capture
\* thread the session is over; the others are no longer listened to.
ProducerGone(p) ==
    /\ task = "loop" /\ rx[p] /\ chan[p] = 0 /\ thread[p] = "exited"
    /\ IF p = "capture"
       THEN outcome' = "Gone" /\ BeginSend("end") /\ UNCHANGED rx
       ELSE rx' = [rx EXCEPT ![p] = FALSE] /\ UNCHANGED <<outcome, task, sending>>
    /\ UNCHANGED <<closed, thread, chan, stop, input, inputs, alive, linkVars>>

\* select!: the window list has changed.
WindowPoll ==
    /\ task = "loop"
    /\ BeginSend("item")
    /\ UNCHANGED <<outcome, closed, threadVars, alive, linkVars>>

\* select!: a message from the client.
Incoming ==
    /\ task = "loop" /\ up # <<>>
    /\ up' = Tail(up)
    /\ \/ /\ Head(up) = "close"
          /\ task' = "stop" /\ outcome' = "Closed" /\ UNCHANGED <<sending, inputs>>
       \/ /\ Head(up) = "end"
          /\ task' = "stop" /\ UNCHANGED <<outcome, sending, inputs>>
       \/ /\ Head(up) = "ping"
          /\ BeginSend("pong") /\ UNCHANGED <<outcome, inputs>>
       \/ /\ Head(up) = "input"
          /\ inputs' = IF input # "exited" THEN inputs + 1 ELSE inputs
          /\ UNCHANGED <<task, outcome, sending>>
    /\ UNCHANGED <<closed, thread, chan, rx, stop, input, alive, down, link,
                   client, commands>>

\* select!: the connection is gone, what was under way is lost or was read.
Disconnected ==
    /\ task = "loop" /\ ~link
    /\ task' = "stop"
    /\ UNCHANGED <<sending, outcome, closed, threadVars, alive, linkVars>>

\* Teardown tells every thread to stop ...
StopThreads ==
    /\ task = "stop" /\ task' = "join"
    /\ stop' = [p \in Producer |-> TRUE]
    /\ UNCHANGED <<sending, outcome, closed, thread, chan, rx, input, inputs, alive,
                   linkVars>>

\* Mutant of Join: the watchers are not waited for.
JoinCaptureOnly ==
    /\ task = "join" /\ thread["capture"] = "exited" /\ input = "exited"
    /\ task' = "finish"
    /\ UNCHANGED <<sending, outcome, closed, threadVars, alive, linkVars>>

\* ... and joins them one after the other; the receivers are still held, and
\* nobody reads from them.
Join ==
    /\ task = "join"
    /\ \A p \in Producer : thread[p] = "exited"
    /\ input = "exited"
    /\ task' = "finish"
    /\ UNCHANGED <<sending, outcome, closed, threadVars, alive, linkVars>>

\* The session's compositor is left running or closed (registry::close), and
\* the connection is dropped.
Finish ==
    /\ task = "finish" /\ task' = "done"
    /\ \/ outcome = "Detached" /\ UNCHANGED closed
       \/ outcome \in {"Closed", "Gone"} /\ closed' = TRUE
    /\ link' = FALSE
    /\ UNCHANGED <<sending, outcome, threadVars, alive, down, up, client, commands>>

----------------------------------------------------------------------------
(***************************************************************************)
(* The client's session_loop, and the connection.                          *)
(***************************************************************************)

\* A command is taken off the queue and sent; while the send waits for room
\* the loop reads nothing.
ClientCommand ==
    /\ client = "loop" /\ link /\ commands < MaxCommands
    /\ client' = "send" /\ commands' = commands + 1
    /\ UNCHANGED <<serverVars, threadVars, alive, down, up, link>>

\* Having asked for the end, the client's loop returns.
ClientSent ==
    /\ client = "send" /\ link /\ Len(up) < UpCap
    /\ \E m \in Commands :
         /\ up' = Append(up, m)
         /\ client' = IF m \in {"close", "end"} THEN "quit" ELSE "loop"
    /\ UNCHANGED <<serverVars, threadVars, alive, down, link, commands>>

\* A message is read; the first one is SessionReady and begins the loop.
ClientReads ==
    /\ client \in {"wait", "loop"} /\ down > 0
    /\ down' = down - 1
    /\ client' = "loop"
    /\ UNCHANGED <<serverVars, threadVars, alive, up, link, commands>>

\* The connection breaks, or the client drops it; what is under way may still
\* arrive.
LinkLost ==
    /\ link /\ (LinkCanFail \/ client = "quit")
    /\ link' = FALSE
    /\ \/ UNCHANGED up
       \/ up' = <<>>
    /\ UNCHANGED <<serverVars, threadVars, alive, down, client, commands>>

----------------------------------------------------------------------------
Produced(p) == Produce(p) \/ SendCompletes(p)

ThreadStep(p) == CheckStop(p) \/ PollNothing(p) \/ Produced(p) \/ ThreadFails(p)

LoopStep(p) == Forward(p) \/ ProducerGone(p)

TaskStep ==
    \/ FirstFrame \/ Sent \/ SendFails \/ WindowPoll \/ Incoming \/ Disconnected
    \/ StopThreads \/ Join \/ Finish

ClientStep == ClientCommand \/ ClientSent \/ ClientReads

Next ==
    \/ \E p \in Producer : ThreadStep(p) \/ LoopStep(p)
    \/ TaskStep \/ InputConnects \/ Inject \/ CompositorExits \/ ClientStep \/ LinkLost

Spec == Init /\ [][Next]_vars

(***************************************************************************)
(* Fairness.  Every thread runs.  tokio::select! picks a ready branch at   *)
(* random, so a branch that is ready again and again is taken.  A send and *)
(* a blocking_send complete when there is room.  The client's loop reads   *)
(* whenever it is not sending.  Nothing makes the capture thread have a    *)
(* frame: the screen may be still, and captures may go on failing.         *)
(***************************************************************************)
TaskGoesOn == FirstFrame \/ Sent \/ SendFails \/ StopThreads \/ Join \/ Finish

Fairness ==
    /\ \A p \in Producer : WF_vars(ThreadStep(p)) /\ SF_vars(LoopStep(p))
    /\ WF_vars(InputConnects \/ Inject)
    /\ WF_vars(TaskGoesOn) /\ SF_vars(Incoming \/ Disconnected)
    /\ WF_vars(ClientSent \/ ClientReads) /\ WF_vars(client = "quit" /\ LinkLost)

FairSpec == Spec /\ Fairness

----------------------------------------------------------------------------
(***************************************************************************)
(* Properties.                                                             *)
(***************************************************************************)

\* Every variable keeps its type; no channel exceeds its capacity.
TypeOK ==
    /\ task \in TaskStates
    /\ sending \in {"none", "ready", "first", "item", "pong", "end"}
    /\ task = "send" <=> sending # "none"
    /\ outcome \in {"Detached", "Closed", "Gone"}
    /\ thread \in [Producer -> ThreadStates]
    /\ chan \in [Producer -> Nat] /\ \A p \in Producer : chan[p] <= Cap[p]
    /\ rx \in [Producer -> BOOLEAN] /\ stop \in [Producer -> BOOLEAN]
    /\ input \in {"connect", "run", "exited"} /\ inputs \in Nat
    /\ alive \in BOOLEAN /\ closed \in BOOLEAN /\ link \in BOOLEAN
    /\ down \in 0..DownCap
    /\ up \in Seq(Commands) /\ Len(up) <= UpCap
    /\ client \in {"wait", "loop", "send", "quit"} /\ commands \in 0..MaxCommands

\* SessionOutcome::Gone is only concluded when the compositor is dead: the
\* frame channel closes for no other reason while the session loop runs.  It
\* is what entitles run_session to terminate the session (transport.rs, "Capture
\* thread ended because the compositor exited").
GoneIsTrue == outcome = "Gone" => ~alive

\* The session is closed only when no thread of the connection can still talk
\* to its compositor, and everything typed before has been injected.  (The tasks
\* that set the clipboard are not joined, and not among these threads.)
QuietBeforeClose ==
    closed => /\ \A p \in Producer : thread[p] = "exited"
              /\ input = "exited" /\ inputs = 0

\* Server and client each wait for the other to read: a send is awaited inside a
\* branch of either's select!, and both directions of the connection are full.
MutualWait ==
    /\ task = "send" /\ down = DownCap
    /\ client = "send" /\ Len(up) = UpCap

\* While the session goes on no producer waits for ever: neither a busy screen,
\* nor a dead watcher, nor the client's commands starve the others (the select!
\* of run_session).  Only the mutual wait of the two loops stops them.
NoProducerStarves ==
    \A p \in Producer :
        thread[p] \in {"blocked", "again"}
            ~> (thread[p] = "head" \/ task \notin {"loop", "send"} \/ MutualWait)

\* Types, and what the end of the session rests on, in one invariant.
StreamSafety == TypeOK /\ GoneIsTrue /\ QuietBeforeClose

\* Captures succeed again and again, and have a frame to send: the screen changes,
\* or frames are repeated every second for a client that needs them
\* (LEGACY_IDLE_INTERVAL).  The code ensures neither.
CapturesAgain == SF_vars(Produce("capture"))

\* A start that fails half-way leaves no capture thread behind, although nobody
\* tells it to stop (a dropped stop sender is no message to try_recv): it has the
\* next frame, if there is one, to learn it from.  Where captures go on failing,
\* or the screen is still for ever, it never learns.
FailedStartEndsCapture ==
    CapturesAgain => (task = "done" ~> thread["capture"] = "exited")

\* A teardown that finds room in every channel for what a round may still send
\* comes to its end.
TeardownWithRoom ==
    (task = "join" /\ \A p \in Producer : chan[p] + 2 <= Cap[p]) ~> task = "done"

\* Every teardown comes to its end, so that a session closed by its client is
\* terminated (SessionOutcome::Closed, "terminate the compositor").
TeardownCompletes == task = "stop" ~> task = "done"
============================================================================
