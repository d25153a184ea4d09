--------------------------- MODULE DesktopClient ---------------------------
(***************************************************************************)
(* The desktop client: its window (display.rs, App), the background task   *)
(* that connects, streams and reconnects (connection.rs,                   *)
(* run_with_reconnect and session_loop), the two channels between them,    *)
(* and as much of the server as the task can see: the session, whether it  *)
(* still exists, and what a connection to it has been told.                *)
(*                                                                         *)
(* A message that is sent over a connection that still exists arrives; how *)
(* the two ends wait for each other is in SessionStream.  Pictures, sound  *)
(* and the clipboard are left out.                                         *)
(***************************************************************************)
EXTENDS Integers, Sequences

CONSTANTS
    Size,          \* window and output sizes
    NoSize,        \* no resize pending
    Attach,        \* started with --attach: the session exists already
    Reconnect,     \* the values of params.reconnect (FALSE: --no-reconnect)
    CanFail,       \* connecting may fail and connections may break
    CanDie,        \* the session may end by itself
    MaxKeys,       \* bound: key presses
    MaxToggles,    \* bound: changes of the cursor mode
    MaxResizes,    \* bound: changes of the window's size
    MaxLosses,     \* bound: connections that break
    MaxAttempt     \* attempts from here on are alike

ASSUME ClientAssumption ==
    /\ NoSize \notin Size
    /\ Attach \in BOOLEAN /\ Reconnect \subseteq BOOLEAN
    /\ CanFail \in BOOLEAN /\ CanDie \in BOOLEAN
    /\ MaxKeys \in Nat /\ MaxToggles \in Nat /\ MaxResizes \in Nat
    /\ MaxLosses \in Nat /\ MaxAttempt \in Nat \ {0}

VARIABLES
    \* --- the window
    window,          \* open, closing (the event loop has been left) or closed
    known,           \* session_id is known
    reconnecting,    \* the banner is shown
    connect_failed,  \* the reason why there is no session is shown
    close_prompt,    \* detach or end is being asked
    ending,          \* ending_since: End session was chosen
    should_exit,     \* SessionEnded has been seen
    client_cursor,   \* the pointer is drawn by the window
    pending_resize, last_sent_size,
    key,             \* the key is down on this side
    \* --- the channels
    commands,        \* ClientCommands
    events,          \* ServerEvents
    \* --- the background task
    task,            \* where it is
    reconnect,       \* params.reconnect
    attach,          \* params.attach names the session
    ready,           \* this connection got as far as SessionReady
    ever_ready,      \* some connection did
    attempt,         \* attempts since
    \* --- the server
    session,         \* the session: none, alive or gone
    record_size,     \* the size it is created with, which its record keeps
    output_size,     \* the size of its output
    overlay,         \* overlay_cursor of this connection
    remote_key,      \* the key is down in the session
    link,            \* the connection exists
    \* --- history and bounds
    created,         \* sessions the client has created
    told_end,        \* the server has said that the session is over
    used             \* what the bounds count

statusVars  == <<known, reconnecting, connect_failed, should_exit>>
closeVars   == <<window, close_prompt, ending>>
sizeVars    == <<pending_resize, last_sent_size>>
windowVars  == <<statusVars, closeVars, sizeVars, client_cursor, key>>
taskVars    == <<task, reconnect, attach, ready, ever_ready, attempt>>
serverVars  == <<session, record_size, output_size, overlay, remote_key, link>>
historyVars == <<created, told_end>>
vars        == <<windowVars, commands, events, taskVars, serverVars, historyVars, used>>

TaskStates == {"connect", "request", "loop", "backoff", "over"}

\* Commands that matter here.  An input remembers whether there was a stream
\* when it was made.
Moments  == {"before", "live", "away"}
Commands == [kind : {"down", "up"}, when : Moments]
              \cup [kind : {"resize"}, size : Size, when : Moments]
              \cup [kind : {"cursor"}, in_frame : BOOLEAN, when : Moments]
              \cup [kind : {"disconnect", "end"}, when : Moments]

Events == {"SessionReady", "Reconnecting", "SessionEnded", "ConnectFailed"}

Init ==
    /\ window = "open" /\ known = FALSE /\ reconnecting = FALSE
    /\ connect_failed = FALSE /\ close_prompt = FALSE /\ ending = FALSE
    /\ should_exit = FALSE /\ client_cursor = TRUE
    /\ pending_resize = NoSize /\ last_sent_size \in Size
    /\ key = FALSE
    /\ commands = <<[kind |-> "cursor", in_frame |-> FALSE, when |-> "before"]>>
    /\ events = <<>>
    /\ task = "connect" /\ reconnect \in Reconnect /\ attach = Attach /\ ready = FALSE
    /\ ever_ready = FALSE /\ attempt = 0
    /\ session = IF Attach THEN "alive" ELSE "none"
    /\ record_size \in IF Attach THEN Size ELSE {last_sent_size}
    /\ output_size = record_size
    /\ overlay = FALSE /\ remote_key = FALSE /\ link = FALSE
    /\ created = 0 /\ told_end = FALSE
    /\ used = [keys |-> 0, toggles |-> 0, resizes |-> 0, losses |-> 0]

----------------------------------------------------------------------------
(***************************************************************************)
(* The window.                                                             *)
(***************************************************************************)

\* What a command made now is remembered as.
Now == IF task = "loop" THEN "live" ELSE IF ever_ready THEN "away" ELSE "before"

\* send_cmd: nobody receives it once the task is over.
SendCmd(c) == commands' = IF task = "over" THEN commands ELSE Append(commands, c)

\* Mutant of KeyReleased: the close prompt takes releases too.
KeyReleasedPrompt ==
    /\ window = "open" /\ key
    /\ key' = FALSE
    /\ IF close_prompt THEN UNCHANGED commands
                       ELSE SendCmd([kind |-> "up", when |-> Now])
    /\ UNCHANGED <<closeVars, statusVars, client_cursor, sizeVars, events, taskVars,
                   serverVars, historyVars, used>>

\* A press goes to the session, or to the close prompt while that is showing.
KeyPressed ==
    /\ window = "open" /\ ~key
    /\ used.keys < MaxKeys /\ used' = [used EXCEPT !.keys = @ + 1]
    /\ key' = TRUE
    /\ IF close_prompt THEN UNCHANGED commands
                       ELSE SendCmd([kind |-> "down", when |-> Now])
    /\ UNCHANGED <<closeVars, statusVars, client_cursor, sizeVars, events, taskVars,
                   serverVars, historyVars>>

\* A release goes to the session in any case.
KeyReleased ==
    /\ window = "open" /\ key
    /\ key' = FALSE
    /\ SendCmd([kind |-> "up", when |-> Now])
    /\ UNCHANGED <<closeVars, statusVars, client_cursor, sizeVars, events, taskVars,
                   serverVars, historyVars, used>>

\* Mutant of ClientCursor: the server is told the wrong way round.
ClientCursorInverted ==
    /\ window = "open" /\ ~close_prompt
    /\ used.toggles < MaxToggles /\ used' = [used EXCEPT !.toggles = @ + 1]
    /\ client_cursor' = ~client_cursor
    /\ SendCmd([kind |-> "cursor", in_frame |-> ~client_cursor, when |-> Now])
    /\ UNCHANGED <<closeVars, statusVars, sizeVars, key, events, taskVars,
                   serverVars, historyVars>>

\* The menu's cursor item.
ClientCursor ==
    /\ window = "open" /\ ~close_prompt
    /\ used.toggles < MaxToggles /\ used' = [used EXCEPT !.toggles = @ + 1]
    /\ client_cursor' = ~client_cursor
    /\ SendCmd([kind |-> "cursor", in_frame |-> client_cursor, when |-> Now])
    /\ UNCHANGED <<closeVars, statusVars, sizeVars, key, events, taskVars,
                   serverVars, historyVars>>

\* The window gets another size; with Ctrl held the session keeps its own, and
\* a pending request is dropped.
Resized(z) ==
    /\ window = "open"
    /\ used.resizes < MaxResizes /\ used' = [used EXCEPT !.resizes = @ + 1]
    /\ pending_resize' \in {z, NoSize}
    /\ UNCHANGED <<closeVars, statusVars, client_cursor, last_sent_size, key,
                   commands, events, taskVars, serverVars, historyVars>>

\* Mutant of FlushPendingResize: what is remembered is what is still pending.
FlushEmptied ==
    /\ window = "open" /\ pending_resize # NoSize
    /\ pending_resize' = NoSize
    /\ last_sent_size' = pending_resize'
    /\ IF pending_resize = last_sent_size THEN UNCHANGED commands
       ELSE SendCmd([kind |-> "resize", size |-> pending_resize, when |-> Now])
    /\ UNCHANGED <<closeVars, statusVars, client_cursor, key, events, taskVars,
                   serverVars, historyVars, used>>

\* Mutant of FlushPendingResize: the size is asked for and not remembered.
FlushForgets ==
    /\ window = "open" /\ pending_resize # NoSize
    /\ pending_resize' = NoSize
    /\ IF pending_resize = last_sent_size THEN UNCHANGED commands
       ELSE SendCmd([kind |-> "resize", size |-> pending_resize, when |-> Now])
    /\ UNCHANGED <<closeVars, statusVars, client_cursor, last_sent_size, key,
                   events, taskVars, serverVars, historyVars, used>>

\* It has kept that size for RESIZE_QUIESCE: the server is asked for it unless
\* it was asked for it last time.
FlushPendingResize ==
    /\ window = "open" /\ pending_resize # NoSize
    /\ pending_resize' = NoSize
    /\ last_sent_size' = pending_resize
    /\ IF pending_resize = last_sent_size THEN UNCHANGED commands
       ELSE SendCmd([kind |-> "resize", size |-> pending_resize, when |-> Now])
    /\ UNCHANGED <<closeVars, statusVars, client_cursor, key, events, taskVars,
                   serverVars, historyVars, used>>

\* Detach: the event loop is left.
Detach ==
    /\ window' = "closing" /\ close_prompt' = FALSE
    /\ SendCmd([kind |-> "disconnect", when |-> Now])
    /\ UNCHANGED ending

\* request_close: a running session is asked about; asked twice, or without
\* one, the window detaches.
RequestClose ==
    /\ window = "open" /\ ~ending
    /\ LET running == known /\ ~connect_failed /\ ~reconnecting IN
       \/ (close_prompt \/ ~running) /\ Detach
       \/ /\ ~close_prompt /\ running
          /\ close_prompt' = TRUE /\ UNCHANGED <<window, ending, commands>>
    /\ UNCHANGED <<statusVars, client_cursor, sizeVars, key, events, taskVars,
                   serverVars, historyVars, used>>

\* choose_close, from the prompt.
ChooseClose ==
    /\ window = "open" /\ close_prompt
    /\ \/ Detach
       \/ /\ close_prompt' = FALSE /\ ending' = TRUE /\ UNCHANGED window
          /\ SendCmd([kind |-> "end", when |-> Now])
       \/ close_prompt' = FALSE /\ UNCHANGED <<window, ending, commands>>
    /\ UNCHANGED <<statusVars, client_cursor, sizeVars, key, events, taskVars,
                   serverVars, historyVars, used>>

\* Mutant of ProcessEvent: the banner stays when the session is back.
ProcessEventKeepsBanner ==
    /\ window = "open" /\ events # <<>>
    /\ events' = Tail(events)
    /\ known' = (known \/ Head(events) = "SessionReady")
    /\ reconnecting' = (reconnecting \/ Head(events) = "Reconnecting")
    /\ connect_failed' = (connect_failed \/ Head(events) = "ConnectFailed")
    /\ should_exit' = (should_exit \/ Head(events) = "SessionEnded")
    /\ UNCHANGED <<closeVars, client_cursor, sizeVars, key, commands, taskVars,
                   serverVars, historyVars, used>>

\* process_events takes the next event.
ProcessEvent ==
    /\ window = "open" /\ events # <<>>
    /\ events' = Tail(events)
    /\ known' = (known \/ Head(events) = "SessionReady")
    /\ reconnecting' = \/ Head(events) = "Reconnecting"
                       \/ reconnecting /\ Head(events) = "SessionEnded"
    /\ connect_failed' = (connect_failed \/ Head(events) = "ConnectFailed")
    /\ should_exit' = (should_exit \/ Head(events) = "SessionEnded")
    /\ UNCHANGED <<closeVars, client_cursor, sizeVars, key, commands, taskVars,
                   serverVars, historyVars, used>>

\* Mutant of AboutToWait: a session being ended is waited for without a limit.
AboutToWaitPatient ==
    /\ window = "open" /\ should_exit
    /\ window' = "closing"
    /\ UNCHANGED <<statusVars, close_prompt, ending, client_cursor, sizeVars, key,
                   commands, events, taskVars, serverVars, historyVars, used>>

\* about_to_wait leaves the event loop: the session has ended, or its end was
\* asked for END_SESSION_TIMEOUT ago.
AboutToWait ==
    /\ window = "open" /\ (should_exit \/ ending)
    /\ window' = "closing"
    /\ UNCHANGED <<statusVars, close_prompt, ending, client_cursor, sizeVars, key,
                   commands, events, taskVars, serverVars, historyVars, used>>

\* The process ends, and the background task with it.
ProcessExits ==
    /\ window = "closing" /\ window' = "closed"
    /\ task' = "over" /\ link' = FALSE /\ remote_key' = FALSE
    /\ UNCHANGED <<statusVars, close_prompt, ending, client_cursor, sizeVars, key,
                   commands, events, reconnect, attach, ready, ever_ready, attempt,
                   session, record_size, output_size, overlay, historyVars, used>>

----------------------------------------------------------------------------
(***************************************************************************)
(* The background task.                                                    *)
(***************************************************************************)

\* The task tells the window something.  Handling the same event twice in a row
\* is handling it once, so a run of equal events is kept as one.
Emit(e) ==
    events' = IF events # <<>> /\ events[Len(events)] = e
              THEN events ELSE Append(events, e)

NextAttempt(n) == IF n < MaxAttempt THEN n + 1 ELSE n

\* Mutant of AfterFailure: commands made so far are kept for the next connection.
AfterFailureKeeps ==
    /\ link' = FALSE /\ remote_key' = FALSE /\ ready' = FALSE
    /\ \/ /\ ~ever_ready
          /\ Emit("ConnectFailed") /\ task' = "over"
          /\ UNCHANGED <<attach, attempt, commands>>
       \/ /\ ever_ready /\ ~reconnect
          /\ Emit("SessionEnded") /\ task' = "over"
          /\ UNCHANGED <<attach, attempt, commands>>
       \/ /\ ever_ready /\ reconnect
          /\ attach' = TRUE /\ UNCHANGED commands
          /\ attempt' = NextAttempt(IF ready THEN 0 ELSE attempt)
          /\ Emit("Reconnecting") /\ task' = "backoff"
    /\ UNCHANGED <<reconnect, ever_ready>>

\* Mutant of AfterFailure: the session's id is not put into the parameters.
AfterFailureCreates ==
    /\ link' = FALSE /\ remote_key' = FALSE /\ ready' = FALSE
    /\ \/ /\ ~ever_ready
          /\ Emit("ConnectFailed") /\ task' = "over"
          /\ UNCHANGED <<attach, attempt, commands>>
       \/ /\ ever_ready /\ ~reconnect
          /\ Emit("SessionEnded") /\ task' = "over"
          /\ UNCHANGED <<attach, attempt, commands>>
       \/ /\ ever_ready /\ reconnect
          /\ commands' = <<>>
          /\ attempt' = NextAttempt(IF ready THEN 0 ELSE attempt)
          /\ Emit("Reconnecting") /\ task' = "backoff"
          /\ UNCHANGED attach
    /\ UNCHANGED <<reconnect, ever_ready>>

\* A connection has ended without SessionEnd, or session_loop with an error:
\* give up, or drop what was typed and wait before the next attempt, which will
\* resume the session.
AfterFailure ==
    /\ link' = FALSE /\ remote_key' = FALSE /\ ready' = FALSE
    /\ \/ /\ ~ever_ready
          /\ Emit("ConnectFailed") /\ task' = "over"
          /\ UNCHANGED <<attach, attempt, commands>>
       \/ /\ ever_ready /\ ~reconnect
          /\ Emit("SessionEnded") /\ task' = "over"
          /\ UNCHANGED <<attach, attempt, commands>>
       \/ /\ ever_ready /\ reconnect
          /\ attach' = TRUE /\ commands' = <<>>
          /\ attempt' = NextAttempt(IF ready THEN 0 ELSE attempt)
          /\ Emit("Reconnecting") /\ task' = "backoff"
    /\ UNCHANGED <<reconnect, ever_ready>>

\* The first connection.
Connect ==
    /\ task = "connect"
    /\ \/ task' = "request" /\ UNCHANGED events
       \/ CanFail /\ Emit("ConnectFailed") /\ task' = "over"
    /\ UNCHANGED <<windowVars, commands, reconnect, attach, ready, ever_ready,
                   attempt, serverVars, historyVars, used>>

\* Mutant of Reopen: an open transport counts as success.
ReopenResets ==
    /\ task = "backoff"
    /\ \/ task' = "request" /\ attempt' = 0 /\ UNCHANGED events
       \/ /\ CanFail
          /\ attempt' = NextAttempt(attempt) /\ Emit("Reconnecting") /\ UNCHANGED task
    /\ UNCHANGED <<windowVars, commands, reconnect, attach, ready, ever_ready,
                   serverVars, historyVars, used>>

\* The delay is over: the transport opens, or the next delay begins.
Reopen ==
    /\ task = "backoff"
    /\ \/ task' = "request" /\ UNCHANGED <<attempt, events>>
       \/ /\ CanFail
          /\ attempt' = NextAttempt(attempt) /\ Emit("Reconnecting") /\ UNCHANGED task
    /\ UNCHANGED <<windowVars, commands, reconnect, attach, ready, ever_ready,
                   serverVars, historyVars, used>>

\* SessionReady: a new session of the size the window had at the start, or the
\* existing one, whose output gets the size in its record.  A connection starts
\* with the pointer left out of the picture.
SessionReady ==
    /\ task = "request" /\ task' = "loop"
    /\ \/ /\ ~attach
          /\ session' = "alive" /\ created' = created + 1
       \/ /\ attach /\ session = "alive"
          /\ UNCHANGED <<session, created>>
    /\ output_size' = record_size
    /\ ready' = TRUE /\ ever_ready' = TRUE
    /\ overlay' = FALSE /\ remote_key' = FALSE /\ link' = TRUE
    /\ Emit("SessionReady")
    /\ UNCHANGED <<windowVars, commands, reconnect, attach, attempt, record_size,
                   told_end, used>>

\* SessionEnd "no such session" in answer to SessionAttach: not the SessionReady
\* that was expected, and so an error.
NoSuchSession ==
    /\ task = "request" /\ attach /\ session = "gone"
    /\ told_end' = TRUE
    /\ AfterFailure
    /\ UNCHANGED <<windowVars, session, record_size, output_size, overlay, created,
                   used>>

\* The handshake or the request fails.
RequestFails ==
    /\ task = "request" /\ CanFail
    /\ AfterFailure
    /\ UNCHANGED <<windowVars, session, record_size, output_size, overlay,
                   historyVars, used>>

\* session_loop takes the next command and sends it; a failed send is ignored,
\* except that it is reported as the reason after "end".
SendCommand ==
    /\ task = "loop" /\ commands # <<>>
    /\ commands' = Tail(commands)
    /\ LET c == Head(commands) IN
       /\ \/ /\ c.kind \in {"down", "up"}
             /\ remote_key' = (link /\ c.kind = "down")
             /\ UNCHANGED <<task, events, session, output_size, overlay>>
          \/ /\ c.kind = "resize"
             /\ output_size' = IF link THEN c.size ELSE output_size
             /\ UNCHANGED <<task, events, session, overlay, remote_key>>
          \/ /\ c.kind = "cursor"
             /\ overlay' = IF link THEN c.in_frame ELSE overlay
             /\ UNCHANGED <<task, events, session, output_size, remote_key>>
          \/ /\ c.kind = "disconnect"
             /\ task' = "over"
             /\ UNCHANGED <<events, session, output_size, overlay, remote_key>>
          \/ /\ c.kind = "end"
             /\ task' = "over" /\ Emit("SessionEnded")
             /\ session' = IF link THEN "gone" ELSE session
             /\ UNCHANGED <<output_size, overlay, remote_key>>
    /\ UNCHANGED <<windowVars, reconnect, attach, ready, ever_ready, attempt,
                   record_size, link, created, told_end, used>>

\* SessionEnd while streaming: the session is over.
SessionEnd ==
    /\ task = "loop" /\ link /\ session = "gone"
    /\ task' = "over" /\ Emit("SessionEnded")
    /\ told_end' = TRUE
    /\ UNCHANGED <<windowVars, commands, reconnect, attach, ready, ever_ready,
                   attempt, serverVars, created, used>>

\* End of stream or an undecodable message.
ConnectionLost ==
    /\ task = "loop" /\ ~link
    /\ AfterFailure
    /\ UNCHANGED <<windowVars, session, record_size, output_size, overlay,
                   historyVars, used>>

----------------------------------------------------------------------------
(***************************************************************************)
(* The server and the network.                                             *)
(***************************************************************************)

\* The connection breaks.  The session goes on without it, and the key its
\* virtual keyboard held is released.
LinkBreaks ==
    /\ CanFail /\ link
    /\ used.losses < MaxLosses /\ used' = [used EXCEPT !.losses = @ + 1]
    /\ link' = FALSE /\ remote_key' = FALSE
    /\ UNCHANGED <<windowVars, commands, events, taskVars, session, record_size,
                   output_size, overlay, historyVars>>

\* The session ends: its desktop is left, or somebody else closes it.
SessionDies ==
    /\ CanDie /\ session = "alive"
    /\ session' = "gone"
    /\ UNCHANGED <<windowVars, commands, events, taskVars, record_size, output_size,
                   overlay, remote_key, link, historyVars, used>>

----------------------------------------------------------------------------
WindowStep ==
    \/ KeyPressed \/ KeyReleased \/ ClientCursor \/ FlushPendingResize
    \/ RequestClose \/ ChooseClose \/ ProcessEvent \/ AboutToWait \/ ProcessExits
    \/ \E z \in Size : Resized(z)

TaskStep ==
    \/ Connect \/ Reopen \/ SessionReady \/ NoSuchSession \/ RequestFails
    \/ SendCommand \/ SessionEnd \/ ConnectionLost

Next == WindowStep \/ TaskStep \/ LinkBreaks \/ SessionDies

Spec == Init /\ [][Next]_vars

(***************************************************************************)
(* Fairness.  The window's event loop takes its events, flushes a settled  *)
(* size and wakes up for its deadline; a process that has left it ends;    *)
(* the task runs.  Nothing makes the user act or the network recover.      *)
(***************************************************************************)
Fairness ==
    /\ WF_vars(ProcessEvent) /\ WF_vars(FlushPendingResize)
    /\ WF_vars(AboutToWait) /\ WF_vars(ProcessExits)
    /\ WF_vars(TaskStep)

FairSpec == Spec /\ Fairness

----------------------------------------------------------------------------
(***************************************************************************)
(* Properties.                                                             *)
(***************************************************************************)

StatusType ==
    /\ known \in BOOLEAN /\ reconnecting \in BOOLEAN
    /\ connect_failed \in BOOLEAN /\ should_exit \in BOOLEAN

CloseType ==
    /\ window \in {"open", "closing", "closed"}
    /\ close_prompt \in BOOLEAN /\ ending \in BOOLEAN

ViewType ==
    /\ pending_resize \in Size \cup {NoSize} /\ last_sent_size \in Size
    /\ client_cursor \in BOOLEAN /\ key \in BOOLEAN

TaskType ==
    /\ task \in TaskStates /\ attempt \in 0..MaxAttempt
    /\ reconnect \in BOOLEAN /\ attach \in BOOLEAN
    /\ ready \in BOOLEAN /\ ever_ready \in BOOLEAN

ServerType ==
    /\ session \in {"none", "alive", "gone"}
    /\ record_size \in Size /\ output_size \in Size
    /\ overlay \in BOOLEAN /\ remote_key \in BOOLEAN /\ link \in BOOLEAN

HistoryType == created \in Nat /\ told_end \in BOOLEAN

UsedType == used \in [keys : 0..MaxKeys, toggles : 0..MaxToggles,
                      resizes : 0..MaxResizes, losses : 0..MaxLosses]

\* Every variable keeps its type.
TypeOK ==
    /\ StatusType /\ CloseType /\ ViewType
    /\ commands \in Seq(Commands) /\ events \in Seq(Events)
    /\ TaskType /\ ServerType /\ HistoryType /\ UsedType

\* A client creates one session at most, however often its connection breaks;
\* one that was told to attach creates none ("a reconnect resumes THIS session
\* instead of accidentally creating a new one").
OneSession == created <= IF Attach THEN 0 ELSE 1

\* What was typed into a connection does not outlive it: none of it is left in
\* the queue by the time another connection is being made (the drain in
\* run_with_reconnect).
DeadInputDropped ==
    task \in {"connect", "request", "backoff"} =>
        \A i \in 1..Len(commands) : commands[i].when # "live"

\* Types, the session created and the input dropped, in one invariant.
ReconnectSafety == TypeOK /\ OneSession /\ DeadInputDropped

\* Once the window has seen all events, it shows the banner exactly while the
\* task is trying to get a session back.  request_close relies on it.
BannerTrue ==
    events = <<>> /\ window = "open" /\ ~should_exit =>
        (reconnecting <=> (ever_ready /\ task \in {"request", "backoff"}))

\* A key that is up on this side, with nothing left to send, is up in the
\* session; the close prompt may have opened while it was down.
NothingStuck ==
    task = "loop" /\ commands = <<>> /\ ~key => ~remote_key

\* Attempts are counted from the last connection that got as far as
\* SessionReady; a transport that merely opened does not start the delays afresh.
PatienceGrows == [][attempt' < attempt => ready]_vars

\* Nothing to send is left, and the connection is still the first one.
Settled == task = "loop" /\ link /\ commands = <<>> /\ used.losses = 0

\* Until the connection is lost, the server draws the pointer into the picture
\* exactly when the window does not draw it itself, once all commands are sent.
CursorAgrees == Settled => overlay = ~client_cursor

\* Until the connection is lost, the session has the size the window believes to
\* have asked for, once all commands are sent (live resize).
SizeAgrees == Settled => output_size = last_sent_size

\* Both: what the window shows is what the server does for it.
ViewAgrees == CursorAgrees /\ SizeAgrees

\* A window whose user has chosen to end the session closes, whatever happens
\* to the connection meanwhile.
EndingCloses == ending ~> window = "closed"

\* A session the server has declared to be over is not reconnected to
\* ("that's final, never retry").
EndIsFinal == [][told_end => task' # "backoff"]_vars
============================================================================
