# Termland in TLA+

Termland streams Linux desktop sessions. A server starts a headless Wayland
compositor per session, captures, encodes and sends what it shows, and injects
the input of a client; sessions outlive connections and are resumed by later
ones. This directory models the parts of Termland in which several actors meet,
checks the models with TLC, and proves with TLAPS every safety property that the
checks show, for every number of connections, sessions, threads, frames or encoders.
What must eventually happen is checked only.

Paths below are relative to the repository. `transport.rs`, `registry.rs`,
`tls.rs`, `quic.rs` and `logout.rs` are those of `crates/termland-server/src`,
`screencopy.rs`, `session.rs`, `backend.rs`, `input.rs` and `toplevels.rs` of
`crates/termland-compositor/src`, `encoder.rs` and `decoder.rs` of
`crates/termland-codec/src`, `connection.rs` and `display.rs` of
`crates/termland-client/src`. The mobile core's files are named with their crate.

## 1. The system

### Components, their state and operations

| Component | State | Operations |
|---|---|---|
| Session registry (`registry.rs`, `main.rs`) | one file per session: id, owner, process id of the compositor, Wayland socket, size | write, find, list with pruning, close: desktop end, SIGTERM to the leader, SIGTERM and SIGKILL to the group, confirm, remove |
| Control loop of a connection (`transport.rs`, `handle_session`) | authenticated user | Hello, authentication, list, close, create, attach, disconnect |
| Listeners, TLS, authentication (`main.rs`, `tls.rs`, `quic.rs`, `auth.rs`) | permits of concurrent sessions, key pair on disk | accept, handshake, PAM, refuse; generate, check and read the pair |
| Compositor launch and desktop (`backend.rs`, `logout.rs`) | process group, credentials, runtime directory, desktop script and its record | detached start, socket, desktop programs, orderly end |
| Session streaming loop (`transport.rs`, `run_session`) | channels, receivers, stop senders, outcome | first frame, SessionReady, select over producers, window poll and incoming messages, stop, join, outcome |
| Worker threads (`transport.rs`) | stop receiver, sender | capture, audio, clipboard, pointer image, input injection |
| Capture and encode loop (`transport.rs` `capture_thread`, `screencopy.rs`) | pending copy, last frame, encoder, counters | resize, capture on damage or at once, repeat, idle, encode |
| Encoder selection (`encoder.rs`) | codec, rate, size of the encoder | probe, build, encode, rebuild |
| NVENC close order (`encoder.rs`) | order of the open encoders, minimum age | open, record, drop, close newest first |
| Decoding (`decoder.rs`, `connection.rs`) | backend, confirmation, failed backends, ring of samples | decode, reinitialise, retry, fall back; play |
| Clipboard and files (`transport.rs`, `connection.rs`, `clipboard_files.rs`) | hashes of what was last set, scratch directories | watch, send, receive, suppress echoes, escape and sanitise names |
| Input and window list (`input.rs`, `toplevels.rs`, `transport.rs`) | virtual keyboard, mask, keymap, windows | key, text, poll, rename Right Ctrl |
| Desktop client (`display.rs`, `connection.rs`) | window status, queue of commands, connection status, attempts | input, resize, pointer mode, close, connect, reconnect, stream |
| Mobile core (`termland-mobile-core`) | installed session, input queue | start, replace, disconnect, biased select |
| Q2 media planes (`q2.rs`, `media.rs`) | video stream, datagrams | header, send, read |
| Wire protocol (`termland-protocol`) | partial frame | encode and decode of messages |
| Pointer image (`cursor_capture.rs`) | Wayland objects | capture |
| Session manager, tray, single instance (`manager.rs`, `tray.rs`, `single_instance.rs`) | profiles, socket | user interface |
| Browser client and its server (`termland-web`, `termland-web-client`, `web/`) | as the desktop client | as the desktop client |
| Android and iOS applications | platform decoders | user interface over the mobile core |

### How they interact

* Connections (tasks of one server, processes of their own over SSH, or
  command-line invocations) share the registry's files and the process table and
  no lock. A compositor is a child of the server process that started it, or of
  pid 1 once that process has ended.
* Within a connection, `run_session` is a task; capture, audio, clipboard,
  pointer and input are threads. Bounded channels lead from the threads to the
  task, an unbounded one to the input thread; a stop message goes to each thread.
* Client and server exchange messages over one ordered stream, and over QUIC
  video by a stream of its own and audio by datagrams; either end may wait for
  room.
* The client's window and its background task talk through two unbounded
  channels: commands one way, events the other. Decoding is a thread behind a
  channel of its own.
* The sessions of one server process share the NVIDIA driver and the order in
  which its encoders are closed; all programs of a host share the GPU's encoders.
* The desktop's script and the loop of a connection meet in the script's record:
  the loop takes it for a sign of a nested KWin and renames Right Ctrl.
* Server programs share the key pair on disk, and no lock for it.

### What is hard here, and what makes each part correct

* *Registry.* Two connections and a command work on one session at a time, with
  processes exiting anywhere and no cleanup after a crash. Correct: a running
  session keeps its record; a close confirms that the group is gone before the
  record goes; an acknowledged close is final; nobody is told of, or ends, a
  session of another user; closes end.
* *Ways in.* A peer may go or fall silent at each step; permits are few. Correct:
  permits add up and come back; nobody passes whom PAM has not accepted; a client
  that waits is answered; the key pair on disk is a pair and stays the same.
* *Desktop.* A signal finds a shell script at any line. Correct: the programs run
  as whom they are for; a script that ends by itself leaves nothing, and stops
  them in an order in which none loses what it depends on; a session asked to
  end ends.
* *Streaming loop.* Everybody may wait for everybody: threads for room in a
  channel, the task for room in the connection, the join for the threads.
  Correct: the end of the capture thread means the end of the compositor; the
  session is closed only when its threads are gone; no producer starves; a
  teardown ends.
* *Capture loop.* The encoder holds frames back, and on a still screen nothing
  pushes them out. Correct: the client ends up with the last picture, the stream
  then falls silent (or never does, for an old client), labels are true in spite
  of resizes.
* *Encoders and decoders.* Hardware is taken by others, breaks, or opens without
  working. Correct: a client is sent only codecs it named and decodes each with
  a decoder of that codec; hardware that works is kept; pictures come back.
* *NVENC.* Sessions end in any order, but the driver must see encoders closed
  newest first and not young. Correct: the order is kept, nothing is parked
  without need, no drop waits for another session.
* *Clipboard.* What one side sets comes back as a change on that side. Correct:
  no echo, no lost copy, files arrive as sent and end with the session.
* *Input.* The desktop is recognised while keys are down. Correct: no key stays
  down, a text arrives whole and leaves the keyboard as it was.
* *Desktop client.* Connection loss, delays and the user's choices interleave.
  Correct: a reconnect never creates a second session, input for a dead
  connection is dropped, the banner is true, ending a session closes the window,
  an ended session is not retried.
* *Mobile core.* Threads of the app start and end sessions together, beside a
  biased select. Correct: the observer hears of a session first and of its end
  last; frames come whole; no session streams on with nobody to end it.

## 2. Plan

Modules in the order of their importance.

1. `SessionRegistry` with the abstract `SessionLifecycle` it implements.
2. `SessionStream`. 3. `CaptureLoop`. 4. `DesktopClient`. 5. `NvencCloseOrder`.
6. `MediaPath`. 7. `Access`. 8. `Clipboard`. 9. `MobileSession`.
10. `DesktopSession`, and over it `SessionInput`.

All of these are written, checked and proved about: each invariant and each action
property of a run is a theorem. What would come next are abstract specifications for
the streaming loop and the close order, whose invariants already contain them, and
the browser client.

## 3. The modules

Each component has a module with its state and actions and, where its constants are
more than numbers and model values, an `MC` module with those of its TLC instances.
The proofs are in modules of their own, named for the component, but for two that
share lemmas: `SessionLoopProofs` is about the two streaming loops, `SessionStream`
and `MobileSession`, and `InputClipboardProofs` about `SessionInput`, the
`DesktopSession` in it, and `Clipboard`.
`PROJECT.json` maps every definition to the lines it models. Operators named as
*mutants* in a comment are plausible mistakes used to show that a property can
fail; no specification uses them. Where a module states several invariants of one
subject, one conjunction of them, named for the subject, is what its run checks:
the parts keep their names and comments.

### SessionRegistry, SessionLifecycle

`recorded`, `owner`, `display` are the registry's directory: a record is written
once and never changed, so that only its existence varies. `leader`, `apps`,
`sig`, `parent` and `sockets` are the operating system: a compositor that runs,
is a zombie or has been reaped; the rest of its process group, by how it takes
signals; the process that has to reap it; socket files. `pc`, `caller`,
`target`, `reason`, `todo` and `found` are the local state of each connection.

One action per message of the control loop, per early return, and per step of a
close that other actors can come between: reading the record, waiting for the
desktop, each signal and its wait, the confirmation, the removal. A listing
visits one directory entry per step. `pid_alive` is modelled with its side
effect (`ReapedBy`). `ProcessExits` is a crash or a restart of a server:
connections vanish without cleanup and children go to pid 1. A process id is
not used again while a record names it.

`SessionLifecycle` is what the registry promises: a session is started, may be
published once, and is withdrawn for good, not while its compositor runs unless
the server has reported that it cannot end it. The mapping reads the phase off
`recorded`, `published` and `leader`.

### SessionStream

`task` is the control state of `run_session`, `thread[p]` that of each producer
(capture and the watchers, which are alike), `chan[p]` the number of messages in
its channel, `rx`, `stop` the receivers and stop messages, `input` and `inputs`
the input thread, `down` and `up` the connection, `client` the client's
`session_loop`. A send is two steps: the task is in state "send" until there is
room. The watchers' "again" is the second message of one round (clipboard text,
then files). Messages carry no contents.

### CaptureLoop

`screen` is the version and size of what the compositor shows, `dirty` the
damage; `pending`, `last`, `need_full`, `settle_left`, `encoder_dims` are the
variables of `capture_thread`, `held` is the queue inside the encoder. The code's
counters only matter relative to each other: `behind` is `frames_in -
packets_out` and `due` is `newest - packets_out`, cut off at -1.
`video_may_idle` and `full` are chosen when the session starts. An encode error
may strike before the encoder took the frame or after.

### DesktopClient

The window's fields, the two channels, `run_with_reconnect` and `session_loop`
(`task`, `attach`, `ready`, `ever_ready`, `attempt`), and of the server what the
client can see: whether the session exists, its recorded and its present size,
whether the pointer is drawn, whether a key is down. A command says whether it
was made while the connection was up (`when`). Equal consecutive events are one.

### NvencCloseOrder

`stage` follows an encoder from `open_with` to its close, `open` and `next` are
the `CloseOrder`, `lock` and `close` the drop that holds the mutex, `driver` the
order in which the driver opened them. Opening and recording are two steps.

### MediaPath

`openable` is what the GPU's encoders offer at this moment, `encoder`,
`encoder_dims`, `rate` the server's encoder; `wire` the packets under way, each a
codec, a size and whether it is a keyframe. `at`, `packet`, `backend`, `context`,
`confirmed`, `reinit_failures`, `failed`, `codec_filter` are the decode thread and
its `VideoDecoder`; `host` says which decoders open on the client and which of
those decode, and a driver update may change both. What an FFmpeg context answers
to a packet (`Answers`) depends on its size, on keyframes and on whether the
decoder works. `RateControl` is the arithmetic of `FfmpegVideoEncoder::new` with
its integers. `ring` is the buffer of the sound.

### Clipboard

`clip` holds both clipboards, `disk` the scratch directories, `toServer` and
`toClient` the messages, `readers` and `tasks` the threads that read files to send
and set what was received: they run in any order, as `spawn_blocking` does.
`client_clip_hash`, `client_clip_uri_hash` and `last_hash` are those of
`run_session` and its watch thread, which looks at text and files in turn. An entry
on a clipboard says which message put it there, which no code sees; the properties
use it. A file's name is one of five, its contents a value of `Data`; `Only` leaves
files out and `Overwritten` is a directory after a transfer. Escapes are modelled by
what they do, on the bytes of a path: `PercentDecode` goes through them in order and
says at each what has been put out and how much of an escape is still to be passed
over.

### Access

`phase` is where a connection is on the server, by TCP, TLS, QUIC, WebTransport or
ssh (for which sshd starts a server of its own); `permits` and `holds` the
semaphores; `client` and `told` the desktop client's control operations. `file`,
`program` and `read` are the key pair and the programs that check, write and read
it, one file per step, so that two may interleave and either may die between the
two. A peer may be the desktop client, or one that says nothing or what is not its
turn (`DialOther`, `OutOfTurn`); the server goes on only with a message that its state
expects (`Expected`). What happens after a session
was selected is one state that ends or hangs.

### MobileSession

Per session: the call that starts it (`open`, handshake, `run_session` spawned,
installed), `sender` for the channel whose drop ends it, `loop`, the input that is
`queued`, the control stream, the video stream with its header of bytes, the datagrams, the
channels of both readers, and what the observer has `seen`. `Select` is one turn of
the biased select, in its order. `traffic` numbers what is sent and bounds it. The
header's fields of one, two, four and eight bytes are written and read byte by byte,
lowest first, as `q2.rs` and `termland-mobile-core/src/session.rs` do.

### DesktopSession, SessionInput

`launch` and `cred` follow `detached_compositor_command` and its child between fork
and exec; `script`, `trap` and `pidfile` the lines of the desktop command; `up` and
`told` the programs and their signals. What a program does when one it depends on
has gone (`Follows`, `Orphaned`) is from the comments of `backend.rs`, and
external. `SessionInput` EXTENDS it: `windows` follow the programs, `last_windows`
and `kwin_desktop` are the loop's, `input` is the queue of the input thread, `down`,
`mods` and `keymap` its virtual keyboard. A text is typed in chunks (`Chunks`), each
with no more different characters than a keymap has room for; what cannot be typed
at all (`Typable`) is left out of them.

## 4. Runs

Times are those of two workers on an ordinary machine.

| Run | Instance | Shows | Time |
|---|---|---|---|
| `registry` | authentication; a connection of a server and a command, two users, one session, every kind of process, encoders that fail | `RegistrySafety`, `RunningEndsOnRequest`, `OnlyOwnerSignals`, `ClosesEnd` | 50 s |
| `registry_shared` | no authentication; two connections, a session of an earlier release and a new one with the same socket name, encoders that fail | `RunningSessionKeepsRecord`, `ImplementsLifecycle` | 60 s |
| `stream` | capture and a watcher, channels of two, one command, a connection that may break | `StreamSafety`, `NoProducerStarves`, `FailedStartEndsCapture`, `TeardownWithRoom` | 100 s |
| `stream_teardown` (violation) | capture and a watcher, one command | `TeardownCompletes` fails | 5 s |
| `capture_loop` | both kinds of client, both capture modes, delay 2, two versions and two sizes, one resize, toggle, capture error and encode error | `PacketsTrue`, `FreshUnlessError`, `EventuallyQuiet`, `NeverSilent`, `CursorModeHonoured` | 80 s |
| `client_reconnect` | with and without reconnection; one key, toggle, resize and loss; any number of failed attempts | `ReconnectSafety`, `BannerTrue`, `NothingStuck`, `ViewAgrees`, `PatienceGrows`, `EndingCloses` | 100 s |
| `nvenc_order` | three encoders | `OrderSafety`, `ClosesInTurn`, `DropReturns` | 3 s |
| `media_path` | two servers, four clients, two sizes, a keyframe every two frames, one encode error | `MediaSafety`, `HardwareKept`, `PictureReturns` | 50 s |
| `clipboard` | two texts, two selections of files, three events, two ms | `ClipboardSafety`, `EchoOnlyStale`, `CopyArrives` | 2.5 min |
| `access` | two connections, one permit, one failure, peers that are silent or send what is not their turn | `AccessSafety`, `PermitsReturn`, `ClientAnswered` | 95 s |
| `mobile` | two sessions, two units of traffic, channels of one | `MobileSafety`, `DetachEnds`, `EndHeardInline` | 90 s |
| `desktop` | two hosts, Right Ctrl, one text of two keymaps, two messages, one request to end, one crash | `DesktopSafety`, `InputSafety`, `LogOutEnds` | 2 min |

`registry_isolation.cfg`, `clipboard_echo.cfg`, `client_final.cfg`, `nvenc_race.cfg` and
`mobile_plane.cfg` are not among the runs: each checks one property that the code does
not have (section 7), and TLC prints the behaviour, for instance with
`tlc -config mobile_plane.cfg MobileSession`.

### Bounds, and why they are enough

* *Registry.* All conflicts are about one session, or about a socket name shared
  by two. One connection acts and one interferes; the second of `registry` is the
  command line in a process of its own, which cannot reap the compositor. Process
  kinds are all that `terminate_group` can tell apart. Runtime directories are the
  code's: with authentication each user's own, without it the server's, which alone
  is where the server looks for a socket (`registry.rs:122`, `235`). In `registry` the
  server was started from one user's login and has kept her XDG_RUNTIME_DIR, so that
  her sessions are found and attached to, and those of the other are withdrawn by any
  listing while they run. `RunningSessionKeepsRecord` and `ImplementsLifecycle` do not
  hold there (`registry_isolation.cfg`): they are checked without authentication.
* *Streaming.* What matters of a channel is that it is full; the code's
  capacities of 2 to 8 become 1, or 2 where a round of two messages must fit.
  Watchers are alike. With two commands of the client, over a connection that does
  not break, the run was repeated and holds (just over three minutes).
* *Capture.* A delay of 2 gives an encoder that is empty, partly filled and full;
  two versions of the screen are "old" and "new"; one error, one resize and one
  toggle can be placed anywhere around them. 2 and 3 repeats stand for 2 and 5.
* *Client.* One loss gives every order of the user's choices, queue, session end
  and loss; failed attempts are not bounded, only their count is cut off at
  `MaxAttempt`, from which on the code treats them alike (the delay is held).
* *NVENC.* Three encoders give every way in which a drop finds older, newer and
  parked ones; the theorems cover any number.
* *Media path.* The hosts have hardware that others occupy, with and without
  software behind it; the clients have two, one or no working hardware decoders,
  software or not, old servers, and the ends of the quality scale. Drivers break
  any number of times. Two packets under way put one behind a change of codec.
* *Clipboard.* Three events are a copy on each side and a loss or the end between
  them; the two file selections have a name that coincides, one that is no
  basename and a file that cannot be read. `ListsLeadBack` covers every path of up
  to three of the characters that the escapes tell apart.
* *Access.* One permit and two connections have one that waits for the other; one
  failure may strike at every step. With two permits nothing new can wait.
  Connections are followed where the key pair was there from the start, and files
  are lost where there are none (`Settled`).
* *Mobile.* Two sessions are one that replaces the other. Each reader's channel of
  one is full after a packet.
* *Desktop.* A host with everything and one without a GPU differ in every branch
  of the launch that the isolation does not; one request and one crash fall
  anywhere in start and teardown. Two messages are a press and a release around
  the moment in which the desktop is recognised.

Deadlock is checked for the registry, the capture loop and the media path, which
never stop. The others have an end, and their runs say so.

## 5. Fairness

* Registry: a close keeps going, because each of its waits has a deadline; the
  capture loop looks at the compositor's process in each round; a signalled
  process ends if it is of a kind that does. Nothing makes a client act.
* Streaming: one condition per thread and task, each of which runs;
  `tokio::select!` picks among ready branches at random, hence strong fairness for
  each branch; a blocked send completes once there is room; the client reads
  whenever it is not sending. Nothing makes a capture succeed: that captures succeed
  again and again is no part of the fairness but the premise (`CapturesAgain`) of
  `FailedStartEndsCapture` alone, and the code does not ensure it (section 7).
* Capture: the loop runs, and the compositor answers a copy for which there is
  damage (strong fairness, as a wait may time out first).
* Client: the event loop takes its events, the flush of a size and its deadline;
  the task runs. Neither the user nor the network has to do anything.
* NVENC: every drop that has begun goes on, encoders age, and the mutex is handed
  on.
* Media path: the decode thread runs while there is a packet, and the screen
  changes again and again. No driver has to stay broken or to recover.
* Clipboard: polls go on while a connection is up, messages are read and threads
  that were spawned run. Nobody has to copy anything, or to come back.
* Access: the server's tasks run, PAM answers and the delay after a refusal ends;
  a peer that is gone is noticed. No peer has to say anything, and no listener has
  to survive.
* Mobile: tasks the runtime polls, calls that return, a stream whose end arrives.
  The select itself is weakly fair as a whole, not branch by branch: it is biased.
* Desktop: a script runs, a signal arrives, programs end when told to or when
  what they need has gone. Plasma's own prompt is assumed to return.

## 6. What is proved

All theorems hold for every value of the constants within the named assumptions
(`ConstantsAssumption`, `StreamAssumption`, `CaptureAssumption`, `ClientAssumption`,
`EncoderAssumption`, `AccessAssumption`, `DesktopAssumption`, `InputAssumption`,
`MediaAssumption`, `MobileAssumption`, `ClipboardAssumption`), which say no more than
that sets are disjoint or of their type, capacities positive and bounds natural
numbers; `MobileAssumption` also keeps the count of frames within two thousand
million, so that their times fit the eight bytes that carry them. Three theorems
assume something more, each where the code does not promise the property otherwise:

* `SharedRuntimeDir`, in `RunningKeepsRecord` and `RegistryRefinesLifecycle`: all
  compositors run with the server's XDG_RUNTIME_DIR, as they do without
  authentication, or with it where the server was started with the directory of its
  only user. Otherwise a listing does prune a session that runs (section 7).
* `~Attach`, in `ViewIsAgreed`: an attached session has its record's size, and the
  client does not ask for its window's. The pointer agrees there too
  (`CursorIsAgreed`).
* `~EncoderCanFail`, in `GoneJustified` and `StreamIsSafe`: an encoder that cannot
  be rebuilt is taken for the compositor's end (section 7).

### The arguments

* `SessionRegistryProofs`. `TypeCorrect`, `OwnersOnly`, `ClosesConfirm`, `CloseIsFinal`,
  together `RegistryIsSafe`, and `SignalsAuthorized`, `SignalsRequested`. The checked
  properties are not inductive: that a close is authorized when it signals depends on
  the check it made two reads earlier, and that no record comes back on nobody but its
  creator being able to write it. The invariant `IInv` adds `FreshInv` (a session that
  is being created is known to its creator only), `BornInv` (whatever is recorded,
  listed or worked on has been started), `OwnerInv` (a connection past the check works
  on a session it may use; a close that found no record finds none later), `AckedInv`
  and `GoneInv` (why a close runs). `RunningKeepsRecord` and the refinement need `RInv`
  beside it, for a listing judges a session by its socket: a running compositor still
  has the socket it bound (`SocketInv`), because no two that run share one
  (`DisplayInv`), a close past its first read found a record (`ClosePublished`), and
  without authentication no session is anybody's, so that its socket is in the server's
  directory (`Anonymous`). `RegistryRefinesLifecycle` takes `Next` apart:
  `LifecycleSteps` shows that most actions change nothing the life cycle sees
  (`LifecycleSame`), and creation, publication, the ends of compositors and the removal
  map to its actions one by one.
* `SessionLoopProofs`, on `SessionStream`. `TypeCorrect` (channels stay within their
  capacities), `CloseIsQuiet`, and while encoders can be built `GoneJustified` and all
  three as `StreamIsSafe`. `CaptureInv` says that nobody is told to stop while the loop
  runs, so that the capture thread can only have left for the compositor's end;
  `QuietInv` follows the joins.
* `SessionLoopProofs`, on `MobileSession`. `MobileIsSafe` and `HeaderReadBack`. That an
  observer is shown frames in order is a statement about four queues at once, the
  two that lead to it, the channel between and what it has seen: `InOrder` says that
  each rises and that nothing in one is later than what is behind it (`Aligned`), and
  that a plane not in use is silent. Taking from one queue and putting into the next
  is then a lemma on concatenations (`OrderOf`), not a step of its own for each pair.
  `Calls` ties every session to the call that starts it, so that one which streams is
  installed or about to be; `Told` is the account its observer has been given.
  `HeaderReadBack` is about bytes: what is divided into them is put together again,
  for all codecs, sizes, times and lengths that the fields can hold.
* `CaptureLoopProofs`. `TypeCorrect`, `LabelsCorrect`, `OutIsShown`, together
  `PacketsAreTrue`. Labels are true because the queue only holds frames of the
  encoder's size (`HeldInv`) and a frame of another size is always fresh
  (`FreshInv`). `OutInv` relates the counters to the queue: from position `due + 1`
  on it holds the latest content.
* `DesktopClientProofs`. `TypeCorrect`, `CreatesOne`, `DropsDeadInput`, together
  `ReconnectIsSafe`, and `PatienceKept`. `Resumes` says that a client that waits to
  reconnect attaches, and that one which has created a session never asks for
  another. `BannerIsTrue`, `NothingStaysStuck`, `CursorIsAgreed` and `ViewIsAgreed`
  speak of moments in which a queue is empty. Their invariant `VInv` says what a
  queue that is not empty will lead to, by the last of its entries: the last event
  under way tells whether the task is trying (`BannerInv`), a press that nothing
  takes back is of a key that is down (`KeyInv`), the last change of pointer or size
  is the window's (`CursorInv`, `SizeInv`). `LastIs` and `NoneOf`, with one lemma for
  a command queued and one for a command taken, carry the argument.
* `NvencCloseOrderProofs`. `TypeCorrect` and `LeavesNothing`, together `OrderIsSafe`,
  and `ClosesInOrder` and `ClosesNoneYoung`, together `ClosesEachInTurn`. The
  invariant says that entries are true and sorted, that every open encoder is
  accounted for, that what is about to be closed is newer than what stays, and that
  the newest entry is in use.
* `MediaPathProofs`. `MediaIsSafe` and `HardwareIsKept`. That only advertised codecs
  are sent needs the encoder to be of one (`SupportedInv`), which a probe gives
  (`ProbeGives`); that a decoder is of its packet's codec needs the filter it was
  built with (`FilterInv`). A healthy decoder is kept because of what comes next on
  the wire, or next from the encoder when the wire is empty (`Coming`): if it is no
  keyframe, it continues what is before it (`ChainInv`), so that a decoder which has
  shown a picture can only fail on a keyframe of a new size, and a fresh context
  shows that (`HealthInv`). `LeastIndex` is what makes "the first of the list" usable
  and `EncoderFacts` places hardware before software in it. The rates are arithmetic:
  `CrfFalls` and `BitrateRises` hold for every quality, not those of the run.
* `AccessProofs`. `AccessIsSafe`. Permits are counted against those who hold one, a
  finite set of any size (`PermitInv`). A user's acceptance is followed from PAM
  through the answer under way to the client (`AuthOf`). `PairOf` follows the key
  pair between the steps that check, write and read it: one program writes at most,
  what the server has read is half of the pair that is there. Key pair and
  connections share no step but a listener's failure, so each has its own half of
  the proof (`KeyStep`, `LinkStep`).
* `InputClipboardProofs`, on `SessionInput`. `DesktopIsSafe`, `KeyboardIsKept` and
  `TextIsWhole`, the last two together `InputIsSafe`. `LaunchInv` says which
  credentials the child has at each call between fork and exec, `ScriptInv` which
  programs and which record each line of the script leaves, `OrderInv` what is up
  while nothing has gone wrong. `KeysInv` looks through the queue of the input
  thread: a key that is not wanted is up and not pressed by anything queued, or its
  release is queued and nothing behind it presses it again; the renaming of Right
  Ctrl is in `Wanted`.
  `TextIsWhole` is about a recursive function: the chunks of a text, put one after the
  other, are what can be typed of it, and each has room in a keymap, for any text and
  any size of keymap (`ChunksWhole`, by induction over the text's length).
* `InputClipboardProofs`, on `Clipboard`. `ClipboardIsSafe`, `EchoesOnlyStale` and
  `EveryPathLeadsBack`. `FilesIntact` speaks of clipboards, but a list is written by
  one thread, waits in a task and is set by another, so that `StoredInv` says of every
  list, set or waiting, that its directory has been written to and, if only once,
  still holds what the list names. `EchoOnlyStale` speaks of a poll; why it holds is
  that a content of this connection has arrived before it can be on the clipboard,
  and that the remembered hash is that of the only one of its kind that has (`MarkInv`).
  It leaves out files that are read back as text; `NothingEchoed` is what the comments
  say, where wl-paste does not do that.
  This is inductive only because contents on the wire have numbers that nothing else
  has (`NumberInv`) and one that has arrived is in one place (`OnceInv`). That a path
  is read back is an induction over its bytes (`DecodeEncoded`): what stands for a
  byte is itself or three glyphs, none of them white space (`EscapedFacts`), and the
  decoder comes from one byte's escape to the next with that byte put out (`DecodeOne`).

An induction over numbers or sequences is a statement about the set of lengths for
which it holds (`Induction`, from the well-foundedness of the natural numbers), and a
recursive function is shown to satisfy its equation (`Recursion`) before anything is
said of its values.

Each invariant was checked with TLC before it was proved. Some proofs changed their
model, to something that says the same of the code: the failure of an exec ends the
child and with it the credentials it had taken (`DesktopSession`), and the choice of an
encoder is stated as the least index of the list that qualifies, which is what the loop
over it finds (`MediaPath`). Chunks, escapes and the files left out of a transfer are
recursive functions or sequences joined, in place of library operators that the provers
cannot expand (`SessionInput`, `Clipboard`), and the header's fields are arithmetic on
bytes instead of sequences picked from a table (`MobileSession`).

### Only model-checked

All liveness properties, for the prover has no fairness and no ENABLED: `ClosesEnd`,
`NoProducerStarves`, `FailedStartEndsCapture`, `TeardownWithRoom`, `FreshUnlessError`,
`EventuallyQuiet`, `NeverSilent`, `CursorModeHonoured`, `EndingCloses`, `DropReturns`,
`PictureReturns`, `CopyArrives`, `PermitsReturn`, `ClientAnswered`, `DetachEnds`,
`EndHeardInline` and `LogOutEnds`. The fairness conditions they rest on are those of
section 5.

## 7. Where code and documentation disagree

The run `stream_teardown` (`TeardownCompletes`), with its quotation in `PROJECT.json`:
threads are joined while their full channels are neither read nor dropped; the join
never ends and a closed session keeps running.

With the configurations that are not among the runs:

* `registry_isolation.cfg` (`PrunesOnlyTheGone`): with authentication the socket of a
  running session is in its user's runtime directory (`backend.rs:265-280`) and looked
  for in the server's (`registry.rs:235`), so that a listing prunes its record, contrary
  to "Prunes records whose process/socket are gone" (`registry.rs:245`).
* `clipboard_echo.cfg` (`NeverEchoed`): files that the client sent are, on the session's
  clipboard, a list of paths. The poll of the text runs wl-paste without a type
  (`transport.rs:1767`), which hands that list out as text where nothing else is offered
  (`pastes_lists`), compares it with the hash of the last text only, and sends the
  server's paths to the client, contrary to "doesn't immediately echo it back"
  (`transport.rs:1942`).
* `client_final.cfg` (`EndIsFinal`): a session that ended while the client was away
  is retried for ever (`connection.rs:735`), though "that's final, never retry"
  (`connection.rs:470-472`).
* `nvenc_race.cfg` (`DriverNewestFirst`): an encoder is opened before, and outside,
  the lock under which it is recorded (`encoder.rs:748`); an older one can be
  closed while the newer is open.
* `mobile_plane.cfg` (`EndHeard`): a video plane that has ended leaves a closed
  channel that is always ready, so that the biased select never comes to the
  control stream again (`termland-mobile-core/src/session.rs:315`), contrary to
  lines 406 to 410 of that file.

Met while modelling, and visible in the form of the models and properties:

* After an encode error the loop counts frames that are still inside the encoder
  as delivered (`transport.rs:1481`); a client that gets frames on demand keeps
  an old picture. Hence the exception in `FreshUnlessError`.
* A pending copy keeps the pointer setting it was requested with
  (`screencopy.rs:410`). Hence `CursorModeHonoured` speaks of full mode only.
* A resize to the size of the encoder is skipped (`transport.rs:1390`), although
  the output may have been set to another by a request whose capture failed.
* The server starts every connection with the pointer out of the picture, and an
  attach uses the size of the record; the client does not repeat what it had
  asked for. Hence `ViewAgrees` stops at the first loss.
* Input made during the delays between attempts is queued after the queue was
  drained (`connection.rs:542`) and sent into the resumed session. Hence
  `DeadInputDropped` speaks of input for a connection that was up.
* An encoder that cannot be rebuilt ends the capture thread, which is taken for
  the compositor's end (`transport.rs:1192`). Hence `EncoderCanFail`.
* `pid_alive` does not see that a compositor of another server process has ended
  while that process does not reap it (`registry.rs:223`).
* A listing drops the record of a session whose compositor is dead without
  looking at the rest of its group (`registry.rs:259`).
* With both directions of a connection full, client and server wait for each
  other: each sends inside a branch of its select (`transport.rs:869`). Hence
  `MutualWait` in `NoProducerStarves`.
* The delays between attempts are 1, 2, 4, 8, 16 and then 30 s, as a test pins;
  the comment at `connection.rs:453` leaves out the 16.
* After a start that failed nobody stops the capture thread but the end of its
  channel, which it notices when it has a frame to send. While captures fail, which is
  why no first frame came in time, it retries for ever, as long as the compositor lives
  (`transport.rs:1432-1440`): a dropped stop sender is no message to `try_recv`.
  Hence the premise of `FailedStartEndsCapture`.
* The tasks that set the clipboard (`transport.rs:1011`, `1024`) are not joined, and may
  run on when the session is closed: `QuietBeforeClose` is about the threads that are.
* *Encoders and decoders.* `probe_best_encoder`'s comment gives another order than
  `ENCODER_PRIORITY`; `fallback_and_retry` is "only reached before this backend has
  decoded anything", which rebuilds that fail disprove; "Cap buffer at ~500ms" caps
  at one second; `is_hw` leaves out the V4L2 encoder of VP9. A decode thread whose
  connection is lost is not joined, and the channel to it is not bounded.
* *Clipboard.* A copy in the session equal to what the client sent last is taken for an
  echo, and never arrives. Two sends within one poll bring the older back, and files
  come back as text (hence `EchoOnlyStale`). Receiving tasks are not ordered; files of
  one name in a selection overwrite each other; two transfers in one millisecond share a
  directory; a task that outlives its session leaves files behind. All are exceptions
  that `FilesIntact` and `ScratchCleared` name.
* *Access.* Neither TLS nor Hello nor authentication has a time limit, so a peer
  that says nothing keeps its permit; WebTransport has no permits; an accept error
  of one listener ends the server; another protocol version is only logged;
  `run_control` prints "Closed session" whatever was answered. Two programs that
  generate the pair together, or one that dies between the files, leave a pair that
  does not match (hence `overlap` and `broken` in `KeyPairKept`).
* *Mobile.* A `disconnect()` while `start` waits for the server is lost; input sent
  from `on_session_ready` is dropped; a video frame may have 64 MiB on its plane
  and 16 MiB in a message; `close_session` ignores the answer.
* *Desktop.* SIGTERM that finds the script before its trap is set, or a second one in
  the trap, kills the script: its record stays and programs lose what they depend on,
  contrary to "Signalled, the trap stops them in order" in `backend.rs`. Hence `Orderly`
  leaves out any killed script, in its trap too. `ensure_runtime_dir` leaves a directory
  of the wrong owner behind when `chown` fails, or one without its mode when `chmod`
  does, and takes it as it is the next time; a compositor cannot use the former. The
  script does not notice if its record could not be written. Logging out has no time
  limit.
* *Input.* With the watcher lost the loop keeps what it took the desktop for; two
  keys of one modifier share one bit of the mask. `RightCtrl::map` forgets what the
  first press of a held key went out as when there is a second (`transport.rs:1165`);
  the desktop client sends none, as it drops repeats (`display.rs:974`).

## 8. What is not modelled

Pixels, codecs and library calls; the layout of messages and their framing (a buffer, a
length and a library's encoding, with no state in between); times, other than as the
order in which deadlines and events fall; reuse of process ids; the virtual pointer,
which has no state; a second press of a key that is held, which the desktop client does
not send; a write of the desktop's record that fails, in a directory where the
compositor has just made its socket; the moment between the reading of the window list
and of the record, in which only the end of the session could fall; the pointer image (a
Wayland client around one object); the session manager, the tray and the applications,
which are user interface; and the browser client, a second implementation of the desktop
client's protocol in one thread. `PROJECT.json` lists each with its reason.
