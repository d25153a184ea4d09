------------------------------ MODULE Clipboard ------------------------------
(***************************************************************************)
(* The shared clipboard of a session: text and copied files travel from    *)
(* the client to the session when its window gains the focus (display.rs,  *)
(* connection.rs), and from the session to the client when the watch       *)
(* thread's poll finds a change (transport.rs).  What the client has set   *)
(* must not come back as a change, so the server keeps a hash of it.       *)
(*                                                                         *)
(* Texts are model values; a hash is the content itself, Nothing for none. *)
(* A copied list is where the files are (0: the user's own, else the       *)
(* scratch directory named by a time in ms) and their entries.             *)
(* wl-copy and wl-paste are external: the first replaces a clipboard, the  *)
(* second reads it, and asked for no type it may or may not hand out a     *)
(* file list as text.  An entry's from says which message put it there, 0  *)
(* for a user's own copy.                                                  *)
(***************************************************************************)
EXTENDS Integers, Sequences, SequencesExt, FiniteSetsExt

CONSTANTS
    Text,              \* texts a user may copy
    Nothing,           \* no text, no hash, no file
    Data,              \* contents of files
    Batch,             \* file selections a user may copy: sequences of files
    MAX_FILE_TRANSFER_BYTES,
    MaxEvents,         \* bound: copies, focus gains, lost connections, the end
    MaxMs              \* bound: milliseconds that pass on each side

Side == {"client", "server"}
Kind == {"text", "files"}
\* A file: a path's last component, its contents and size, and whether it can be read.
Name == {"x", "y", "..", "a/b", ""}
File == [name : Name, data : Data \cup {Nothing}, bytes : Nat, readable : BOOLEAN]

ASSUME ClipboardAssumption ==
    /\ Batch \subseteq Seq(File) /\ MAX_FILE_TRANSFER_BYTES \in Nat
    /\ MaxEvents \in Nat /\ MaxMs \in Nat \ {0}

VARIABLES
    pastes_lists,  \* wl-paste without a type hands out a file list as text
    clip,          \* the clipboards
    disk,          \* scratch directories: contents by directory and name
    ms,            \* the clocks
    readers,       \* client threads that have sent the text and not yet the files
    toServer, toClient,
    tasks,         \* received contents not yet on the clipboard
    client_clip_hash, client_clip_uri_hash,
    watch,         \* where the watch thread is
    last_hash, last_uri_hash,
    ended,         \* the session: "no", or "idle" or "busy" when it ended
    \* --- history and bounds
    ids,           \* contents sent by the client
    arrived,       \* those of each kind that reached the server on this connection
    written,       \* transfers written in each millisecond
    resumed,       \* ids before the connection
    events

wireVars == <<toServer, toClient>>
watchVars == <<client_clip_hash, client_clip_uri_hash, watch, last_hash, last_uri_hash>>
historyVars == <<ids, arrived, written, resumed, events>>
clipboardVars == <<pastes_lists, clip, disk, ms, readers, wireVars, tasks, watchVars, ended, historyVars>>
-----------------------------------------------------------------------------
(* clipboard_files.rs.  A path is a sequence of bytes, those of its UTF-8 text, which *)
(* to_string_lossy and from_utf8_lossy leave as it is. *)

\* Mutant: the percent sign itself is left as it is.
UnreservedLax(b) == b \in (48 .. 57) \cup (65 .. 90) \cup (97 .. 122) \cup {45, 95, 46, 126, 47, 37}

Unreserved(b) == b \in (48 .. 57) \cup (65 .. 90) \cup (97 .. 122) \cup {45, 95, 46, 126, 47}
HexDigit(v) == IF v < 10 THEN 48 + v ELSE 55 + v
NotHex == -1
HexVal(b) == CASE b \in 48 .. 57 -> b - 48
               [] b \in 97 .. 102 -> b - 87
               [] b \in 65 .. 70 -> b - 55
               [] OTHER -> NotHex

\* percent_encode_path, byte by byte.
Escaped(b) == IF Unreserved(b) THEN <<b>> ELSE <<37, HexDigit(b \div 16), HexDigit(b % 16)>>
PercentEncode(path) == FlattenSeq([i \in DOMAIN path |-> Escaped(path[i])])

\* percent_decode: an escape that is cut short or malformed is passed through.  What is
\* out after a byte, and how many bytes of an escape are still to be passed over.
Escape(s, i) == s[i] = 37 /\ i + 2 <= Len(s) /\ HexVal(s[i + 1]) # NotHex /\ HexVal(s[i + 2]) # NotHex
Decoded(s, i, before) ==
    IF before.skip > 0 THEN [out |-> before.out, skip |-> before.skip - 1]
    ELSE IF Escape(s, i)
      THEN [out |-> Append(before.out, 16 * HexVal(s[i + 1]) + HexVal(s[i + 2])), skip |-> 2]
    ELSE [out |-> Append(before.out, s[i]), skip |-> 0]
PercentDecode(s) ==
    LET after[i \in 0 .. Len(s)] ==
          IF i = 0 THEN [out |-> <<>>, skip |-> 0] ELSE Decoded(s, i, after[i - 1])
    IN  after[Len(s)].out

\* build_uri_list and parse_uri_list, line by line: "file://", comments, blank lines
\* and the white space around a line, which trim takes away.
White == (9 .. 13) \cup {32}
Trim(s) ==
    LET kept == {i \in DOMAIN s : s[i] \notin White}
    IN  IF kept = {} THEN <<>> ELSE SubSeq(s, Min(kept), Max(kept))
Scheme == <<102, 105, 108, 101, 58, 47, 47>>
ParseLine(line) ==
    IF IsPrefix(Scheme, Trim(line)) THEN PercentDecode(SubSeq(Trim(line), 8, Len(Trim(line)))) ELSE <<>>
BuildLine(path) == Scheme \o PercentEncode(path) \o <<13>>

\* sanitize_filename: a plain basename or nothing.
SafeName(name) == name \in {"x", "y"}
-----------------------------------------------------------------------------
(* Contents. *)

Empty == [kind |-> "none", what |-> Nothing, from |-> 0]
TextOf(t, id) == [kind |-> "text", what |-> t, from |-> id]
FilesOf(dir, batch, id) == [kind |-> "files", what |-> [dir |-> dir, files |-> batch], from |-> id]

\* hash_bytes of a text or of a list, which names the files and not their contents.
Hash(what) ==
    IF what \in Text \cup {Nothing} \/ what.dir = 0 THEN what
    ELSE [what EXCEPT !.files = [i \in DOMAIN @ |-> [@[i] EXCEPT !.data = Nothing]]]

\* What wl-paste prints when asked for no type, Nothing for nothing.
Pasted(side) ==
    CASE clip[side].kind = "text" -> clip[side].what
      [] clip[side].kind = "files" /\ pastes_lists -> clip[side].what
      [] OTHER -> Nothing
PastedList(side) == IF clip[side].kind = "files" THEN clip[side].what ELSE Nothing

\* Those of the files, in their order, whose index is in kept.
Only(files, kept) == FlattenSeq([i \in DOMAIN files |-> IF i \in kept THEN <<files[i]>> ELSE <<>>])

\* read_files_from_uri_list, send_clipboard_file_transfer: unreadable files are left
\* out, too large a selection is not sent at all.  Files in a scratch directory are
\* what was last written there.
Contents(side, list) ==
    LET there == IF list.dir = 0 THEN list.files
                 ELSE [i \in DOMAIN list.files |->
                        [list.files[i] EXCEPT !.data = disk[side][list.dir][list.files[i].name]]]
    IN  Only(there, {i \in DOMAIN there : there[i].readable})
Bytes(files) == FoldLeft(LAMBDA sum, f : sum + f.bytes, 0, files)
Sendable(files) == files # <<>> /\ Bytes(files) <= MAX_FILE_TRANSFER_BYTES

ClipboardInit ==
    /\ pastes_lists \in BOOLEAN
    /\ clip = [s \in Side |-> Empty]
    /\ disk = [s \in Side |-> [d \in 1 .. MaxMs |-> [n \in Name |-> Nothing]]]
    /\ ms = [s \in Side |-> 1]
    /\ readers = 0 /\ toServer = <<>> /\ toClient = <<>>
    /\ tasks = [s \in Side |-> {}]
    /\ client_clip_hash = Nothing /\ client_clip_uri_hash = Nothing
    /\ watch = "text" /\ last_hash = Nothing /\ last_uri_hash = Nothing
    /\ ended = "no"
    /\ ids = 0 /\ arrived = [k \in Kind |-> {}] /\ resumed = 0
    /\ written = [s \in Side |-> [d \in 1 .. MaxMs |-> 0]]
    /\ events = 0
-----------------------------------------------------------------------------
(* Users. *)

Event == events < MaxEvents /\ events' = events + 1

UserCopies(side) ==
    /\ Event
    /\ \/ \E t \in Text : clip' = [clip EXCEPT ![side] = TextOf(t, 0)]
       \/ \E b \in Batch : clip' = [clip EXCEPT ![side] = FilesOf(0, b, 0)]
    /\ UNCHANGED <<pastes_lists, disk, ms, readers, wireVars, tasks, watchVars, ended,
                   ids, arrived, written, resumed>>
-----------------------------------------------------------------------------
(* The client. *)

\* WindowEvent::Focused: a thread sends the local text, if any.
Focused ==
    /\ ended = "no" /\ Event
    /\ ids' = ids + 1 /\ readers' = readers + 1
    /\ toServer' = IF Pasted("client") = Nothing THEN toServer
                   ELSE Append(toServer, TextOf(Pasted("client"), ids'))
    /\ UNCHANGED <<pastes_lists, clip, disk, ms, toClient, tasks, watchVars, ended,
                   arrived, written, resumed>>

\* The same thread, after that: send_clipboard_file_transfer.
SendFiles ==
    /\ readers > 0 /\ readers' = readers - 1 /\ ids' = ids + 1
    /\ LET list == PastedList("client")
           files == IF list = Nothing THEN <<>> ELSE Contents("client", list)
       IN  toServer' = IF ended = "no" /\ Sendable(files)
                         THEN Append(toServer, FilesOf(0, files, ids')) ELSE toServer
    /\ UNCHANGED <<pastes_lists, clip, disk, ms, toClient, tasks, watchVars, ended,
                   arrived, written, resumed, events>>

\* session_loop: text is set at once, files are left to a thread.
ClientReceives ==
    /\ toClient # <<>> /\ toClient' = Tail(toClient)
    /\ IF Head(toClient).kind = "text"
         THEN clip' = [clip EXCEPT !["client"] = Head(toClient)] /\ UNCHANGED tasks
         ELSE tasks' = [tasks EXCEPT !["client"] = @ \cup {[step |-> "write", new |-> Head(toClient)]}]
              /\ UNCHANGED clip
    /\ UNCHANGED <<pastes_lists, disk, ms, readers, toServer, watchVars, ended, historyVars>>

\* The connection breaks and the session is attached to again: what was under way
\* is lost, and the new connection has hashes and a watch thread of its own.  The
\* client's queue outlives it, so that a thread that still reads sends to the new one.
Reattached ==
    /\ ended = "no" /\ Event
    /\ toServer' = <<>> /\ toClient' = <<>>
    /\ client_clip_hash' = Nothing /\ client_clip_uri_hash' = Nothing /\ watch' = "text"
    /\ resumed' = ids /\ arrived' = [k \in Kind |-> {}]
    /\ UNCHANGED <<pastes_lists, clip, disk, ms, readers, tasks, ended, ids, written>>

\* Mutant: what was last sent is remembered across connections.
ReconnectRemembers == Reattached /\ UNCHANGED <<last_hash, last_uri_hash>>

Reconnect == Reattached /\ last_hash' = Nothing /\ last_uri_hash' = Nothing

\* run_session ends the session and clears its scratch directory; tasks go on.
SessionEnds ==
    /\ ended = "no" /\ Event /\ ended' = IF tasks["server"] = {} THEN "idle" ELSE "busy"
    /\ disk' = [disk EXCEPT !["server"] = [d \in 1 .. MaxMs |-> [n \in Name |-> Nothing]]]
    /\ toServer' = <<>> /\ toClient' = <<>>
    /\ UNCHANGED <<pastes_lists, clip, ms, readers, tasks, watchVars, ids, arrived, written, resumed>>
-----------------------------------------------------------------------------
(* Contents received: on the server by blocking tasks, which run in any order. *)

Receive(marked) ==
    /\ toServer # <<>> /\ toServer' = Tail(toServer)
    /\ LET new == Head(toServer)
       IN  /\ tasks' = [tasks EXCEPT !["server"] = @ \cup
                         {[step |-> IF new.kind = "text" THEN "copy" ELSE "write", new |-> new]}]
           /\ arrived' = [arrived EXCEPT ![new.kind] = @ \cup {new.from}]
           /\ client_clip_hash' = IF new.kind = "text" THEN marked ELSE client_clip_hash
    /\ UNCHANGED <<pastes_lists, clip, disk, ms, readers, toClient, client_clip_uri_hash, watch,
                   last_hash, last_uri_hash, ended, ids, written, resumed, events>>

\* Mutant: the text's hash is not kept.
ServerReceivesUnmarked == Receive(client_clip_hash)

\* ClipboardSend, FileTransferSend: a text's hash is kept when it arrives.
ServerReceives == Receive(Hash(Head(toServer).what))

\* Mutant: every transfer goes to the same directory.
TransferDirShared(side) == 1

\* transfer_subdir_name: a transfer is named by the time, which may have moved on.
TransferDir(side) == ms'[side]

\* A directory once the files have been written to it, in their order.
Overwritten(old, files) ==
    LET Named(n) == {i \in DOMAIN files : files[i].name = n}
    IN  [n \in Name |-> IF Named(n) = {} THEN old[n] ELSE files[Max(Named(n))].data]

\* receive_file_transfer: too much is rejected, unsafe names are left out, the rest
\* is written, and the server keeps the hash of the list it is about to set, for
\* the watch thread of the connection the files came by.
WriteFiles(side) ==
    \E t \in tasks[side] :
      LET dir == TransferDir(side)
          files == t.new.what.files
          kept == Only(files, {i \in DOMAIN files : SafeName(files[i].name)})
          rejected == Bytes(files) > MAX_FILE_TRANSFER_BYTES \/ kept = <<>>
          list == [dir |-> dir, files |-> kept]
      IN  /\ t.step = "write"
          /\ \E now \in ms[side] .. Min({ms[side] + 1, MaxMs}) : ms' = [ms EXCEPT ![side] = now]
          /\ tasks' = [tasks EXCEPT ![side] = (@ \ {t}) \cup
               IF rejected THEN {} ELSE {[step |-> "copy", new |-> [t.new EXCEPT !.what = list]]}]
          /\ disk' = [disk EXCEPT ![side][dir] = IF rejected THEN @ ELSE Overwritten(@, kept)]
          /\ client_clip_uri_hash' = IF side = "server" /\ ~rejected /\ t.new.from > resumed
                                       THEN Hash(list) ELSE client_clip_uri_hash
          /\ written' = [written EXCEPT ![side][ms'[side]] = @ + 1]
          /\ UNCHANGED <<pastes_lists, clip, readers, wireVars, client_clip_hash, watch,
                         last_hash, last_uri_hash, ended, ids, arrived, resumed, events>>

\* wl-copy, at the end of receive_file_transfer and in set_remote_clipboard.
SetClipboard(side) ==
    \E t \in tasks[side] :
      /\ t.step = "copy"
      /\ tasks' = [tasks EXCEPT ![side] = @ \ {t}]
      /\ clip' = [clip EXCEPT ![side] = t.new]
      /\ UNCHANGED <<pastes_lists, disk, ms, readers, wireVars, watchVars, ended, historyVars>>
-----------------------------------------------------------------------------
(* clipboard_watch_thread: every 500 ms the text, then the list of files. *)

PollText ==
    /\ watch = "text" /\ ended = "no" /\ watch' = "files"
    /\ LET seen == Pasted("server")
           changed == seen # Nothing /\ Hash(seen) # last_hash
       IN  /\ last_hash' = IF changed THEN Hash(seen) ELSE last_hash
           /\ toClient' = IF changed /\ Hash(seen) # client_clip_hash
                            THEN Append(toClient, TextOf(seen, clip["server"].from)) ELSE toClient
    /\ UNCHANGED <<pastes_lists, clip, disk, ms, readers, toServer, tasks, client_clip_hash,
                   client_clip_uri_hash, last_uri_hash, ended, historyVars>>

\* Once the list is gone from the clipboard its hash is forgotten.
PollFiles ==
    /\ watch = "files" /\ ended = "no" /\ watch' = "text"
    /\ LET list == PastedList("server")
           changed == list # Nothing /\ Hash(list) # last_uri_hash
           files == IF list = Nothing THEN <<>> ELSE Contents("server", list)
       IN  /\ last_uri_hash' = Hash(list)
           /\ toClient' = IF changed /\ Hash(list) # client_clip_uri_hash /\ Sendable(files)
                            THEN Append(toClient, FilesOf(0, files, clip["server"].from)) ELSE toClient
    /\ UNCHANGED <<pastes_lists, clip, disk, ms, readers, toServer, tasks, client_clip_hash,
                   client_clip_uri_hash, last_hash, ended, historyVars>>
-----------------------------------------------------------------------------
UserActs == (\E s \in Side : UserCopies(s)) \/ Focused \/ Reconnect \/ SessionEnds
Delivery == SendFiles \/ ClientReceives \/ ServerReceives \/ \E s \in Side : WriteFiles(s) \/ SetClipboard(s)
Watch == PollText \/ PollFiles

ClipboardNext == UserActs \/ Delivery \/ Watch

ClipboardSpec == ClipboardInit /\ [][ClipboardNext]_clipboardVars

\* The threads and the connection make progress; users need not do anything.
ClipboardFairSpec == ClipboardSpec /\ WF_clipboardVars(Delivery) /\ WF_clipboardVars(Watch)
-----------------------------------------------------------------------------
(* Properties. *)

ClipboardTypeOK ==
    /\ pastes_lists \in BOOLEAN /\ watch \in {"text", "files"} /\ ended \in {"no", "idle", "busy"}
    /\ ms \in [Side -> 1 .. MaxMs] /\ readers \in Nat /\ ids \in Nat
    /\ \A s \in Side : clip[s].kind \in {"none", "text", "files"} /\ clip[s].from \in 0 .. ids
    /\ \A s \in Side : \A t \in tasks[s] : t.step \in {"write", "copy"}

\* Nothing larger than the cap is sent: the connection carries it in one message.
SizesBounded ==
    \A wire \in {toServer, toClient} : \A i \in DOMAIN wire :
      wire[i].kind = "files" => Bytes(wire[i].what.files) <= MAX_FILE_TRANSFER_BYTES

\* Files received and on a clipboard are those that were sent, whatever is received
\* afterwards, unless names in the selection coincide or two transfers fell into
\* the same millisecond.
FilesIntact ==
    \A s \in Side :
      LET list == clip[s].what
      IN  (/\ clip[s].kind = "files" /\ list.dir # 0 /\ (s = "server" => ended = "no")
           /\ \A d \in 1 .. MaxMs : written[s][d] <= 1
           /\ \A i, j \in DOMAIN list.files : list.files[i].name = list.files[j].name => i = j)
          => \A i \in DOMAIN list.files : disk[s][list.dir][list.files[i].name] = list.files[i].data

\* Whatever a name holds, a space, a percent sign, the end of a line, the list of
\* files leads back to the path it was built from, and its line is one: no line feed,
\* at which lines cuts, is within it.
Path == UNION {[1 .. n -> {10, 13, 32, 35, 37, 47, 52, 65}] : n \in 1 .. 3}
ListsLeadBack == \A path \in Path : ParseLine(BuildLine(path)) = path /\ 10 \notin ToSet(BuildLine(path))

\* A session that ended while nothing was being received leaves no file behind.
ScratchCleared ==
    ended = "idle" => \A d \in 1 .. MaxMs : \A n \in Name : disk["server"][d][n] = Nothing

\* The clipboard's safety: what is sent is bounded, what is received is what was
\* sent and stays so, and the scratch directory of a session ends with it.
ClipboardSafety == ClipboardTypeOK /\ SizesBounded /\ FilesIntact /\ ListsLeadBack /\ ScratchCleared

\* A content that the client has sent on this connection is sent back to it, although
\* no other of what the clipboard holds has arrived: its hash was remembered and not
\* forgotten for another's.
Echoes ==
    /\ Len(toClient') > Len(toClient) /\ Last(toClient').from > resumed
    /\ ~ \E other \in arrived[clip["server"].kind] : other # Last(toClient').from

\* Files the client sent, read back as text by a wl-paste that was asked for no type.
FilesAsText == pastes_lists /\ clip["server"].kind = "files" /\ Last(toClient').kind = "text"

\* The watch thread sends the client its own clipboard back only where its hash is
\* that of another content (two sends within a poll may bring the first one back),
\* whatever the order of its polls, of the messages and of the threads that set the
\* clipboard, and where wl-paste hands out the client's files as text: the poll of the
\* text compares what it reads with the hash of texts only.
EchoOnlyStale == [][Echoes => FilesAsText]_clipboardVars

\* What the comments say: what the client has set is recognized as such, and not
\* sent back (receive_file_transfer: "doesn't immediately echo it back").
NeverEchoed == [][~ Echoes]_clipboardVars

\* A text copied in the session reaches the client's clipboard, lost connections
\* included, unless the clipboard changes first, the session ends, or the text is
\* the one the client itself sent last, which is taken for an echo.  A text that is
\* the last the watch thread has seen is no news to it, and not meant here.
CopyArrives ==
    \A t \in Text :
      (clip["server"] = TextOf(t, 0) /\ last_hash # t /\ client_clip_hash # t /\ ended = "no")
      ~> (clip["server"] # TextOf(t, 0) \/ clip["client"].what = t \/ client_clip_hash = t \/ ended # "no")
=============================================================================
