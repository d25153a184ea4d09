------------------------ MODULE DesktopClientProofs ------------------------
(***************************************************************************)
(* Proofs about DesktopClient, for any sizes, any number of lost           *)
(* connections and any amount of input: a client creates one session at    *)
(* most, what was typed into a dead connection is dropped, the delays      *)
(* between attempts start afresh only after a session, the banner is true, *)
(* no key stays stuck, and window and session agree on pointer and size.   *)
(*                                                                         *)
(* OneSession is not inductive: that a request creates nothing the second  *)
(* time depends on where the task has been (Resumes).                      *)
(***************************************************************************)
EXTENDS DesktopClient, TLAPS

\* Where the task is tells whether its next request creates a session: it has
\* created none before its first request, and after a failure it attaches.
Resumes ==
    /\ Attach => attach /\ created = 0
    /\ task = "connect" => created = 0
    /\ task = "request" => attach \/ created = 0
    /\ task = "backoff" => attach
    /\ created <= 1

IInv == TypeOK /\ Resumes /\ DeadInputDropped

\* A command keeps its type on the way through the queue.
LEMMA CommandTypes ==
    ASSUME TypeOK, commands # <<>>
    PROVE  /\ Head(commands) \in Commands /\ Tail(commands) \in Seq(Commands)
           /\ Head(commands).kind = "resize" => Head(commands).size \in Size
           /\ Head(commands).kind = "cursor" => Head(commands).in_frame \in BOOLEAN
<1>1. Head(commands) \in Commands /\ Tail(commands) \in Seq(Commands)
  BY DEF TypeOK
<1>2. ASSUME NEW c \in Commands
      PROVE  /\ c.kind = "resize" => c.size \in Size
             /\ c.kind = "cursor" => c.in_frame \in BOOLEAN
  BY DEF Commands
<1> QED BY <1>1, <1>2

\* What the window sends has the type of a command, and is marked as typed into
\* a connection only while there is one.
LEMMA SendTypes ==
    ASSUME TypeOK, DeadInputDropped, NEW c \in Commands, c.when = Now, SendCmd(c),
           UNCHANGED task
    PROVE  commands' \in Seq(Commands) /\ DeadInputDropped'
<1>1. CASE task = "over"
  BY <1>1 DEF TypeOK, SendCmd, DeadInputDropped
<1>2. CASE task # "over"
  <2>1. commands' = Append(commands, c) /\ commands \in Seq(Commands)
    BY <1>2 DEF SendCmd, TypeOK
  <2>2. /\ commands' \in Seq(Commands) /\ Len(commands') = Len(commands) + 1
        /\ commands'[Len(commands) + 1] = c /\ Len(commands) \in Nat
        /\ \A i \in 1..Len(commands) : commands'[i] = commands[i]
    BY <2>1
  <2>3. task \in {"connect", "request", "backoff"} => c.when # "live"
    BY DEF Now
  <2>4. DeadInputDropped'
    <3> SUFFICES ASSUME task \in {"connect", "request", "backoff"},
                        NEW i \in 1 .. Len(commands) + 1
                 PROVE  commands'[i].when # "live"
      BY <2>2 DEF DeadInputDropped
    <3>1. CASE i \in 1..Len(commands)
      BY <3>1, <2>2 DEF DeadInputDropped
    <3>2. CASE i = Len(commands) + 1
      BY <3>2, <2>2, <2>3
    <3> QED BY <3>1, <3>2, <2>2
  <2> QED BY <2>2, <2>4
<1> QED BY <1>1, <1>2

\* The commands of the window are commands.
LEMMA WindowCommands ==
    /\ [kind |-> "down", when |-> Now] \in Commands
    /\ [kind |-> "up", when |-> Now] \in Commands
    /\ [kind |-> "disconnect", when |-> Now] \in Commands
    /\ [kind |-> "end", when |-> Now] \in Commands
    /\ \A z \in Size : [kind |-> "resize", size |-> z, when |-> Now] \in Commands
    /\ \A b \in BOOLEAN : [kind |-> "cursor", in_frame |-> b, when |-> Now] \in Commands
<1>1. Now \in Moments
  BY DEF Now, Moments
<1> QED BY <1>1 DEF Commands

\* Telling the window something keeps the type of the channel.
LEMMA EmitTypes ==
    ASSUME TypeOK, NEW x \in Events, Emit(x)
    PROVE  events' \in Seq(Events)
  BY DEF Emit, TypeOK

\* What is left alone keeps its type.
LEMMA Untouched ==
    ASSUME TypeOK
    PROVE  /\ UNCHANGED statusVars => StatusType'
           /\ UNCHANGED closeVars => CloseType'
           /\ UNCHANGED <<sizeVars, client_cursor, key>> => ViewType'
           /\ UNCHANGED taskVars => TaskType'
           /\ UNCHANGED serverVars => ServerType'
           /\ UNCHANGED historyVars => HistoryType'
           /\ UNCHANGED used => UsedType'
<1>1. UNCHANGED statusVars => StatusType'
  BY DEF TypeOK, StatusType, statusVars
<1>2. UNCHANGED closeVars => CloseType'
  BY DEF TypeOK, CloseType, closeVars
<1>3. UNCHANGED <<sizeVars, client_cursor, key>> => ViewType'
  BY DEF TypeOK, ViewType, sizeVars
<1>4. UNCHANGED taskVars => TaskType'
  BY DEF TypeOK, TaskType, taskVars
<1>5. UNCHANGED serverVars => ServerType'
  BY DEF TypeOK, ServerType, serverVars
<1>6. UNCHANGED historyVars => HistoryType'
  BY DEF TypeOK, HistoryType, historyVars
<1>7. UNCHANGED used => UsedType'
  BY DEF TypeOK, UsedType
<1> QED BY <1>1, <1>2, <1>3, <1>4, <1>5, <1>6, <1>7

\* A counter below its bound can be advanced.
LEMMA Counting ==
    ASSUME TypeOK
    PROVE  /\ used.keys < MaxKeys => [used EXCEPT !.keys = @ + 1] \in
                [keys : 0..MaxKeys, toggles : 0..MaxToggles,
                 resizes : 0..MaxResizes, losses : 0..MaxLosses]
           /\ used.toggles < MaxToggles => [used EXCEPT !.toggles = @ + 1] \in
                [keys : 0..MaxKeys, toggles : 0..MaxToggles,
                 resizes : 0..MaxResizes, losses : 0..MaxLosses]
           /\ used.resizes < MaxResizes => [used EXCEPT !.resizes = @ + 1] \in
                [keys : 0..MaxKeys, toggles : 0..MaxToggles,
                 resizes : 0..MaxResizes, losses : 0..MaxLosses]
           /\ used.losses < MaxLosses => [used EXCEPT !.losses = @ + 1] \in
                [keys : 0..MaxKeys, toggles : 0..MaxToggles,
                 resizes : 0..MaxResizes, losses : 0..MaxLosses]
<1>1. /\ used \in [keys : 0..MaxKeys, toggles : 0..MaxToggles,
                   resizes : 0..MaxResizes, losses : 0..MaxLosses]
      /\ used.keys \in 0..MaxKeys /\ used.toggles \in 0..MaxToggles
      /\ used.resizes \in 0..MaxResizes /\ used.losses \in 0..MaxLosses
  BY DEF TypeOK, UsedType
<1> QED BY <1>1, ClientAssumption

\* A step that leaves the task and its history alone keeps what they imply.
LEMMA SameTask ==
    ASSUME Resumes, UNCHANGED <<task, attach, created>>
    PROVE  Resumes'
  BY DEF Resumes

\* A step of the window keeps the invariant.
LEMMA WindowKeeps ==
    ASSUME IInv, WindowStep
    PROVE  IInv'
<1> USE DEF IInv
<1>1. CASE KeyPressed
  <2>1. commands' \in Seq(Commands) /\ DeadInputDropped'
    <3>1. CASE close_prompt
      BY <1>1, <3>1 DEF KeyPressed, TypeOK, DeadInputDropped, taskVars
    <3>2. CASE ~close_prompt
      BY <1>1, <3>2, SendTypes, WindowCommands DEF KeyPressed, taskVars
    <3> QED BY <3>1, <3>2
  <2>2. ViewType'
    BY <1>1 DEF KeyPressed, TypeOK, ViewType, sizeVars
  <2>3. UsedType'
    BY <1>1, Counting DEF KeyPressed, UsedType
  <2>4. /\ StatusType' /\ CloseType' /\ TaskType' /\ ServerType' /\ HistoryType'
        /\ events' \in Seq(Events)
    BY <1>1, Untouched DEF TypeOK, KeyPressed
  <2>5. Resumes'
    BY <1>1, SameTask DEF KeyPressed, taskVars, historyVars
  <2> QED BY <2>1, <2>2, <2>3, <2>4, <2>5 DEF TypeOK
<1>2. CASE KeyReleased
  <2>1. commands' \in Seq(Commands) /\ DeadInputDropped'
    BY <1>2, SendTypes, WindowCommands DEF KeyReleased, taskVars
  <2>2. ViewType'
    BY <1>2 DEF KeyReleased, TypeOK, ViewType, sizeVars
  <2>3. /\ StatusType' /\ CloseType' /\ TaskType' /\ ServerType' /\ HistoryType' /\ UsedType'
        /\ events' \in Seq(Events)
    BY <1>2, Untouched DEF TypeOK, KeyReleased
  <2>4. Resumes'
    BY <1>2, SameTask DEF KeyReleased, taskVars, historyVars
  <2> QED BY <2>1, <2>2, <2>3, <2>4 DEF TypeOK
<1>3. CASE ClientCursor
  <2>1. commands' \in Seq(Commands) /\ DeadInputDropped'
    <3>1. client_cursor \in BOOLEAN
      BY DEF TypeOK, ViewType
    <3> QED BY <1>3, <3>1, SendTypes, WindowCommands DEF ClientCursor, taskVars
  <2>2. ViewType'
    BY <1>3 DEF ClientCursor, TypeOK, ViewType, sizeVars
  <2>3. UsedType'
    BY <1>3, Counting DEF ClientCursor, UsedType
  <2>4. /\ StatusType' /\ CloseType' /\ TaskType' /\ ServerType' /\ HistoryType'
        /\ events' \in Seq(Events)
    BY <1>3, Untouched DEF TypeOK, ClientCursor
  <2>5. Resumes'
    BY <1>3, SameTask DEF ClientCursor, taskVars, historyVars
  <2> QED BY <2>1, <2>2, <2>3, <2>4, <2>5 DEF TypeOK
<1>4. CASE FlushPendingResize
  <2> pending_resize \in Size
    BY <1>4 DEF TypeOK, ViewType, FlushPendingResize
  <2>1. commands' \in Seq(Commands) /\ DeadInputDropped'
    <3>1. CASE pending_resize = last_sent_size
      BY <1>4, <3>1 DEF FlushPendingResize, TypeOK, DeadInputDropped, taskVars
    <3>2. CASE pending_resize # last_sent_size
      BY <1>4, <3>2, SendTypes, WindowCommands DEF FlushPendingResize, taskVars
    <3> QED BY <3>1, <3>2
  <2>2. ViewType'
    BY <1>4 DEF FlushPendingResize, TypeOK, ViewType
  <2>3. /\ StatusType' /\ CloseType' /\ TaskType' /\ ServerType' /\ HistoryType' /\ UsedType'
        /\ events' \in Seq(Events)
    BY <1>4, Untouched DEF TypeOK, FlushPendingResize
  <2>4. Resumes'
    BY <1>4, SameTask DEF FlushPendingResize, taskVars, historyVars
  <2> QED BY <2>1, <2>2, <2>3, <2>4 DEF TypeOK
<1>5. CASE RequestClose
  <2>1. commands' \in Seq(Commands) /\ DeadInputDropped' /\ CloseType'
    <3>1. CASE Detach
      <4>1. commands' \in Seq(Commands) /\ DeadInputDropped'
        BY <1>5, <3>1, SendTypes, WindowCommands DEF RequestClose, Detach, taskVars
      <4> QED BY <3>1, <4>1 DEF Detach, TypeOK, CloseType
    <3>2. CASE close_prompt' = TRUE /\ UNCHANGED <<window, ending, commands>>
      <4>1. commands' \in Seq(Commands) /\ DeadInputDropped'
        BY <1>5, <3>2 DEF RequestClose, TypeOK, DeadInputDropped, taskVars
      <4> QED BY <3>2, <4>1 DEF TypeOK, CloseType
    <3> QED BY <1>5, <3>1, <3>2 DEF RequestClose
  <2>2. CloseType'
    BY <2>1
  <2>3. /\ StatusType' /\ ViewType' /\ TaskType' /\ ServerType' /\ HistoryType' /\ UsedType'
        /\ events' \in Seq(Events)
    BY <1>5, Untouched DEF TypeOK, RequestClose
  <2>4. Resumes'
    BY <1>5, SameTask DEF RequestClose, taskVars, historyVars
  <2> QED BY <2>1, <2>2, <2>3, <2>4 DEF TypeOK
<1>6. CASE ChooseClose
  <2>1. commands' \in Seq(Commands) /\ DeadInputDropped' /\ CloseType'
    <3>1. CASE Detach
      <4>1. commands' \in Seq(Commands) /\ DeadInputDropped'
        BY <1>6, <3>1, SendTypes, WindowCommands DEF ChooseClose, Detach, taskVars
      <4> QED BY <3>1, <4>1 DEF Detach, TypeOK, CloseType
    <3>2. CASE /\ close_prompt' = FALSE /\ ending' = TRUE /\ UNCHANGED window
               /\ SendCmd([kind |-> "end", when |-> Now])
      <4>1. commands' \in Seq(Commands) /\ DeadInputDropped'
        BY <1>6, <3>2, SendTypes, WindowCommands DEF ChooseClose, taskVars
      <4> QED BY <3>2, <4>1 DEF TypeOK, CloseType
    <3>3. CASE close_prompt' = FALSE /\ UNCHANGED <<window, ending, commands>>
      <4>1. commands' \in Seq(Commands) /\ DeadInputDropped'
        BY <1>6, <3>3 DEF ChooseClose, TypeOK, DeadInputDropped, taskVars
      <4> QED BY <3>3, <4>1 DEF TypeOK, CloseType
    <3> QED BY <1>6, <3>1, <3>2, <3>3 DEF ChooseClose
  <2>2. CloseType'
    BY <2>1
  <2>3. /\ StatusType' /\ ViewType' /\ TaskType' /\ ServerType' /\ HistoryType' /\ UsedType'
        /\ events' \in Seq(Events)
    BY <1>6, Untouched DEF TypeOK, ChooseClose
  <2>4. Resumes'
    BY <1>6, SameTask DEF ChooseClose, taskVars, historyVars
  <2> QED BY <2>1, <2>2, <2>3, <2>4 DEF TypeOK
<1>7. CASE ProcessEvent
  <2>1. commands' \in Seq(Commands) /\ DeadInputDropped'
    BY <1>7 DEF ProcessEvent, TypeOK, DeadInputDropped, taskVars
  <2>2. StatusType'
    BY <1>7 DEF ProcessEvent, TypeOK, StatusType
  <2>3. CloseType' /\ ViewType' /\ TaskType' /\ ServerType' /\ HistoryType' /\ UsedType'
    BY <1>7, Untouched DEF ProcessEvent
  <2>4. events' \in Seq(Events)
    BY <1>7 DEF ProcessEvent, TypeOK
  <2>5. Resumes'
    BY <1>7, SameTask DEF ProcessEvent, taskVars, historyVars
  <2> QED BY <2>1, <2>2, <2>3, <2>4, <2>5 DEF TypeOK
<1>8. CASE AboutToWait
  <2>1. commands' \in Seq(Commands) /\ DeadInputDropped'
    BY <1>8 DEF AboutToWait, TypeOK, DeadInputDropped, taskVars
  <2>2. CloseType'
    BY <1>8 DEF AboutToWait, TypeOK, CloseType
  <2>3. /\ StatusType' /\ ViewType' /\ TaskType' /\ ServerType' /\ HistoryType' /\ UsedType'
        /\ events' \in Seq(Events)
    BY <1>8, Untouched DEF TypeOK, AboutToWait
  <2>4. Resumes'
    BY <1>8, SameTask DEF AboutToWait, taskVars, historyVars
  <2> QED BY <2>1, <2>2, <2>3, <2>4 DEF TypeOK
<1>9. CASE ProcessExits
  <2>1. commands' \in Seq(Commands) /\ events' \in Seq(Events) /\ DeadInputDropped'
    BY <1>9 DEF ProcessExits, TypeOK, DeadInputDropped
  <2>2. CloseType' /\ TaskType' /\ ServerType'
    BY <1>9 DEF ProcessExits, TypeOK, CloseType, TaskType, TaskStates, ServerType
  <2>3. StatusType' /\ ViewType' /\ HistoryType' /\ UsedType'
    BY <1>9, Untouched DEF ProcessExits
  <2>4. Resumes'
    BY <1>9 DEF ProcessExits, Resumes, historyVars
  <2> QED BY <2>1, <2>2, <2>3, <2>4 DEF TypeOK
<1>10. ASSUME NEW z \in Size, Resized(z) PROVE IInv'
  <2>1. commands' \in Seq(Commands) /\ events' \in Seq(Events) /\ DeadInputDropped'
    BY <1>10 DEF Resized, TypeOK, DeadInputDropped, taskVars
  <2>2. ViewType'
    BY <1>10 DEF Resized, TypeOK, ViewType
  <2>3. UsedType'
    BY <1>10, Counting DEF Resized, UsedType
  <2>4. StatusType' /\ CloseType' /\ TaskType' /\ ServerType' /\ HistoryType'
    BY <1>10, Untouched DEF Resized
  <2>5. Resumes'
    BY <1>10, SameTask DEF Resized, taskVars, historyVars
  <2> QED BY <2>1, <2>2, <2>3, <2>4, <2>5 DEF TypeOK
<1> QED BY <1>1, <1>2, <1>3, <1>4, <1>5, <1>6, <1>7, <1>8, <1>9, <1>10 DEF WindowStep

\* What follows a failed connection keeps the invariant: the queue is empty, and
\* the next request attaches, unless there is none.
LEMMA FailureKeeps ==
    ASSUME IInv, AfterFailure, task \in {"request", "loop"},
           UNCHANGED <<windowVars, session, record_size, output_size, overlay, created, used>>,
           told_end' \in BOOLEAN
    PROVE  IInv'
<1> USE DEF IInv
<1>1. events' \in Seq(Events)
  BY EmitTypes DEF AfterFailure, Events
<1>2. commands' \in Seq(Commands)
  <2>1. commands' = commands \/ commands' = <<>>
    BY DEF AfterFailure
  <2>2. commands \in Seq(Commands) /\ <<>> \in Seq(Commands)
    BY DEF TypeOK
  <2> QED BY <2>1, <2>2
<1>3. attempt' \in 0..MaxAttempt
  BY ClientAssumption DEF AfterFailure, TypeOK, TaskType, NextAttempt
<1>4. TaskType'
  BY <1>3 DEF AfterFailure, TypeOK, TaskType, TaskStates
<1>5. ServerType' /\ HistoryType'
  BY DEF AfterFailure, TypeOK, ServerType, HistoryType
<1>6. StatusType' /\ CloseType' /\ ViewType' /\ UsedType'
  BY Untouched DEF windowVars
<1>7. \/ task' = "over" /\ attach' = attach
      \/ task' = "backoff" /\ attach' = TRUE /\ commands' = <<>>
  BY DEF AfterFailure
<1>8. Resumes'
  BY <1>7 DEF Resumes
<1>9. DeadInputDropped'
  BY <1>7 DEF DeadInputDropped
<1> QED BY <1>1, <1>2, <1>4, <1>5, <1>6, <1>8, <1>9 DEF TypeOK

\* A step of the background task keeps the invariant.
LEMMA TaskKeeps ==
    ASSUME IInv, TaskStep
    PROVE  IInv'
<1> USE DEF IInv
<1>1. CASE Connect
  <2>1. events' \in Seq(Events) /\ commands' \in Seq(Commands)
    BY <1>1, EmitTypes DEF Connect, Events, TypeOK
  <2>2. TaskType'
    BY <1>1 DEF Connect, TypeOK, TaskType, TaskStates
  <2>3. StatusType' /\ CloseType' /\ ViewType' /\ ServerType' /\ HistoryType' /\ UsedType'
    BY <1>1, Untouched DEF Connect, windowVars
  <2>4. Resumes' /\ DeadInputDropped'
    BY <1>1 DEF Connect, Resumes, DeadInputDropped, historyVars
  <2> QED BY <2>1, <2>2, <2>3, <2>4 DEF TypeOK
<1>2. CASE Reopen
  <2>1. events' \in Seq(Events) /\ commands' \in Seq(Commands)
    BY <1>2, EmitTypes DEF Reopen, Events, TypeOK
  <2>2. TaskType'
    <3>1. attempt' \in 0..MaxAttempt
      BY <1>2, ClientAssumption DEF Reopen, TypeOK, TaskType, NextAttempt
    <3> QED BY <1>2, <3>1 DEF Reopen, TypeOK, TaskType, TaskStates
  <2>3. StatusType' /\ CloseType' /\ ViewType' /\ ServerType' /\ HistoryType' /\ UsedType'
    BY <1>2, Untouched DEF Reopen, windowVars
  <2>4. Resumes' /\ DeadInputDropped'
    BY <1>2 DEF Reopen, Resumes, DeadInputDropped, historyVars
  <2> QED BY <2>1, <2>2, <2>3, <2>4 DEF TypeOK
<1>3. CASE SessionReady
  <2>1. events' \in Seq(Events) /\ commands' \in Seq(Commands)
    BY <1>3, EmitTypes DEF SessionReady, Events, TypeOK
  <2>2. /\ created' \in Nat /\ created' <= 1 /\ (Attach => created' = 0)
    BY <1>3 DEF SessionReady, TypeOK, HistoryType, Resumes
  <2>3. TaskType' /\ HistoryType'
    BY <1>3, <2>2 DEF SessionReady, TypeOK, TaskType, TaskStates, HistoryType
  <2>4. ServerType'
    BY <1>3 DEF SessionReady, TypeOK, ServerType
  <2>5. StatusType' /\ CloseType' /\ ViewType' /\ UsedType'
    BY <1>3, Untouched DEF SessionReady, windowVars
  <2>6. Resumes' /\ DeadInputDropped'
    BY <1>3, <2>2 DEF SessionReady, Resumes, DeadInputDropped
  <2> QED BY <2>1, <2>3, <2>4, <2>5, <2>6 DEF TypeOK
<1>4. CASE NoSuchSession
  BY <1>4, FailureKeeps DEF NoSuchSession
<1>5. CASE RequestFails
  BY <1>5, FailureKeeps DEF RequestFails, historyVars, TypeOK, HistoryType
<1>6. CASE SendCommand
  <2> DEFINE c == Head(commands)
  <2>1. /\ commands' = Tail(commands) /\ commands' \in Seq(Commands)
        /\ c.kind = "resize" => c.size \in Size
        /\ c.kind = "cursor" => c.in_frame \in BOOLEAN
    BY <1>6, CommandTypes DEF SendCommand
  <2>2. task' \in {"loop", "over"} /\ events' \in Seq(Events)
    BY <1>6, EmitTypes DEF SendCommand, Events, TypeOK
  <2>3. TaskType'
    BY <1>6, <2>2 DEF SendCommand, TypeOK, TaskType, TaskStates
  <2>4. ServerType'
    BY <1>6, <2>1 DEF SendCommand, TypeOK, ServerType
  <2>5. HistoryType'
    BY <1>6 DEF SendCommand, TypeOK, HistoryType
  <2>6. StatusType' /\ CloseType' /\ ViewType' /\ UsedType'
    BY <1>6, Untouched DEF SendCommand, windowVars
  <2>7. Resumes' /\ DeadInputDropped'
    BY <1>6, <2>2 DEF SendCommand, Resumes, DeadInputDropped
  <2> QED BY <2>1, <2>2, <2>3, <2>4, <2>5, <2>6, <2>7 DEF TypeOK
<1>7. CASE SessionEnd
  <2>1. events' \in Seq(Events) /\ commands' \in Seq(Commands)
    BY <1>7, EmitTypes DEF SessionEnd, Events, TypeOK
  <2>2. TaskType' /\ HistoryType'
    BY <1>7 DEF SessionEnd, TypeOK, TaskType, TaskStates, HistoryType
  <2>3. StatusType' /\ CloseType' /\ ViewType' /\ ServerType' /\ UsedType'
    BY <1>7, Untouched DEF SessionEnd, windowVars
  <2>4. Resumes' /\ DeadInputDropped'
    BY <1>7 DEF SessionEnd, Resumes, DeadInputDropped
  <2> QED BY <2>1, <2>2, <2>3, <2>4 DEF TypeOK
<1>8. CASE ConnectionLost
  BY <1>8, FailureKeeps DEF ConnectionLost, historyVars, TypeOK, HistoryType
<1> QED BY <1>1, <1>2, <1>3, <1>4, <1>5, <1>6, <1>7, <1>8 DEF TaskStep

\* The invariant holds in the initial states.
LEMMA InitKeeps == Init => IInv
<1> SUFFICES ASSUME Init PROVE IInv
  OBVIOUS
<1>1. [kind |-> "cursor", in_frame |-> FALSE, when |-> "before"] \in Commands
  BY DEF Commands, Moments
<1>2. /\ commands = <<[kind |-> "cursor", in_frame |-> FALSE, when |-> "before"]>>
      /\ commands \in Seq(Commands) /\ Len(commands) = 1 /\ commands[1].when = "before"
  BY <1>1 DEF Init
<1>3. TypeOK
  <2>1. StatusType /\ CloseType
    BY DEF Init, StatusType, CloseType
  <2>2. ViewType /\ HistoryType
    BY DEF Init, ViewType, HistoryType
  <2>6. ServerType
    <3>1. record_size \in Size /\ output_size \in Size
      BY DEF Init
    <3> QED BY <3>1 DEF Init, ServerType
  <2>3. TaskType
    <3>1. attempt \in 0..MaxAttempt
      BY ClientAssumption DEF Init
    <3>2. reconnect \in BOOLEAN /\ attach \in BOOLEAN
      BY ClientAssumption, Zenon DEF Init
    <3> QED BY <3>1, <3>2 DEF Init, TaskType, TaskStates
  <2>4. UsedType
    BY ClientAssumption DEF Init, UsedType
  <2>5. events \in Seq(Events)
    BY DEF Init
  <2> QED BY <1>2, <2>1, <2>2, <2>3, <2>4, <2>5, <2>6 DEF TypeOK
<1>4. Resumes
  BY DEF Init, Resumes
<1>5. DeadInputDropped
  BY <1>2 DEF DeadInputDropped
<1> QED BY <1>3, <1>4, <1>5 DEF IInv

\* Every step preserves the invariant.
LEMMA StepKeeps == IInv /\ [Next]_vars => IInv'
<1> SUFFICES ASSUME IInv, [Next]_vars PROVE IInv'
  OBVIOUS
<1>1. CASE LinkBreaks
  <2>1. UsedType'
    BY <1>1, Counting DEF LinkBreaks, IInv, UsedType
  <2>2. ServerType'
    BY <1>1 DEF LinkBreaks, IInv, TypeOK, ServerType
  <2>3. StatusType' /\ CloseType' /\ ViewType' /\ TaskType' /\ HistoryType'
    BY <1>1, Untouched DEF LinkBreaks, IInv, windowVars
  <2>4. /\ commands' \in Seq(Commands) /\ events' \in Seq(Events)
        /\ Resumes' /\ DeadInputDropped'
    BY <1>1 DEF LinkBreaks, IInv, TypeOK, Resumes, DeadInputDropped, taskVars, historyVars
  <2> QED BY <2>1, <2>2, <2>3, <2>4 DEF IInv, TypeOK
<1>2. CASE SessionDies
  <2>1. ServerType'
    BY <1>2 DEF SessionDies, IInv, TypeOK, ServerType
  <2>2. StatusType' /\ CloseType' /\ ViewType' /\ TaskType' /\ HistoryType' /\ UsedType'
    BY <1>2, Untouched DEF SessionDies, IInv, windowVars
  <2>3. /\ commands' \in Seq(Commands) /\ events' \in Seq(Events)
        /\ Resumes' /\ DeadInputDropped'
    BY <1>2 DEF SessionDies, IInv, TypeOK, Resumes, DeadInputDropped, taskVars, historyVars
  <2> QED BY <2>1, <2>2, <2>3 DEF IInv, TypeOK
<1>3. CASE UNCHANGED vars
  <2>1. /\ StatusType' /\ CloseType' /\ ViewType' /\ TaskType' /\ ServerType'
        /\ HistoryType' /\ UsedType'
    BY <1>3, Untouched DEF vars, IInv, windowVars
  <2>2. /\ commands' \in Seq(Commands) /\ events' \in Seq(Events)
        /\ Resumes' /\ DeadInputDropped'
    BY <1>3 DEF vars, IInv, TypeOK, Resumes, DeadInputDropped, taskVars, historyVars
  <2> QED BY <2>1, <2>2 DEF IInv, TypeOK
<1> QED BY <1>1, <1>2, <1>3, WindowKeeps, TaskKeeps DEF Next

\* The invariant holds in every reachable state.
THEOREM Invariance == Spec => []IInv
BY InitKeeps, StepKeeps, PTL DEF Spec

\* Every variable keeps its type.
THEOREM TypeCorrect == Spec => []TypeOK
<1>1. IInv => TypeOK
  BY DEF IInv
<1> QED BY <1>1, Invariance, PTL

\* However often its connection breaks, a client creates one session at most,
\* and none when it was told to attach.
THEOREM CreatesOne == Spec => []OneSession
<1>1. IInv => OneSession
  BY ClientAssumption DEF IInv, Resumes, OneSession
<1> QED BY <1>1, Invariance, PTL

\* What was typed into a connection is dropped with it.
THEOREM DropsDeadInput == Spec => []DeadInputDropped
<1>1. IInv => DeadInputDropped
  BY DEF IInv
<1> QED BY <1>1, Invariance, PTL

\* The count of attempts starts afresh only after a connection that got as far
\* as SessionReady.
THEOREM PatienceKept == Spec => PatienceGrows
<1>1. IInv /\ [Next]_vars => [attempt' < attempt => ready]_vars
  <2> SUFFICES ASSUME IInv, [Next]_vars, ~ready PROVE ~(attempt' < attempt)
    OBVIOUS
  <2>1. attempt \in Nat /\ NextAttempt(attempt) >= attempt
    BY ClientAssumption DEF IInv, TypeOK, TaskType, NextAttempt
  <2>2. CASE WindowStep
    <3>1. attempt' = attempt
      BY <2>2 DEF WindowStep, KeyPressed, KeyReleased, ClientCursor, FlushPendingResize,
             RequestClose, ChooseClose, ProcessEvent, AboutToWait, ProcessExits, Resized, taskVars
    <3> QED BY <2>1, <3>1
  <2>3. CASE TaskStep
    <3>1. AfterFailure => attempt' \in {attempt, NextAttempt(attempt)}
      BY DEF AfterFailure
    <3>2. attempt' \in {attempt, NextAttempt(attempt)}
      BY <2>3, <3>1 DEF TaskStep, Connect, Reopen, SessionReady, NoSuchSession, RequestFails,
             SendCommand, SessionEnd, ConnectionLost
    <3> QED BY <2>1, <3>2
  <2>4. CASE LinkBreaks \/ SessionDies \/ UNCHANGED vars
    <3>1. attempt' = attempt
      BY <2>4 DEF LinkBreaks, SessionDies, vars, taskVars
    <3> QED BY <2>1, <3>1
  <2> QED BY <2>2, <2>3, <2>4 DEF Next
<1> QED BY <1>1, Invariance, PTL DEF Spec, PatienceGrows

\* However often the connection breaks, one session is created and no dead input kept.
THEOREM ReconnectIsSafe == Spec => []ReconnectSafety
BY TypeCorrect, CreatesOne, DropsDeadInput, PTL DEF ReconnectSafety

(***************************************************************************)
(* What the window shows and what the session gets.                        *)
(*                                                                         *)
(* BannerTrue, NothingStuck and ViewAgrees speak of empty queues.  The     *)
(* invariants behind them say what the last message under way will do.     *)
(***************************************************************************)

\* No command in q is of one of the kinds in K, and the last one that is, is x.
NoneOf(q, K) == \A i \in 1..Len(q) : q[i].kind \notin K
LastIs(q, K, x) ==
    \E i \in 1..Len(q) : /\ q[i] = x /\ x.kind \in K
                         /\ \A j \in (i + 1)..Len(q) : q[j].kind \notin K

KeyKinds == {"down", "up"}

\* The task is trying to get a session back.
Trying == ever_ready /\ task \in {"request", "backoff"}

\* The last event under way tells whether the task is trying; without one, the
\* banner does.
BannerInv ==
    /\ task = "connect" => ~ever_ready
    /\ task = "backoff" => ever_ready
    /\ window = "open" =>
         IF events = <<>> THEN should_exit \/ reconnecting = Trying
         ELSE LET last == events[Len(events)] IN
              last = "SessionEnded" \/ (last = "Reconnecting") = Trying

\* A press that nothing takes back, sent or under way, is of a key that is down.
KeyInv == task # "over" =>
    /\ \A x \in Commands : LastIs(commands, KeyKinds, x) /\ x.kind = "down" => key
    /\ NoneOf(commands, KeyKinds) /\ remote_key => key

\* Until a connection is lost there is only the first one.
FirstLink == used.losses = 0 =>
    /\ task # "backoff"
    /\ task = "loop" => link
    /\ task \in {"connect", "request"} => ~ever_ready

\* Until then, the last change of the cursor mode under way is the one in force
\* in the window; without one, the server has seen it.
CursorInv == used.losses = 0 /\ task # "over" =>
    /\ \A x \in Commands : LastIs(commands, {"cursor"}, x) => x.in_frame = ~client_cursor
    /\ NoneOf(commands, {"cursor"}) => task = "loop" /\ overlay = ~client_cursor

\* The same for the size of a session the client creates.
SizeInv == ~Attach /\ used.losses = 0 /\ task # "over" =>
    /\ \A x \in Commands : LastIs(commands, {"resize"}, x) => x.size = last_sent_size
    /\ NoneOf(commands, {"resize"}) =>
         last_sent_size = IF task = "loop" THEN output_size ELSE record_size

VInv == IInv /\ BannerInv /\ KeyInv /\ FirstLink /\ CursorInv /\ SizeInv

\* A command that is queued is the last of its kind.
LEMMA LastAppend ==
    ASSUME NEW q \in Seq(Commands), NEW c \in Commands, NEW K, NEW x
    PROVE  /\ NoneOf(Append(q, c), K) <=> NoneOf(q, K) /\ c.kind \notin K
           /\ LastIs(Append(q, c), K, x) =>
                IF c.kind \in K THEN x = c ELSE LastIs(q, K, x)
<1> DEFINE r == Append(q, c)
<1>1. /\ Len(r) = Len(q) + 1 /\ Len(q) \in Nat /\ r[Len(q) + 1] = c
      /\ \A i \in 1..Len(q) : r[i] = q[i]
  OBVIOUS
<1>2. NoneOf(r, K) <=> NoneOf(q, K) /\ c.kind \notin K
  <2>1. ASSUME NoneOf(r, K) PROVE NoneOf(q, K) /\ c.kind \notin K
    <3>1. Len(q) + 1 \in 1..Len(r) /\ \A i \in 1..Len(q) : i \in 1..Len(r)
      BY <1>1
    <3> QED BY <2>1, <1>1, <3>1 DEF NoneOf
  <2>2. ASSUME NoneOf(q, K), c.kind \notin K PROVE NoneOf(r, K)
    <3> SUFFICES ASSUME NEW i \in 1..Len(r) PROVE r[i].kind \notin K
      BY DEF NoneOf
    <3>1. i \in 1..Len(q) \/ i = Len(q) + 1
      BY <1>1
    <3> QED BY <2>2, <1>1, <3>1 DEF NoneOf
  <2> QED BY <2>1, <2>2
<1>3. ASSUME LastIs(r, K, x) PROVE IF c.kind \in K THEN x = c ELSE LastIs(q, K, x)
  <2>1. PICK i \in 1..Len(r) : /\ r[i] = x /\ x.kind \in K
                               /\ \A j \in (i + 1)..Len(r) : r[j].kind \notin K
    BY <1>3 DEF LastIs
  <2>2. CASE i = Len(q) + 1
    BY <2>1, <2>2, <1>1
  <2>3. CASE i \in 1..Len(q)
    <3>1. Len(q) + 1 \in (i + 1)..Len(r)
      BY <2>3, <1>1
    <3>2. c.kind \notin K
      BY <2>1, <3>1, <1>1
    <3>3. \A j \in (i + 1)..Len(q) : j \in (i + 1)..Len(r) /\ r[j] = q[j]
      BY <2>3, <1>1
    <3>4. LastIs(q, K, x)
      BY <2>1, <2>3, <3>3, <1>1 DEF LastIs
    <3> QED BY <3>2, <3>4
  <2> QED BY <2>2, <2>3, <1>1
<1> QED BY <1>2, <1>3

\* Taking the first command leaves the last of each kind, unless it was the only
\* one.
LEMMA LastTail ==
    ASSUME NEW q \in Seq(Commands), q # <<>>, NEW K
    PROVE  /\ \A x : LastIs(Tail(q), K, x) => LastIs(q, K, x)
           /\ NoneOf(Tail(q), K) /\ Head(q).kind \in K => LastIs(q, K, Head(q))
           /\ NoneOf(Tail(q), K) /\ Head(q).kind \notin K => NoneOf(q, K)
<1> DEFINE r == Tail(q)
<1>1. /\ Len(q) \in Nat /\ Len(q) > 0 /\ Len(r) = Len(q) - 1 /\ Head(q) = q[1]
      /\ \A i \in 1..Len(r) : r[i] = q[i + 1]
  OBVIOUS
<1>2. ASSUME NEW j \in 2..Len(q), NoneOf(r, K) PROVE q[j].kind \notin K
  <2>1. j - 1 \in 1..Len(r) /\ (j - 1) + 1 = j
    BY <1>1
  <2>2. r[j - 1] = q[j]
    BY <1>1, <2>1
  <2> QED BY <1>2, <2>1, <2>2 DEF NoneOf
<1>3. ASSUME NEW x, LastIs(r, K, x) PROVE LastIs(q, K, x)
  <2>1. PICK i \in 1..Len(r) : /\ r[i] = x /\ x.kind \in K
                               /\ \A j \in (i + 1)..Len(r) : r[j].kind \notin K
    BY <1>3 DEF LastIs
  <2>2. i + 1 \in 1..Len(q) /\ q[i + 1] = x
    BY <2>1, <1>1
  <2>3. ASSUME NEW j \in ((i + 1) + 1)..Len(q) PROVE q[j].kind \notin K
    <3>1. j - 1 \in (i + 1)..Len(r) /\ j - 1 \in 1..Len(r) /\ (j - 1) + 1 = j
      BY <1>1
    <3>2. r[j - 1] = q[j]
      BY <1>1, <3>1
    <3> QED BY <2>1, <3>1, <3>2
  <2> QED BY <2>1, <2>2, <2>3 DEF LastIs
<1>4. NoneOf(r, K) /\ q[1].kind \in K => LastIs(q, K, q[1])
  BY <1>1, <1>2 DEF LastIs
<1>5. ASSUME NoneOf(r, K), q[1].kind \notin K, NEW i \in 1..Len(q) PROVE q[i].kind \notin K
  <2>1. i = 1 \/ i \in 2..Len(q)
    BY <1>1
  <2> QED BY <2>1, <1>2, <1>5
<1>6. NoneOf(r, K) /\ q[1].kind \notin K => NoneOf(q, K)
  BY <1>5 DEF NoneOf
<1> QED BY <1>1, <1>3, <1>4, <1>6

\* A drained queue has nothing of any kind.
LEMMA LastEmpty ==
    ASSUME NEW K, NEW x
    PROVE  NoneOf(<<>>, K) /\ ~LastIs(<<>>, K, x)
<1>1. Len(<<>>) = 0 /\ 1..0 = {}
  OBVIOUS
<1> QED BY <1>1 DEF NoneOf, LastIs

\* A step that has nothing to do with keys, the cursor or the size: at most the
\* end of the session is asked for, a key comes up with its connection, or the
\* task gets to its next request.
Quiet ==
    /\ UNCHANGED <<key, client_cursor, last_sent_size, output_size, record_size,
                   overlay, ever_ready>>
    /\ remote_key' => remote_key
    /\ \/ commands' = commands
       \/ \E c \in Commands : /\ c.kind \in {"disconnect", "end"}
                              /\ commands' = Append(commands, c)
    /\ \/ task' = task
       \/ task \in {"connect", "backoff"} /\ task' = "request"
    /\ \/ used'.losses = used.losses /\ link' = link
       \/ used'.losses # 0

\* A step after which the task waits for another connection.
Failed ==
    /\ commands' = <<>> /\ ~remote_key'
    /\ task' = "backoff" /\ ever_ready
    /\ task = "request" \/ (task = "loop" /\ ~link)
    /\ UNCHANGED <<client_cursor, used>>

\* Every step that does not end the task is quiet, a failure, or one of these.
LEMMA ViewSteps ==
    ASSUME IInv, [Next]_vars, task' # "over"
    PROVE  /\ task # "over"
           /\ \/ Quiet \/ Failed \/ SessionReady \/ SendCommand
              \/ KeyPressed \/ KeyReleased \/ ClientCursor \/ FlushPendingResize
<1> USE DEF IInv
<1>1. used.losses \in Nat
  BY ClientAssumption DEF TypeOK, UsedType
<1>2. ASSUME AfterFailure, task = "request" \/ (task = "loop" /\ ~link),
             UNCHANGED <<windowVars, used>>
      PROVE  task # "over" /\ Failed
  BY <1>2 DEF AfterFailure, Failed, windowVars
<1>3. CASE WindowStep
  <2>1. CASE KeyPressed \/ KeyReleased \/ ClientCursor \/ FlushPendingResize
    BY <2>1 DEF KeyPressed, KeyReleased, ClientCursor, FlushPendingResize, taskVars
  <2>2. CASE RequestClose
    <3>1. task' = task /\ UNCHANGED <<key, client_cursor, sizeVars, taskVars, serverVars, used>>
      BY <2>2 DEF RequestClose, taskVars
    <3>2. \/ commands' = commands
          \/ commands' = Append(commands, [kind |-> "disconnect", when |-> Now])
      BY <2>2 DEF RequestClose, Detach, SendCmd
    <3> QED BY <3>1, <3>2, WindowCommands DEF Quiet, sizeVars, taskVars, serverVars
  <2>3. CASE ChooseClose
    <3>1. task' = task /\ UNCHANGED <<key, client_cursor, sizeVars, taskVars, serverVars, used>>
      BY <2>3 DEF ChooseClose, taskVars
    <3>2. \/ commands' = commands
          \/ commands' = Append(commands, [kind |-> "disconnect", when |-> Now])
          \/ commands' = Append(commands, [kind |-> "end", when |-> Now])
      BY <2>3 DEF ChooseClose, Detach, SendCmd
    <3> QED BY <3>1, <3>2, WindowCommands DEF Quiet, sizeVars, taskVars, serverVars
  <2>4. CASE ProcessEvent
    BY <2>4 DEF ProcessEvent, Quiet, sizeVars, taskVars, serverVars
  <2>5. CASE AboutToWait
    BY <2>5 DEF AboutToWait, Quiet, sizeVars, taskVars, serverVars
  <2>6. CASE ProcessExits
    BY <2>6 DEF ProcessExits
  <2>7. ASSUME NEW z \in Size, Resized(z)
        PROVE  task # "over" /\ Quiet
    <3>1. used'.losses = used.losses
      BY <2>7 DEF Resized, TypeOK, UsedType
    <3> QED BY <2>7, <3>1 DEF Resized, Quiet, taskVars, serverVars
  <2> QED BY <1>3, <2>1, <2>2, <2>3, <2>4, <2>5, <2>6, <2>7 DEF WindowStep
<1>4. CASE TaskStep
  <2>1. CASE Connect
    BY <2>1 DEF Connect, Quiet, windowVars, sizeVars, serverVars
  <2>2. CASE Reopen
    BY <2>2 DEF Reopen, Quiet, windowVars, sizeVars, serverVars
  <2>3. CASE SessionReady \/ SendCommand
    BY <2>3 DEF SessionReady, SendCommand
  <2>4. CASE NoSuchSession
    BY <2>4, <1>2 DEF NoSuchSession
  <2>5. CASE RequestFails
    BY <2>5, <1>2 DEF RequestFails
  <2>6. CASE ConnectionLost
    BY <2>6, <1>2 DEF ConnectionLost
  <2>7. CASE SessionEnd
    BY <2>7 DEF SessionEnd
  <2> QED BY <1>4, <2>1, <2>2, <2>3, <2>4, <2>5, <2>6, <2>7 DEF TaskStep
<1>5. CASE LinkBreaks
  <2>1. used'.losses = used.losses + 1
    BY <1>5 DEF LinkBreaks, TypeOK, UsedType
  <2>2. used'.losses # 0
    BY <1>1, <2>1
  <2> QED BY <1>5, <2>2 DEF LinkBreaks, Quiet, windowVars, sizeVars, taskVars
<1>6. CASE SessionDies
  BY <1>6 DEF SessionDies, Quiet, windowVars, sizeVars, taskVars
<1>7. CASE UNCHANGED vars
  BY <1>7 DEF vars, Quiet, windowVars, sizeVars, taskVars, serverVars
<1> QED BY <1>3, <1>4, <1>5, <1>6, <1>7 DEF Next

\* What a sent command does to the session.
LEMMA SendEffect ==
    ASSUME IInv, SendCommand, task' # "over"
    PROVE  /\ commands # <<>> /\ commands' = Tail(commands) /\ Head(commands) \in Commands
           /\ task = "loop" /\ task' = "loop" /\ ever_ready' = ever_ready
           /\ UNCHANGED <<key, client_cursor, last_sent_size, record_size, link, used>>
           /\ IF Head(commands).kind \in KeyKinds
              THEN remote_key' = (link /\ Head(commands).kind = "down")
              ELSE remote_key' = remote_key
           /\ IF Head(commands).kind = "cursor"
              THEN link => overlay' = Head(commands).in_frame
              ELSE overlay' = overlay
           /\ IF Head(commands).kind = "resize"
              THEN link => output_size' = Head(commands).size
              ELSE output_size' = output_size
<1>1. /\ task = "loop" /\ commands # <<>> /\ commands' = Tail(commands)
      /\ UNCHANGED <<windowVars, ever_ready, record_size, link, used>>
  BY DEF SendCommand
<1>2. UNCHANGED <<key, client_cursor, last_sent_size>>
  BY <1>1 DEF windowVars, sizeVars
<1>3. Head(commands) \in Commands
  BY <1>1, CommandTypes DEF IInv
<1>4. task' = "loop"
  BY DEF SendCommand
<1>5. IF Head(commands).kind \in KeyKinds
      THEN remote_key' = (link /\ Head(commands).kind = "down")
      ELSE remote_key' = remote_key
  BY DEF SendCommand, KeyKinds
<1>6. /\ IF Head(commands).kind = "cursor"
         THEN link => overlay' = Head(commands).in_frame
         ELSE overlay' = overlay
      /\ IF Head(commands).kind = "resize"
         THEN link => output_size' = Head(commands).size
         ELSE output_size' = output_size
  BY DEF SendCommand
<1> QED BY <1>1, <1>2, <1>3, <1>4, <1>5, <1>6

\* A press that nothing takes back stays one of a key that is down.
LEMMA KeyKept ==
    ASSUME IInv, KeyInv, [Next]_vars
    PROVE  KeyInv'
<1> SUFFICES ASSUME task' # "over"
             PROVE  /\ \A x \in Commands : LastIs(commands', KeyKinds, x) /\ x.kind = "down" => key'
                    /\ NoneOf(commands', KeyKinds) /\ remote_key' => key'
  BY DEF KeyInv, LastIs, NoneOf
<1>1. /\ task # "over" /\ commands \in Seq(Commands)
      /\ \A x \in Commands : LastIs(commands, KeyKinds, x) /\ x.kind = "down" => key
      /\ NoneOf(commands, KeyKinds) /\ remote_key => key
  BY ViewSteps DEF KeyInv, IInv, TypeOK
<1>2. ASSUME NEW c \in Commands, commands' = Append(commands, c), c.kind \notin KeyKinds,
             key' = key, remote_key' => remote_key
      PROVE  /\ \A x \in Commands : LastIs(commands', KeyKinds, x) /\ x.kind = "down" => key'
             /\ NoneOf(commands', KeyKinds) /\ remote_key' => key'
  BY <1>1, <1>2, LastAppend
<1>3. CASE Quiet
  BY <1>1, <1>2, <1>3 DEF Quiet, KeyKinds
<1>4. CASE Failed
  BY <1>4, LastEmpty DEF Failed
<1>5. CASE SessionReady
  BY <1>1, <1>5 DEF SessionReady, windowVars
<1>6. CASE SendCommand
  <2>1. /\ commands # <<>> /\ commands' = Tail(commands) /\ key' = key
        /\ Head(commands) \in Commands
        /\ IF Head(commands).kind \in KeyKinds
           THEN remote_key' = (link /\ Head(commands).kind = "down")
           ELSE remote_key' = remote_key
    BY <1>6, SendEffect
  <2>2. /\ \A x : LastIs(commands', KeyKinds, x) => LastIs(commands, KeyKinds, x)
        /\ NoneOf(commands', KeyKinds) /\ Head(commands).kind \in KeyKinds
              => LastIs(commands, KeyKinds, Head(commands))
        /\ NoneOf(commands', KeyKinds) /\ Head(commands).kind \notin KeyKinds
              => NoneOf(commands, KeyKinds)
    BY <1>1, <2>1, LastTail
  <2> QED BY <1>1, <2>1, <2>2
<1>7. CASE KeyPressed
  BY <1>7 DEF KeyPressed
<1>8. CASE KeyReleased
  <2> DEFINE c == [kind |-> "up", when |-> Now]
  <2>1. commands' = Append(commands, c) /\ c \in Commands /\ c.kind = "up"
    BY <1>1, <1>8, WindowCommands DEF KeyReleased, SendCmd
  <2>2. /\ ~NoneOf(commands', KeyKinds)
        /\ \A x : LastIs(commands', KeyKinds, x) => x.kind = "up"
    BY <1>1, <2>1, LastAppend DEF KeyKinds
  <2> QED BY <2>2
<1>9. CASE ClientCursor
  <2>1. client_cursor \in BOOLEAN
    BY DEF IInv, TypeOK, ViewType
  <2> DEFINE c == [kind |-> "cursor", in_frame |-> client_cursor, when |-> Now]
  <2>2. commands' = Append(commands, c) /\ c \in Commands /\ c.kind = "cursor"
    BY <1>1, <1>9, <2>1, WindowCommands DEF ClientCursor, SendCmd
  <2> QED BY <1>2, <1>9, <2>2 DEF ClientCursor, KeyKinds, serverVars
<1>10. CASE FlushPendingResize
  <2>1. pending_resize \in Size
    BY <1>10 DEF FlushPendingResize, IInv, TypeOK, ViewType
  <2> DEFINE c == [kind |-> "resize", size |-> pending_resize, when |-> Now]
  <2>2. c \in Commands /\ c.kind = "resize" /\ commands' \in {commands, Append(commands, c)}
    BY <1>1, <1>10, <2>1, WindowCommands DEF FlushPendingResize, SendCmd
  <2>3. key' = key /\ remote_key' = remote_key
    BY <1>10 DEF FlushPendingResize, serverVars
  <2> QED BY <1>1, <1>2, <2>2, <2>3 DEF KeyKinds
<1> QED BY <1>3, <1>4, <1>5, <1>6, <1>7, <1>8, <1>9, <1>10, ViewSteps

\* Until a connection is lost, the first one stays the only one.
LEMMA LinkKept ==
    ASSUME IInv, FirstLink, [Next]_vars, task' # "over"
    PROVE  /\ used'.losses = 0 => used.losses = 0
           /\ FirstLink'
<1>1. used.losses \in Nat /\ task # "over"
  BY ClientAssumption, ViewSteps DEF IInv, TypeOK, UsedType
<1>2. CASE Quiet
  BY <1>2 DEF Quiet, FirstLink
<1>3. CASE Failed
  BY <1>3 DEF Failed, FirstLink
<1>4. CASE SessionReady
  BY <1>4 DEF SessionReady, FirstLink
<1>5. CASE SendCommand
  <2>1. task' = "loop" /\ task = "loop" /\ UNCHANGED <<link, used>>
    BY <1>5, SendEffect
  <2> QED BY <2>1 DEF FirstLink
<1>6. CASE KeyPressed \/ KeyReleased \/ ClientCursor \/ FlushPendingResize
  <2>1. used'.losses = used.losses
    BY <1>6 DEF KeyPressed, KeyReleased, ClientCursor, FlushPendingResize, IInv, TypeOK, UsedType
  <2>2. UNCHANGED <<taskVars, serverVars>>
    BY <1>6 DEF KeyPressed, KeyReleased, ClientCursor, FlushPendingResize
  <2> QED BY <2>1, <2>2 DEF FirstLink, taskVars, serverVars
<1> QED BY <1>2, <1>3, <1>4, <1>5, <1>6, ViewSteps

\* The last change of the cursor mode stays the one in force.
LEMMA CursorKept ==
    ASSUME IInv, FirstLink, CursorInv, [Next]_vars
    PROVE  CursorInv'
<1> DEFINE K == {"cursor"}
           Agrees == /\ \A x \in Commands : LastIs(commands', K, x) => x.in_frame = ~client_cursor'
                     /\ NoneOf(commands', K) => task' = "loop" /\ overlay' = ~client_cursor'
<1> SUFFICES ASSUME used'.losses = 0, task' # "over" PROVE Agrees
  BY DEF CursorInv, LastIs, NoneOf
<1>1. /\ task # "over" /\ commands \in Seq(Commands) /\ used.losses = 0
      /\ task # "backoff" /\ (task = "loop" => link)
      /\ \A x \in Commands : LastIs(commands, K, x) => x.in_frame = ~client_cursor
      /\ NoneOf(commands, K) => task = "loop" /\ overlay = ~client_cursor
  BY ViewSteps, LinkKept DEF CursorInv, FirstLink, IInv, TypeOK
<1>2. ASSUME NEW c \in Commands, commands' = Append(commands, c), c.kind \notin K,
             UNCHANGED <<client_cursor, overlay>>, task = "loop" => task' = "loop"
      PROVE  Agrees
  BY <1>1, <1>2, LastAppend
<1>3. CASE Quiet
  BY <1>1, <1>2, <1>3 DEF Quiet
<1>4. CASE Failed
  BY <1>1, <1>4, LinkKept DEF Failed, FirstLink
<1>5. CASE SessionReady
  <2>1. task = "request" /\ UNCHANGED <<commands, client_cursor>>
    BY <1>5 DEF SessionReady, windowVars
  <2> QED BY <1>1, <2>1
<1>6. CASE SendCommand
  <2>1. /\ commands # <<>> /\ commands' = Tail(commands) /\ client_cursor' = client_cursor
        /\ Head(commands) \in Commands /\ task = "loop" /\ task' = "loop"
        /\ IF Head(commands).kind = "cursor"
           THEN link => overlay' = Head(commands).in_frame
           ELSE overlay' = overlay
    BY <1>6, SendEffect
  <2>2. /\ \A x : LastIs(commands', K, x) => LastIs(commands, K, x)
        /\ NoneOf(commands', K) /\ Head(commands).kind \in K
              => LastIs(commands, K, Head(commands))
        /\ NoneOf(commands', K) /\ Head(commands).kind \notin K => NoneOf(commands, K)
    BY <1>1, <2>1, LastTail
  <2> QED BY <1>1, <2>1, <2>2
<1>7. CASE KeyPressed
  <2> DEFINE c == [kind |-> "down", when |-> Now]
  <2>1. c \in Commands /\ c.kind = "down" /\ commands' \in {commands, Append(commands, c)}
    BY <1>1, <1>7, WindowCommands DEF KeyPressed, SendCmd
  <2>2. UNCHANGED <<client_cursor, overlay, task>>
    BY <1>7 DEF KeyPressed, serverVars, taskVars
  <2> QED BY <1>1, <1>2, <2>1, <2>2
<1>8. CASE KeyReleased
  <2> DEFINE c == [kind |-> "up", when |-> Now]
  <2>1. c \in Commands /\ c.kind = "up" /\ commands' = Append(commands, c)
    BY <1>1, <1>8, WindowCommands DEF KeyReleased, SendCmd
  <2>2. UNCHANGED <<client_cursor, overlay, task>>
    BY <1>8 DEF KeyReleased, serverVars, taskVars
  <2> QED BY <1>2, <2>1, <2>2
<1>9. CASE ClientCursor
  <2>1. client_cursor \in BOOLEAN /\ client_cursor' = ~client_cursor
    BY <1>9 DEF ClientCursor, IInv, TypeOK, ViewType
  <2> DEFINE c == [kind |-> "cursor", in_frame |-> client_cursor, when |-> Now]
  <2>2. /\ commands' = Append(commands, c) /\ c \in Commands
        /\ c.kind = "cursor" /\ c.in_frame = client_cursor
    BY <1>1, <1>9, <2>1, WindowCommands DEF ClientCursor, SendCmd
  <2>3. ~NoneOf(commands', K) /\ \A x : LastIs(commands', K, x) => x = c
    BY <1>1, <2>2, LastAppend
  <2> QED BY <2>1, <2>2, <2>3
<1>10. CASE FlushPendingResize
  <2>1. pending_resize \in Size
    BY <1>10 DEF FlushPendingResize, IInv, TypeOK, ViewType
  <2> DEFINE c == [kind |-> "resize", size |-> pending_resize, when |-> Now]
  <2>2. c \in Commands /\ c.kind = "resize" /\ commands' \in {commands, Append(commands, c)}
    BY <1>1, <1>10, <2>1, WindowCommands DEF FlushPendingResize, SendCmd
  <2>3. UNCHANGED <<client_cursor, overlay, task>>
    BY <1>10 DEF FlushPendingResize, serverVars, taskVars
  <2> QED BY <1>1, <1>2, <2>2, <2>3
<1> QED BY <1>3, <1>4, <1>5, <1>6, <1>7, <1>8, <1>9, <1>10, ViewSteps

\* The last size asked for stays the one the window remembers.
LEMMA SizeKept ==
    ASSUME IInv, FirstLink, SizeInv, [Next]_vars
    PROVE  SizeInv'
<1> DEFINE K == {"resize"}
           Agrees == /\ \A x \in Commands : LastIs(commands', K, x) => x.size = last_sent_size'
                     /\ NoneOf(commands', K) => last_sent_size' =
                          IF task' = "loop" THEN output_size' ELSE record_size'
<1> SUFFICES ASSUME ~Attach, used'.losses = 0, task' # "over" PROVE Agrees
  BY DEF SizeInv, LastIs, NoneOf
<1>1. /\ task # "over" /\ commands \in Seq(Commands) /\ used.losses = 0
      /\ task # "backoff" /\ (task = "loop" => link)
      /\ \A x \in Commands : LastIs(commands, K, x) => x.size = last_sent_size
      /\ NoneOf(commands, K) => last_sent_size =
           IF task = "loop" THEN output_size ELSE record_size
  BY ViewSteps, LinkKept DEF SizeInv, FirstLink, IInv, TypeOK
<1>2. ASSUME NEW c \in Commands, commands' = Append(commands, c), c.kind \notin K,
             UNCHANGED <<last_sent_size, output_size, record_size>>,
             task = "loop" <=> task' = "loop"
      PROVE  Agrees
  BY <1>1, <1>2, LastAppend
<1>3. CASE Quiet
  BY <1>1, <1>2, <1>3 DEF Quiet
<1>4. CASE Failed
  BY <1>1, <1>4, LinkKept DEF Failed, FirstLink
<1>5. CASE SessionReady
  <2>1. /\ task = "request" /\ task' = "loop" /\ output_size' = record_size
        /\ UNCHANGED <<commands, last_sent_size>>
    BY <1>5 DEF SessionReady, windowVars, sizeVars
  <2> QED BY <1>1, <2>1
<1>6. CASE SendCommand
  <2>1. /\ commands # <<>> /\ commands' = Tail(commands) /\ last_sent_size' = last_sent_size
        /\ Head(commands) \in Commands /\ task = "loop" /\ task' = "loop"
        /\ IF Head(commands).kind = "resize"
           THEN link => output_size' = Head(commands).size
           ELSE output_size' = output_size
    BY <1>6, SendEffect
  <2>2. /\ \A x : LastIs(commands', K, x) => LastIs(commands, K, x)
        /\ NoneOf(commands', K) /\ Head(commands).kind \in K
              => LastIs(commands, K, Head(commands))
        /\ NoneOf(commands', K) /\ Head(commands).kind \notin K => NoneOf(commands, K)
    BY <1>1, <2>1, LastTail
  <2> QED BY <1>1, <2>1, <2>2
<1>7. CASE KeyPressed
  <2> DEFINE c == [kind |-> "down", when |-> Now]
  <2>1. c \in Commands /\ c.kind = "down" /\ commands' \in {commands, Append(commands, c)}
    BY <1>1, <1>7, WindowCommands DEF KeyPressed, SendCmd
  <2>2. UNCHANGED <<last_sent_size, output_size, record_size, task>>
    BY <1>7 DEF KeyPressed, serverVars, taskVars, sizeVars
  <2> QED BY <1>1, <1>2, <2>1, <2>2
<1>8. CASE KeyReleased
  <2> DEFINE c == [kind |-> "up", when |-> Now]
  <2>1. c \in Commands /\ c.kind = "up" /\ commands' = Append(commands, c)
    BY <1>1, <1>8, WindowCommands DEF KeyReleased, SendCmd
  <2>2. UNCHANGED <<last_sent_size, output_size, record_size, task>>
    BY <1>8 DEF KeyReleased, serverVars, taskVars, sizeVars
  <2> QED BY <1>2, <2>1, <2>2
<1>9. CASE ClientCursor
  <2>1. client_cursor \in BOOLEAN
    BY DEF IInv, TypeOK, ViewType
  <2> DEFINE c == [kind |-> "cursor", in_frame |-> client_cursor, when |-> Now]
  <2>2. commands' = Append(commands, c) /\ c \in Commands /\ c.kind = "cursor"
    BY <1>1, <1>9, <2>1, WindowCommands DEF ClientCursor, SendCmd
  <2>3. UNCHANGED <<last_sent_size, output_size, record_size, task>>
    BY <1>9 DEF ClientCursor, serverVars, taskVars, sizeVars
  <2> QED BY <1>2, <2>2, <2>3
<1>10. CASE FlushPendingResize
  <2>1. pending_resize \in Size /\ last_sent_size' = pending_resize
    BY <1>10 DEF FlushPendingResize, IInv, TypeOK, ViewType
  <2>2. UNCHANGED <<output_size, record_size, task>>
    BY <1>10 DEF FlushPendingResize, serverVars, taskVars
  <2>3. CASE pending_resize = last_sent_size
    <3>1. commands' = commands
      BY <1>10, <2>3 DEF FlushPendingResize
    <3> QED BY <1>1, <2>1, <2>2, <2>3, <3>1
  <2>4. CASE pending_resize # last_sent_size
    <3> DEFINE c == [kind |-> "resize", size |-> pending_resize, when |-> Now]
    <3>1. /\ commands' = Append(commands, c) /\ c \in Commands
          /\ c.kind = "resize" /\ c.size = pending_resize
      BY <1>1, <1>10, <2>1, <2>4, WindowCommands DEF FlushPendingResize, SendCmd
    <3>2. ~NoneOf(commands', K) /\ \A x : LastIs(commands', K, x) => x = c
      BY <1>1, <3>1, LastAppend
    <3> QED BY <2>1, <3>1, <3>2
  <2> QED BY <2>3, <2>4
<1> QED BY <1>3, <1>4, <1>5, <1>6, <1>7, <1>8, <1>9, <1>10, ViewSteps

\* An event that is emitted is the last one under way.
LEMMA EmitLast ==
    ASSUME TypeOK, NEW e, Emit(e)
    PROVE  events' # <<>> /\ events'[Len(events')] = e
<1>1. events \in Seq(Events)
  BY DEF TypeOK
<1>2. CASE events # <<>> /\ events[Len(events)] = e
  BY <1>2 DEF Emit
<1>3. CASE ~(events # <<>> /\ events[Len(events)] = e)
  <2>1. events' = Append(events, e) /\ Len(events) \in Nat
    BY <1>1, <1>3 DEF Emit
  <2>2. Len(events') = Len(events) + 1 /\ events'[Len(events) + 1] = e
    BY <1>1, <2>1
  <2> QED BY <2>1, <2>2
<1> QED BY <1>2, <1>3

\* What follows a failed connection is told to the window.
LEMMA FailureTold ==
    ASSUME IInv, AfterFailure, task \in {"request", "loop"}
    PROVE  BannerInv'
<1>1. /\ events' # <<>> /\ ever_ready' = ever_ready
      /\ \/ events'[Len(events')] = "ConnectFailed" /\ task' = "over"
         \/ events'[Len(events')] = "SessionEnded" /\ task' = "over"
         \/ events'[Len(events')] = "Reconnecting" /\ task' = "backoff" /\ ever_ready
  BY EmitLast DEF AfterFailure, IInv
<1> QED BY <1>1 DEF BannerInv, Trying

\* The banner follows what the task does.
LEMMA BannerKept ==
    ASSUME IInv, BannerInv, [Next]_vars
    PROVE  BannerInv'
<1> USE DEF IInv
<1>1. ASSUME UNCHANGED <<task, ever_ready, events, reconnecting, should_exit>>,
             window' = "open" => window = "open"
      PROVE  BannerInv'
  BY <1>1 DEF BannerInv, Trying
<1>2. CASE WindowStep
  <2>1. CASE KeyPressed \/ KeyReleased \/ ClientCursor \/ FlushPendingResize \/ AboutToWait
    BY <1>1, <2>1 DEF KeyPressed, KeyReleased, ClientCursor, FlushPendingResize,
       AboutToWait, taskVars, statusVars, closeVars
  <2>2. CASE RequestClose \/ ChooseClose
    BY <1>1, <2>2 DEF RequestClose, ChooseClose, taskVars, statusVars
  <2>3. CASE ProcessEvent
    <3>1. /\ events \in Seq(Events) /\ events # <<>> /\ events' = Tail(events)
          /\ UNCHANGED <<task, ever_ready, window>> /\ window = "open"
          /\ should_exit' = (should_exit \/ Head(events) = "SessionEnded")
          /\ reconnecting' = \/ Head(events) = "Reconnecting"
                             \/ reconnecting /\ Head(events) = "SessionEnded"
      BY <2>3 DEF ProcessEvent, TypeOK, taskVars, closeVars
    <3>2. CASE Len(events) = 1
      <4>1. events' = <<>> /\ Head(events) = events[Len(events)]
        BY <3>1, <3>2
      <4> QED BY <3>1, <4>1 DEF BannerInv, Trying
    <3>3. CASE Len(events) # 1
      <4> events \in Seq(Events) /\ events # <<>>
        BY <3>1
      <4>0. Len(events) \in Nat /\ Len(events) > 0 /\ Len(Tail(events)) = Len(events) - 1
        OBVIOUS
      <4>1. Len(events) \in Nat /\ Len(events) > 1 /\ Len(events') = Len(events) - 1
        BY <3>1, <3>3, <4>0
      <4>2. events'[Len(events')] = events[Len(events') + 1] /\ Len(events') + 1 = Len(events)
        BY <3>1, <4>1
      <4>3. events' # <<>>
        BY <4>1
      <4> QED BY <3>1, <4>2, <4>3 DEF BannerInv, Trying
    <3> QED BY <3>2, <3>3
  <2>4. CASE ProcessExits
    BY <2>4 DEF ProcessExits, BannerInv
  <2>5. ASSUME NEW z \in Size, Resized(z) PROVE BannerInv'
    BY <1>1, <2>5 DEF Resized, taskVars, statusVars, closeVars
  <2> QED BY <1>2, <2>1, <2>2, <2>3, <2>4, <2>5 DEF WindowStep
<1>3. CASE TaskStep
  <2>1. CASE Connect
    <3>1. task = "connect" /\ ~ever_ready /\ UNCHANGED <<ever_ready, windowVars>>
      BY <2>1 DEF Connect, BannerInv
    <3>2. UNCHANGED <<window, reconnecting, should_exit>>
      BY <3>1 DEF windowVars, closeVars, statusVars
    <3>3. CASE task' = "request" /\ UNCHANGED events
      BY <3>1, <3>2, <3>3 DEF BannerInv, Trying
    <3>4. CASE Emit("ConnectFailed") /\ task' = "over"
      BY <3>1, <3>4, EmitLast DEF BannerInv, Trying
    <3> QED BY <2>1, <3>3, <3>4 DEF Connect
  <2>2. CASE Reopen
    <3>1. task = "backoff" /\ ever_ready /\ ever_ready' = ever_ready /\ UNCHANGED windowVars
      BY <2>2 DEF Reopen, BannerInv
    <3>2. UNCHANGED <<window, reconnecting, should_exit>>
      BY <3>1 DEF windowVars, closeVars, statusVars
    <3>3. CASE task' = "request" /\ UNCHANGED events
      BY <3>1, <3>2, <3>3 DEF BannerInv, Trying
    <3>4. CASE Emit("Reconnecting") /\ task' = task
      BY <3>1, <3>4, EmitLast DEF BannerInv, Trying
    <3> QED BY <2>2, <3>3, <3>4 DEF Reopen
  <2>3. CASE SessionReady
    <3>1. task' = "loop" /\ events' # <<>> /\ events'[Len(events')] = "SessionReady"
      BY <2>3, EmitLast DEF SessionReady
    <3> QED BY <3>1 DEF BannerInv, Trying
  <2>4. CASE NoSuchSession \/ RequestFails \/ ConnectionLost
    BY <2>4, FailureTold DEF NoSuchSession, RequestFails, ConnectionLost
  <2>5. CASE SendCommand
    <3>1. task = "loop" /\ task' \in {"loop", "over"} /\ ever_ready' = ever_ready
      BY <2>5 DEF SendCommand
    <3>2. UNCHANGED <<window, reconnecting, should_exit>>
      BY <2>5 DEF SendCommand, windowVars, closeVars, statusVars
    <3>3. events' = events \/ Emit("SessionEnded")
      BY <2>5 DEF SendCommand
    <3> QED BY <3>1, <3>2, <3>3, EmitLast DEF BannerInv, Trying
  <2>6. CASE SessionEnd
    <3>1. task' = "over" /\ events' # <<>> /\ events'[Len(events')] = "SessionEnded"
      BY <2>6, EmitLast DEF SessionEnd
    <3> QED BY <3>1 DEF BannerInv, Trying
  <2> QED BY <1>3, <2>1, <2>2, <2>3, <2>4, <2>5, <2>6 DEF TaskStep
<1>4. CASE LinkBreaks \/ SessionDies \/ UNCHANGED vars
  BY <1>1, <1>4 DEF LinkBreaks, SessionDies, vars, taskVars, windowVars, statusVars, closeVars
<1> QED BY <1>2, <1>3, <1>4 DEF Next

\* The whole invariant is inductive.
THEOREM ViewInvariance == Spec => []VInv
<1>1. Init => VInv
  <2> SUFFICES ASSUME Init PROVE VInv
    OBVIOUS
  <2> DEFINE c == [kind |-> "cursor", in_frame |-> FALSE, when |-> "before"]
  <2>1. Len(commands) = 1 /\ commands[1] = c
    BY DEF Init
  <2>2. \A K, x : LastIs(commands, K, x) => x = c /\ c.kind \in K
    BY <2>1 DEF LastIs
  <2>3. \A K : c.kind \in K => ~NoneOf(commands, K)
    BY <2>1 DEF NoneOf
  <2>4. BannerInv
    BY DEF Init, BannerInv, Trying
  <2>5. KeyInv /\ FirstLink
    BY <2>2 DEF Init, KeyInv, KeyKinds, FirstLink
  <2>6. CursorInv
    <3>1. ~NoneOf(commands, {"cursor"}) /\ c.in_frame = FALSE /\ client_cursor = TRUE
      BY <2>3 DEF Init
    <3>2. \A x \in Commands : LastIs(commands, {"cursor"}, x) => x = c
      BY <2>2
    <3> QED BY <3>1, <3>2 DEF CursorInv
  <2>7. SizeInv
    BY <2>2, <2>3 DEF Init, SizeInv
  <2> QED BY InitKeeps, <2>4, <2>5, <2>6, <2>7 DEF VInv
<1>2. VInv /\ [Next]_vars => VInv'
  <2> SUFFICES ASSUME VInv, [Next]_vars PROVE VInv'
    OBVIOUS
  <2>1. task' = "over" => FirstLink'
    BY DEF FirstLink
  <2>2. FirstLink'
    BY <2>1, LinkKept DEF VInv
  <2> QED BY <2>2, StepKeeps, BannerKept, KeyKept, CursorKept, SizeKept DEF VInv
<1> QED BY <1>1, <1>2, PTL DEF Spec

\* Once the window has seen all events, it shows the banner exactly while the
\* task is trying to get a session back, however often connections break.
THEOREM BannerIsTrue == Spec => []BannerTrue
<1>1. VInv => BannerTrue
  BY DEF VInv, IInv, TypeOK, StatusType, TaskType, BannerInv, BannerTrue, Trying
<1> QED BY <1>1, ViewInvariance, PTL

\* A key that is up on this side, with nothing left to send, is up in the
\* session, whatever the prompt and broken connections have swallowed.
THEOREM NothingStaysStuck == Spec => []NothingStuck
<1>1. VInv => NothingStuck
  BY DEF VInv, KeyInv, NothingStuck, NoneOf
<1> QED BY <1>1, ViewInvariance, PTL

\* Until the connection is lost, the server draws the pointer into the picture
\* exactly when the window does not, once all commands are sent; in a session
\* the client attached to as well as in one of its own.
THEOREM CursorIsAgreed == Spec => []CursorAgrees
<1>1. VInv => CursorAgrees
  BY DEF VInv, CursorInv, CursorAgrees, Settled, NoneOf
<1> QED BY <1>1, ViewInvariance, PTL

\* In a session that the client has created, the size as well is the one the
\* window believes to have asked for.
THEOREM ViewIsAgreed == ASSUME ~Attach PROVE Spec => []ViewAgrees
<1>1. VInv => SizeAgrees
  BY DEF VInv, SizeInv, SizeAgrees, Settled, NoneOf
<1>2. VInv => CursorAgrees
  BY DEF VInv, CursorInv, CursorAgrees, Settled, NoneOf
<1> QED BY <1>1, <1>2, ViewInvariance, PTL DEF ViewAgrees
============================================================================
