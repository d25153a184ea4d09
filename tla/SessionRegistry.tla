-------------------------- MODULE SessionRegistry --------------------------
(***************************************************************************)
(* The persistent sessions of termland-server: the file registry           *)
(* (registry.rs), the detached compositors it names (termland-compositor's *)
(* detached launch) and the connections that create, list, attach to and   *)
(* close them (transport.rs: handle_session, run_session; main.rs: the     *)
(* --list-sessions and --close-session commands).                          *)
(*                                                                         *)
(* There is no daemon that owns the sessions.  A session is a process      *)
(* group led by a setsid'd compositor plus a record file; connections of   *)
(* several processes work on both without any lock.  A record's contents   *)
(* are written once and never change, so the registry is the set of record *)
(* files that exist, and what a record says is a function of its session.  *)
(* A session's compositor pid identifies the session: a pid stays taken    *)
(* while its group has members, and reuse after that is not modelled.      *)
(***************************************************************************)
EXTENDS Integers, FiniteSets

CONSTANTS
    Conn,            \* connections and command-line invocations
    Cli,             \* the members of Conn that are command-line invocations
    Session,         \* session ids (and their compositors)
    Legacy,          \* sessions recorded by a release without owners
    User,            \* account names PAM can authenticate
    NoUser,          \* Option::None for a user name
    NoSession,       \* no session selected yet
    Process,         \* server processes that host connections
    InitProcess,     \* pid 1: adopts and reaps orphans
    ProcessOf,       \* the process each connection runs in
    Dir,             \* runtime directories
    RuntimeDirOf,    \* XDG_RUNTIME_DIR of a compositor run as a user
    Display,         \* Wayland socket names
    StartApps,       \* what else may run in a new session's process group
    RequireAuth,     \* the server runs with --auth
    EncoderCanFail   \* a rebuilt video encoder may fail to open

ServerDir == RuntimeDirOf[NoUser]

\* Group members other than the compositor: none, some that exit on SIGTERM,
\* some that only SIGKILL ends, some in uninterruptible sleep.
AppKinds == {"none", "polite", "deaf", "stuck"}

ASSUME ConstantsAssumption ==
    /\ Cli \subseteq Conn
    /\ Legacy \subseteq Session
    /\ NoUser \notin User
    /\ NoSession \notin Session
    /\ InitProcess \notin Process
    /\ ProcessOf \in [Conn -> Process]
    /\ RuntimeDirOf \in [User \cup {NoUser} -> Dir]
    /\ StartApps \subseteq AppKinds
    /\ RequireAuth \in BOOLEAN
    /\ EncoderCanFail \in BOOLEAN
    /\ Display # {}

VARIABLES
    \* --- the registry directory and what its records say
    recorded,   \* sessions whose <id>.session file exists
    owner,      \* account a session was created for
    display,    \* its wayland_display
    \* --- the operating system
    leader,     \* the compositor process of each session
    apps,       \* the other members of its process group
    sig,        \* strongest signal stage a group has been sent
    parent,     \* process that must reap the compositor
    sockets,    \* Wayland socket files
    \* --- the connections
    pc,         \* control state
    caller,     \* authenticated_user
    target,     \* session being started, streamed or closed
    reason,     \* why that session is being closed
    todo,       \* directory entries a listing has still to visit
    found,      \* live records a listing has collected
    \* --- history
    told,       \* which caller has been told which session id
    published,  \* sessions that have ever had a record
    survivors,  \* sessions whose surviving processes were reported
    acked       \* sessions a client was told are closed

registryVars == <<recorded, owner, display>>
osVars       == <<leader, apps, sig, parent, sockets>>
connVars     == <<pc, caller, target, reason, todo, found>>
historyVars  == <<told, published, survivors, acked>>
vars         == <<registryVars, osVars, connVars, historyVars>>

LeaderStates == {"none", "running", "zombie", "reaped"}

\* Stages of terminate_group already signalled: 1 SIGTERM to the leader,
\* 2 SIGTERM to the group, 3 SIGKILL to the group.
SignalStages == 0..3

ClosingStates == {"close_read", "desktop_wait", "terminate", "leader_wait",
                  "group_wait", "kill_wait", "remove"}

StreamStates == {"creating", "started", "starting", "streaming"}

ConnStates == {"idle", "control", "listing"} \cup StreamStates \cup ClosingStates

\* A close asked for from the control loop (or the command line), one asked
\* for by the streaming client, and SessionOutcome::Gone.
Reasons == {"none", "asked", "closed", "gone", "panicked"}

\* Session ids some client can name.
Issued == {s \in Session : \E u \in User \cup {NoUser} : <<u, s>> \in told}

----------------------------------------------------------------------------
(***************************************************************************)
(* Queries of the registry and of the operating system.                    *)
(***************************************************************************)

\* owned_by_caller: without --auth, or for an ownerless record, everyone may.
OwnedByCaller(o, u) == u = NoUser \/ o = NoUser \/ o = u

\* group_members is non-empty: zombies do not count.
GroupAlive(s) == leader[s] = "running" \/ apps[s] # "none"

\* Mutant of PidAlive: only a child of this process counts as alive.
PidAliveChildOnly(p, s) == leader[s] = "running" /\ parent[s] = p

\* The result of pid_alive(s) in process p.  waitpid reports (and reaps) an
\* exited child of p; kill(pid, 0) succeeds for anybody else's zombie.
PidAlive(p, s) ==
    \/ leader[s] = "running"
    \/ leader[s] = "zombie" /\ parent[s] # p

\* Its side effect: an exited child of the caller is reaped.
ReapedBy(p, s) ==
    IF leader[s] = "zombie" /\ parent[s] = p
    THEN [leader EXCEPT ![s] = "reaped"]
    ELSE leader

\* socket_exists looks in the runtime directory of the server process.
SocketExists(s) == <<ServerDir, display[s]>> \in sockets

IsLive(p, s) == PidAlive(p, s) /\ SocketExists(s)

----------------------------------------------------------------------------
Init ==
    /\ recorded  = Legacy
    /\ owner     = [s \in Session |-> NoUser]
    /\ display   \in {d \in [Session -> Display] :
                        \A s, t \in Legacy : s # t => d[s] # d[t]}
    /\ leader    = [s \in Session |-> IF s \in Legacy THEN "running" ELSE "none"]
    /\ apps      \in {a \in [Session -> AppKinds] :
                        \A s \in Session : IF s \in Legacy THEN a[s] \in StartApps
                                                          ELSE a[s] = "none"}
    /\ sig       = [s \in Session |-> 0]
    /\ parent    = [s \in Session |-> InitProcess]
    /\ sockets   = {<<ServerDir, display[s]>> : s \in Legacy}
    /\ pc        = [c \in Conn |-> "idle"]
    /\ caller    = [c \in Conn |-> NoUser]
    /\ target    = [c \in Conn |-> NoSession]
    /\ reason    = [c \in Conn |-> "none"]
    /\ todo      = [c \in Conn |-> {}]
    /\ found     = [c \in Conn |-> {}]
    /\ told      = (User \cup {NoUser}) \X Legacy
    /\ published = Legacy
    /\ survivors = {}
    /\ acked     = {}

Goto(c, from, to) == pc[c] = from /\ pc' = [pc EXCEPT ![c] = to]

\* The connections in set C no longer exist: handle_session has returned, or
\* the process is gone.
HangUp(C) ==
    /\ pc'     = [c \in Conn |-> IF c \in C THEN "idle" ELSE pc[c]]
    /\ caller' = [c \in Conn |-> IF c \in C THEN NoUser ELSE caller[c]]
    /\ target' = [c \in Conn |-> IF c \in C THEN NoSession ELSE target[c]]
    /\ reason' = [c \in Conn |-> IF c \in C THEN "none" ELSE reason[c]]
    /\ todo'   = [c \in Conn |-> IF c \in C THEN {} ELSE todo[c]]
    /\ found'  = [c \in Conn |-> IF c \in C THEN {} ELSE found[c]]

----------------------------------------------------------------------------
(***************************************************************************)
(* Connections up to the choice of a session: handle_session.              *)
(***************************************************************************)

\* Hello, HelloAck and, with --auth, a successful PAM exchange.  A
\* command-line invocation runs unauthenticated on the server's own host.
Connect(c) ==
    /\ Goto(c, "idle", "control")
    /\ \E u \in IF RequireAuth /\ c \notin Cli THEN User ELSE {NoUser} :
         caller' = [caller EXCEPT ![c] = u]
    /\ UNCHANGED <<registryVars, osVars, target, reason, todo, found, historyVars>>

\* The client goes away, sends SessionEnd or something unexpected before it
\* has selected a session.
Leave(c) ==
    /\ pc[c] = "control"
    /\ HangUp({c})
    /\ UNCHANGED <<registryVars, osVars, historyVars>>

\* list_alive: read_dir fixes the entries that will be visited.
SessionList(c) ==
    /\ Goto(c, "control", "listing")
    /\ todo' = [todo EXCEPT ![c] = recorded]
    /\ UNCHANGED <<registryVars, osVars, caller, target, reason, found, historyVars>>

\* One directory entry: gone meanwhile, live, or pruned together with its log.
ListEntry(c, s) ==
    /\ pc[c] = "listing" /\ s \in todo[c]
    /\ todo' = [todo EXCEPT ![c] = @ \ {s}]
    /\ \/ /\ s \notin recorded
          /\ UNCHANGED <<recorded, leader, found>>
       \/ /\ s \in recorded
          /\ leader' = ReapedBy(ProcessOf[c], s)
          /\ IF IsLive(ProcessOf[c], s)
             THEN found' = [found EXCEPT ![c] = @ \cup {s}] /\ UNCHANGED recorded
             ELSE recorded' = recorded \ {s} /\ UNCHANGED found
    /\ UNCHANGED <<owner, display, apps, sig, parent, sockets, pc, caller,
                   target, reason, historyVars>>

\* Mutant of ListDone: the result is not filtered by owner.
ListDoneUnfiltered(c) ==
    /\ Goto(c, "listing", "control")
    /\ todo[c] = {}
    /\ told' = told \cup {<<caller[c], s>> : s \in found[c]}
    /\ found' = [found EXCEPT ![c] = {}]
    /\ UNCHANGED <<registryVars, osVars, caller, target, reason, todo,
                   published, survivors, acked>>

\* SessionListResult: only the caller's own sessions are shown.
ListDone(c) ==
    /\ Goto(c, "listing", "control")
    /\ todo[c] = {}
    /\ told' = told \cup {<<caller[c], s>> :
                 s \in {f \in found[c] : OwnedByCaller(owner[f], caller[c])}}
    /\ found' = [found EXCEPT ![c] = {}]
    /\ UNCHANGED <<registryVars, osVars, caller, target, reason, todo,
                   published, survivors, acked>>

\* SessionClose of a session recorded for another user: SessionEnd "not
\* authorized", and the control loop goes on.
CloseRefused(c, s) ==
    /\ pc[c] = "control" /\ c \notin Cli
    /\ s \in Issued \cap recorded
    /\ ~OwnedByCaller(owner[s], caller[c])
    /\ UNCHANGED vars

\* Mutant of SessionClose: the ownership check is missing.
SessionCloseUnchecked(c, s) ==
    /\ Goto(c, "control", "close_read")
    /\ s \in Issued
    /\ target' = [target EXCEPT ![c] = s]
    /\ reason' = [reason EXCEPT ![c] = "asked"]
    /\ UNCHANGED <<registryVars, osVars, caller, todo, found, historyVars>>

\* SessionClose passes the ownership check, or finds no record to check.  The
\* command line insists on a record (close_sessions) and asks for no owner.
SessionClose(c, s) ==
    /\ Goto(c, "control", "close_read")
    /\ s \in Issued
    /\ s \in recorded => OwnedByCaller(owner[s], caller[c])
    /\ c \in Cli => s \in recorded
    /\ target' = [target EXCEPT ![c] = s]
    /\ reason' = [reason EXCEPT ![c] = "asked"]
    /\ UNCHANGED <<registryVars, osVars, caller, todo, found, historyVars>>

----------------------------------------------------------------------------
(***************************************************************************)
(* Creating, attaching to and streaming a session: run_session.            *)
(***************************************************************************)

\* The detached launch: a compositor in a session and process group of its own,
\* run as user u in u's runtime directory, where it binds a socket name that no
\* running compositor has.
LaunchDetached(p, s, u) ==
    /\ leader' = [leader EXCEPT ![s] = "running"]
    /\ parent' = [parent EXCEPT ![s] = p]
    /\ \E k \in StartApps : apps' = [apps EXCEPT ![s] = k]
    /\ \E d \in Display :
         /\ \A t \in Session : leader[t] = "running" /\ display[t] = d
                => RuntimeDirOf[owner[t]] # RuntimeDirOf[u]
         /\ display' = [display EXCEPT ![s] = d]
         /\ sockets' = sockets \cup {<<RuntimeDirOf[u], d>>}

\* SessionCreate: the capture thread launches the compositor as the
\* authenticated user.
SessionCreate(c, s) ==
    /\ Goto(c, "control", "creating")
    /\ c \notin Cli
    /\ leader[s] = "none"
    /\ target' = [target EXCEPT ![c] = s]
    /\ owner' = [owner EXCEPT ![s] = caller[c]]
    /\ LaunchDetached(ProcessOf[c], s, caller[c])
    /\ UNCHANGED <<recorded, sig, caller, reason, todo, found, historyVars>>

\* The compositor reported its display within 15 s.
CompositorUp(c) ==
    /\ Goto(c, "creating", "started")
    /\ UNCHANGED <<registryVars, osVars, caller, target, reason, todo, found,
                   historyVars>>

\* registry::write; an I/O error is logged and the session goes on unrecorded.
WriteRecord(c) ==
    /\ Goto(c, "started", "starting")
    /\ \/ /\ recorded' = recorded \cup {target[c]}
          /\ published' = published \cup {target[c]}
       \/ UNCHANGED <<recorded, published>>
    /\ UNCHANGED <<owner, display, osVars, caller, target, reason, todo, found,
                   told, survivors, acked>>

\* SessionAttach of an id without a live record: SessionEnd "no such session",
\* and the connection is over.
AttachUnknown(c, s) ==
    /\ pc[c] = "control" /\ c \notin Cli /\ s \in Issued
    /\ ~(s \in recorded /\ IsLive(ProcessOf[c], s))
    /\ leader' = IF s \in recorded THEN ReapedBy(ProcessOf[c], s) ELSE leader
    /\ HangUp({c})
    /\ UNCHANGED <<registryVars, apps, sig, parent, sockets, historyVars>>

\* A live session of another user: SessionEnd "not authorized".
AttachRefused(c, s) ==
    /\ pc[c] = "control" /\ c \notin Cli /\ s \in Issued \cap recorded
    /\ IsLive(ProcessOf[c], s)
    /\ ~OwnedByCaller(owner[s], caller[c])
    /\ HangUp({c})
    /\ UNCHANGED <<registryVars, osVars, historyVars>>

SessionAttach(c, s) ==
    /\ Goto(c, "control", "starting")
    /\ c \notin Cli /\ s \in Issued \cap recorded
    /\ IsLive(ProcessOf[c], s)
    /\ OwnedByCaller(owner[s], caller[c])
    /\ target' = [target EXCEPT ![c] = s]
    /\ UNCHANGED <<registryVars, osVars, caller, reason, todo, found, historyVars>>

\* First frame within 10 s, planes open, SessionReady and first frame sent.
SessionReady(c) ==
    /\ Goto(c, "starting", "streaming")
    /\ leader[target[c]] = "running"
    /\ told' = told \cup {<<caller[c], target[c]>>}
    /\ UNCHANGED <<registryVars, osVars, caller, target, reason, todo, found,
                   published, survivors, acked>>

\* No display within 15 s, no first frame, a lost client: run_session returns
\* early and leaves the compositor, and its record if there is one, as it is.
StartFails(c) ==
    /\ pc[c] \in {"creating", "starting"}
    /\ HangUp({c})
    /\ UNCHANGED <<registryVars, osVars, historyVars>>

BeginClose(c, why) ==
    /\ Goto(c, "streaming", "close_read")
    /\ reason' = [reason EXCEPT ![c] = why]
    /\ UNCHANGED <<caller, target, todo, found>>

\* Mutant of Detach: the record is written again on the way out.
DetachRewrites(c) ==
    /\ pc[c] = "streaming"
    /\ recorded' = recorded \cup {target[c]}
    /\ HangUp({c})
    /\ UNCHANGED <<owner, display, osVars, historyVars>>

\* Mutant of Detach: a disconnect is handled like a compositor that is gone.
DetachTerminates(c) ==
    /\ BeginClose(c, "gone")
    /\ UNCHANGED <<registryVars, osVars, historyVars>>

\* SessionEnd, EOF or a failed send: SessionOutcome::Detached.
Detach(c) ==
    /\ pc[c] = "streaming"
    /\ HangUp({c})
    /\ UNCHANGED <<registryVars, osVars, historyVars>>

\* SessionClose of the active session: SessionOutcome::Closed.
ClientCloses(c) ==
    /\ BeginClose(c, "closed")
    /\ UNCHANGED <<registryVars, osVars, historyVars>>

\* The capture thread finds the compositor's pid dead: SessionOutcome::Gone.
CompositorGone(c) ==
    /\ BeginClose(c, "gone")
    /\ ~PidAlive(ProcessOf[c], target[c])
    /\ leader' = ReapedBy(ProcessOf[c], target[c])
    /\ UNCHANGED <<registryVars, apps, sig, parent, sockets, historyVars>>

\* The capture thread panics because no encoder opens after a resize
\* (init_encoder); the frame channel closes just as if the compositor was gone,
\* and the outcome is SessionOutcome::Gone here as well.
CapturePanics(c) ==
    /\ EncoderCanFail
    /\ BeginClose(c, "panicked")
    /\ UNCHANGED <<registryVars, osVars, historyVars>>

----------------------------------------------------------------------------
(***************************************************************************)
(* registry::close and terminate_group.                                    *)
(***************************************************************************)

\* end_desktop finds a desktop script's pid, still a member of the group, and
\* asks it to end the desktop.  Whether there is such a script is left open.
EndDesktop(s) == apps[s] # "none"

\* close reads the record.  Without one nothing is terminated.
CloseRead(c) ==
    /\ \/ /\ Goto(c, "close_read", "remove")
          /\ target[c] \notin recorded
       \/ /\ Goto(c, "close_read", "desktop_wait")
          /\ target[c] \in recorded
          /\ EndDesktop(target[c])
       \/ /\ Goto(c, "close_read", "terminate")
          /\ target[c] \in recorded
    /\ UNCHANGED <<registryVars, osVars, caller, target, reason, todo, found,
                   historyVars>>

\* A stage of close in state "at": the group is found empty, or the grace is
\* over and the next stage begins with its signal.
CloseStage(c, at, next, stage) ==
    /\ \/ /\ Goto(c, at, "remove")
          /\ ~GroupAlive(target[c])
          /\ UNCHANGED sig
       \/ /\ Goto(c, at, next)
          /\ GroupAlive(target[c])
          /\ sig' = [sig EXCEPT ![target[c]] = IF stage > @ THEN stage ELSE @]
    /\ UNCHANGED <<registryVars, leader, apps, parent, sockets, caller, target,
                   reason, todo, found, historyVars>>

\* Mutants: the record is dropped without confirming that the group is gone
\* (of TermLeader); the last stage waits without a deadline,
\* or signals SIGTERM once more (of KillGroup).
TermLeaderUnconfirmed(c) == CloseStage(c, "terminate", "remove", 1)
KillGroupNoDeadline(c) == CloseStage(c, "group_wait", "kill_wait", 3) /\ ~GroupAlive(target[c])
KillGroupTermOnly(c) == CloseStage(c, "group_wait", "kill_wait", 2)

DesktopGrace(c) == CloseStage(c, "desktop_wait", "terminate", 0)
TermLeader(c)   == CloseStage(c, "terminate", "leader_wait", 1)
TermGroup(c)    == CloseStage(c, "leader_wait", "group_wait", 2)
KillGroup(c)    == CloseStage(c, "group_wait", "kill_wait", 3)

\* The last wait: Killed, or Survivors, which are logged.
Confirm(c) ==
    /\ Goto(c, "kill_wait", "remove")
    /\ survivors' = IF GroupAlive(target[c]) THEN survivors \cup {target[c]}
                                             ELSE survivors
    /\ UNCHANGED <<registryVars, osVars, caller, target, reason, todo, found,
                   told, published, acked>>

\* Mutant of RemoveRecord: the connection forgets the session but not its state.
RemoveRecordStays(c) ==
    /\ pc[c] = "remove"
    /\ recorded' = recorded \ {target[c]}
    /\ target' = [target EXCEPT ![c] = NoSession]
    /\ UNCHANGED <<owner, display, osVars, pc, caller, reason, todo, found,
                   historyVars>>

\* remove(id), whatever happened.  The control loop acknowledges and goes on;
\* run_session and the command line are done.
RemoveRecord(c) ==
    /\ pc[c] = "remove"
    /\ recorded' = recorded \ {target[c]}
    /\ acked' = IF reason[c] = "asked" THEN acked \cup {target[c]} ELSE acked
    /\ IF reason[c] = "asked" /\ c \notin Cli
       THEN /\ pc' = [pc EXCEPT ![c] = "control"]
            /\ target' = [target EXCEPT ![c] = NoSession]
            /\ reason' = [reason EXCEPT ![c] = "none"]
            /\ UNCHANGED <<caller, todo, found>>
       ELSE HangUp({c})
    /\ UNCHANGED <<owner, display, osVars, told, published, survivors>>

----------------------------------------------------------------------------
(***************************************************************************)
(* The operating system.                                                   *)
(***************************************************************************)

\* The compositor exits (logout, crash or a signal).  A clean exit unlinks its
\* socket.  A child of pid 1 is reaped at once.
LeaderExits(s) ==
    /\ leader[s] = "running"
    /\ leader' = [leader EXCEPT ![s] =
                    IF parent[s] = InitProcess THEN "reaped" ELSE "zombie"]
    /\ \/ sockets' = sockets \ {<<RuntimeDirOf[owner[s]], display[s]>>}
       \/ UNCHANGED sockets
    /\ UNCHANGED <<registryVars, apps, sig, parent, connVars, historyVars>>

\* The remaining members exit; stuck ones cannot.
AppsExit(s) ==
    /\ apps[s] \in {"polite", "deaf"}
    /\ apps' = [apps EXCEPT ![s] = "none"]
    /\ UNCHANGED <<registryVars, leader, sig, parent, sockets, connVars,
                   historyVars>>

\* A server process ends: a crash, a restart, or the end of an SSH-subsystem
\* process.  Its connections are gone without any cleanup and pid 1 inherits
\* its children.
ProcessExits(p) ==
    /\ HangUp({c \in Conn : ProcessOf[c] = p})
    /\ parent' = [s \in Session |-> IF parent[s] = p THEN InitProcess ELSE parent[s]]
    /\ leader' = [s \in Session |-> IF parent[s] = p /\ leader[s] = "zombie"
                                    THEN "reaped" ELSE leader[s]]
    /\ UNCHANGED <<registryVars, apps, sig, sockets, historyVars>>

----------------------------------------------------------------------------
ControlStep(c) ==
    \/ Connect(c) \/ Leave(c) \/ SessionList(c) \/ ListDone(c)
    \/ \E s \in Session :
         \/ ListEntry(c, s) \/ CloseRefused(c, s) \/ SessionClose(c, s)
         \/ SessionCreate(c, s) \/ AttachUnknown(c, s) \/ AttachRefused(c, s)
         \/ SessionAttach(c, s)

StreamStep(c) ==
    \/ CompositorUp(c) \/ WriteRecord(c) \/ SessionReady(c) \/ StartFails(c)
    \/ Detach(c) \/ ClientCloses(c) \/ CompositorGone(c) \/ CapturePanics(c)

CloseStep(c) ==
    \/ CloseRead(c) \/ DesktopGrace(c) \/ TermLeader(c) \/ TermGroup(c)
    \/ KillGroup(c) \/ Confirm(c) \/ RemoveRecord(c)

Next ==
    \/ \E c \in Conn : ControlStep(c) \/ StreamStep(c) \/ CloseStep(c)
    \/ \E s \in Session : LeaderExits(s) \/ AppsExit(s)
    \/ \E p \in Process : ProcessExits(p)

Spec == Init /\ [][Next]_vars

(***************************************************************************)
(* Fairness.  A close runs without waiting for anybody: every wait in it   *)
(* has a deadline.  The capture loop looks at the compositor's pid in      *)
(* every round.  A compositor honours SIGTERM; SIGTERM to the group ends   *)
(* the members that honour it, SIGKILL all that are not stuck.  Nothing    *)
(* makes a client act or a process end otherwise.                          *)
(***************************************************************************)
SignalledAppsExit(s) ==
    /\ \/ sig[s] >= 2 /\ apps[s] = "polite"
       \/ sig[s] = 3
    /\ AppsExit(s)

Fairness ==
    /\ \A c \in Conn : WF_vars(CloseStep(c)) /\ WF_vars(CompositorGone(c))
    /\ \A s \in Session :
         /\ WF_vars(sig[s] > 0 /\ LeaderExits(s))
         /\ WF_vars(SignalledAppsExit(s))

FairSpec == Spec /\ Fairness

----------------------------------------------------------------------------
(***************************************************************************)
(* Properties.                                                             *)
(***************************************************************************)

\* Every variable keeps the shape its declaration describes.
TypeOK ==
    /\ recorded \subseteq Session
    /\ owner \in [Session -> User \cup {NoUser}]
    /\ display \in [Session -> Display]
    /\ leader \in [Session -> LeaderStates]
    /\ apps \in [Session -> AppKinds]
    /\ sig \in [Session -> SignalStages]
    /\ parent \in [Session -> Process \cup {InitProcess}]
    /\ sockets \subseteq Dir \X Display
    /\ pc \in [Conn -> ConnStates]
    /\ caller \in [Conn -> User \cup {NoUser}]
    /\ target \in [Conn -> Session \cup {NoSession}]
    /\ \A c \in Conn : pc[c] \in StreamStates \cup ClosingStates
                          => target[c] \in Session
    /\ reason \in [Conn -> Reasons]
    /\ todo \in [Conn -> SUBSET Session]
    /\ found \in [Conn -> SUBSET Session]
    /\ told \subseteq (User \cup {NoUser}) \X Session
    /\ published \subseteq Session
    /\ survivors \subseteq Session
    /\ acked \subseteq Session

\* Connection c is at the point of a close where it acts on session s.
Closing(c, s) == pc[c] \in ClosingStates /\ target[c] = s

\* A process group is only ever signalled on behalf of a connection that may
\* end that session: its owner, a caller without identity, or anybody for an
\* ownerless session.  The check and the signals are several steps apart, with
\* a second read of the record in between (transport.rs SessionClose,
\* registry::close).
OnlyOwnerSignals ==
    [][\A s \in Session : sig'[s] # sig[s] =>
         \E c \in Conn : Closing(c, s) /\ OwnedByCaller(owner[s], caller[c])]_vars

\* A session whose compositor still runs keeps its record, so that it can be
\* listed and resumed, until a close has given up on it and reported the
\* survivors (list_alive's pruning, close's unconditional remove).
RunningSessionKeepsRecord ==
    [][\A s \in Session :
         s \in recorded /\ leader[s] = "running" /\ s \notin recorded'
            => s \in survivors]_vars

\* A listing drops the record only of a session whose process or socket is gone
\* (list_alive, "Prunes records whose process/socket are gone").  The code looks
\* for the socket in the server's runtime directory, wherever the compositor is.
PrunesOnlyTheGone ==
    [][\A c \in Conn, s \in Session :
         s \in todo[c] \ todo'[c] /\ s \in recorded \ recorded' /\ pc[c] = "listing" =>
            \/ leader[s] # "running"
            \/ <<RuntimeDirOf[owner[s]], display[s]>> \notin sockets]_vars

\* When close is about to drop a record, nothing of the session is left
\* running, or it has been reported: the confirmation terminate_group is for.
\* Other connections may close, prune or crash at any point of it.
CloseConfirms ==
    \A c \in Conn : pc[c] = "remove" /\ target[c] \in recorded =>
        ~GroupAlive(target[c]) \/ target[c] \in survivors

\* A session acknowledged as closed never gets a record again, whatever the
\* order in which concurrent creates, lists and closes touch the directory.
ClosedIsFinal == acked \cap recorded = {}

\* A caller is only ever told the ids of sessions it may use: its own and
\* ownerless ones, through SessionListResult or SessionReady.
ToldOnlyOwn ==
    \A u \in User, s \in Session : <<u, s>> \in told => OwnedByCaller(owner[s], u)

\* Types, and what a close and a listing answer, in one invariant.
RegistrySafety == TypeOK /\ CloseConfirms /\ ClosedIsFinal /\ ToldOnlyOwn

\* A running compositor is only signalled because a client asked for its
\* session to be closed, or because its capture thread panicked; a detach, a
\* failed start or another session's end never reaches it (run_session's
\* SessionOutcome).
RunningEndsOnRequest ==
    [][\A s \in Session :
         leader[s] = "running" /\ sig[s] = 0 /\ sig'[s] > 0 =>
            \E c \in Conn : Closing(c, s) /\ reason[c] \in {"asked", "closed", "panicked"}]_vars

\* The registry implements the life cycle it promises.  A session is resumable
\* while it has a record; one that failed to be recorded stays private.
Lifecycle == INSTANCE SessionLifecycle WITH
    phase <- [s \in Session |->
                IF s \in recorded THEN "resumable"
                ELSE IF s \in published THEN "over"
                ELSE IF leader[s] = "none" THEN "unborn"
                ELSE "private"],
    running <- {s \in Session : leader[s] = "running"},
    givenUp <- survivors

\* Every step of connections, processes and the registry is a step of the life
\* cycle or leaves it alone: published at most once, withdrawn for good, and
\* not while the compositor runs.
ImplementsLifecycle == Lifecycle!Spec

\* Every close comes to an end: each of its waits has a deadline.
CloseCompletes ==
    \A c \in Conn : pc[c] \in ClosingStates ~> pc[c] \notin ClosingStates

\* Once a close has dealt with a recorded session, what is left of its group
\* dies even if it ignores SIGTERM; only processes that survive SIGKILL stay.
ClosedGroupDies ==
    \A s \in Session :
        (\E c \in Conn : pc[c] = "remove" /\ target[c] = s /\ s \in recorded)
            ~> (leader[s] # "running" /\ apps[s] \in {"none", "stuck"})

\* Both: a close ends, and so does what it closes.
ClosesEnd == CloseCompletes /\ ClosedGroupDies
============================================================================
