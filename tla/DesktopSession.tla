---------------------------- MODULE DesktopSession ----------------------------
(***************************************************************************)
(* The life of a session's desktop: how the compositor is launched         *)
(* (session.rs, backend.rs, labwc.rs, cage.rs), what the desktop command   *)
(* does inside it, and how it is ended (end_desktop, the logout service).  *)
(*                                                                         *)
(* The desktop command is a shell script under dbus-run-session, which     *)
(* labwc runs as its session command.  With KWin nested in labwc it starts *)
(* KWin, waits for its socket, starts plasmashell in it, and only then     *)
(* sets the trap that stops them in order.  A signal finds the script      *)
(* wherever it is: before the trap and while the trap runs, SIGTERM simply *)
(* kills it.  The programs of the desktop are external: what they do when  *)
(* what they depend on goes is modelled from what backend.rs says of them. *)
(***************************************************************************)
EXTENDS Naturals, FiniteSets

CONSTANTS
    Hosts,          \* what a host may offer
    MaxEnds,        \* bound: requests to end the session
    MaxCrashes      \* bound: programs that end by themselves

\* has_program, has_render_node: PATH and /dev/dri of the host; whether the session is for
\* a user of the host; and whether the logout service runs.
Host == [plasma : BOOLEAN, kwin : BOOLEAN, gpu : BOOLEAN, isolated : BOOLEAN, logout : BOOLEAN]

ASSUME DesktopAssumption == Hosts \subseteq Host /\ MaxEnds \in Nat /\ MaxCrashes \in Nat

Program == {"labwc", "bus", "script", "logout", "kwin", "shell", "terminal", "kded"}

VARIABLES
    host,           \* what the host offers, and whom the session is for
    desktop,        \* the form of the desktop, "none" before it is chosen
    launch,         \* where launch_detached is
    cred,           \* credentials of the child between fork and exec, and after
    rundir,         \* owner of the session's runtime dir
    up,             \* programs that run
    told,           \* programs that have been sent SIGTERM
    script,         \* the line of the script it is at
    trap,           \* the script has its trap set
    pidfile,        \* the script has recorded its pid
    ends, crashes,  \* requests to end and crashes so far
    aborted         \* programs that went because what they depend on had gone

launchVars == <<host, desktop, launch, cred, rundir>>
scriptVars == <<script, trap, pidfile>>
desktopVars == <<launchVars, up, told, scriptVars, ends, crashes, aborted>>
-----------------------------------------------------------------------------
(* Choosing the desktop. *)

\* detect_desktop_shell: KWin needs a GPU it can open; without Plasma, or without a bus
\* for it, a terminal.
DetectDesktopShell(h) ==
    IF ~ h.plasma THEN "terminal" ELSE IF h.kwin /\ h.gpu THEN "nested" ELSE "labwc"

\* A session command that is a script, rather than an application or a terminal.
Plasma == desktop \in {"nested", "labwc"}

Server == [groups |-> "server", gid |-> "server", uid |-> "server"]
User   == [groups |-> "user", gid |-> "user", uid |-> "user"]

Init ==
    /\ host \in Hosts /\ desktop = "none" /\ launch = "choose" /\ cred = Server
    /\ rundir \in {"none", "user"}
    /\ up = {} /\ told = {} /\ script = "none" /\ trap = FALSE /\ pidfile = FALSE
    /\ ends = 0 /\ crashes = 0 /\ aborted = {}
-----------------------------------------------------------------------------
(* launch_detached, and what it calls. *)

noPrograms == UNCHANGED <<up, told, scriptVars, ends, crashes, aborted>>
At(here, there) == launch = here /\ launch' = there

\* Compositor::create: labwc with a shell, cage with an application.
Choose ==
    /\ At("choose", IF host.isolated THEN "resolve" ELSE "spawn")
    /\ desktop' \in {DetectDesktopShell(host), "app"}
    /\ UNCHANGED <<host, cred, rundir>> /\ noPrograms

\* resolve_target_user fails closed: no such user, no home, root, or an error.
Resolve ==
    /\ \/ At("resolve", "rundir") \/ At("resolve", "failed")
    /\ UNCHANGED <<host, desktop, cred, rundir>> /\ noPrograms

\* ensure_runtime_dir: one that exists is taken as it is, whoever owns it.  A chown
\* that fails leaves the new directory behind as the server's, a chmod as the user's.
RuntimeDir ==
    /\ \/ rundir # "none" /\ At("rundir", "spawn") /\ UNCHANGED rundir
       \/ rundir = "none" /\ At("rundir", "spawn") /\ rundir' = "user"
       \/ rundir = "none" /\ At("rundir", "failed") /\ rundir' \in {"none", "server", "user"}
    /\ UNCHANGED <<host, desktop, cred>> /\ noPrograms

\* Another attempt of the same user; where no directory is the server's it is Init's.
LaunchAgain ==
    /\ rundir = "server" /\ At("failed", "choose")
    /\ UNCHANGED <<host, desktop, cred, rundir>> /\ noPrograms

\* The child, between fork and exec: initgroups, setgid, setuid, any of which fails
\* the spawn.
Change(field, here, there) ==
    /\ \/ At(here, there) /\ cred' = [cred EXCEPT ![field] = "user"]
       \/ At(here, "failed") /\ cred' = Server
    /\ UNCHANGED <<host, desktop, rundir>> /\ noPrograms

Fork ==
    /\ At("spawn", IF host.isolated THEN "initgroups" ELSE "exec")
    /\ UNCHANGED <<host, desktop, cred, rundir>> /\ noPrograms

\* Mutant: the supplementary groups of the server are kept.
InitGroupsSkipped ==
    /\ At("initgroups", "setgid") /\ UNCHANGED <<host, desktop, cred, rundir>> /\ noPrograms

InitGroups == Change("groups", "initgroups", "setgid")
SetGid == Change("gid", "setgid", "setuid")
SetUid == Change("uid", "setuid", "exec")

\* exec: the compositor makes its socket, in a directory it may write, and runs the
\* command, which reports the socket to the log.  A compositor that exits early is
\* reported; one that is not up in ten seconds is left running.
Exec ==
    /\ \/ /\ At("exec", "running")
          /\ host.isolated => rundir = "user"
          /\ IF Plasma
             THEN up' = {"labwc", "bus", "script"} /\ script' = "logout"
             ELSE up' = {"labwc", "terminal"} /\ UNCHANGED script
          /\ UNCHANGED cred
       \/ At("exec", "failed") /\ cred' = Server /\ UNCHANGED <<up, script>>
       \/ /\ At("exec", "late")
          /\ host.isolated => rundir = "user"
          /\ up' = {"labwc"} /\ UNCHANGED <<cred, script>>
    /\ UNCHANGED <<host, desktop, rundir, told, trap, pidfile, ends, crashes, aborted>>
-----------------------------------------------------------------------------
(* plasma_desktop_command: the lines of the script. *)

scriptUnchanged == UNCHANGED <<launchVars, ends, crashes, aborted>>
Line(here, there) == "script" \in up /\ script = here /\ script' = there
Start(program) == up' = up \cup program

StartLogout ==
    /\ Line("logout", IF desktop = "nested" THEN "record" ELSE "shell")
    /\ Start(IF host.logout THEN {"logout"} ELSE {})
    /\ UNCHANGED <<told, trap, pidfile>> /\ scriptUnchanged

\* Mutant: the pid is not recorded.
RecordSkipped ==
    /\ Line("record", "kwin")
    /\ UNCHANGED <<up, told, trap, pidfile>> /\ scriptUnchanged

\* The pid is written where the compositor has just made its socket; the script would not
\* notice if that failed, and a write that fails is not modelled.
Record ==
    /\ Line("record", "kwin") /\ pidfile' = TRUE
    /\ UNCHANGED <<up, told, trap>> /\ scriptUnchanged

StartKwin ==
    /\ Line("kwin", "socket") /\ Start({"kwin"})
    /\ UNCHANGED <<told, trap, pidfile>> /\ scriptUnchanged

\* The socket is there, or ten seconds are over.
SocketWait ==
    /\ Line("socket", "shell")
    /\ UNCHANGED <<up, told, trap, pidfile>> /\ scriptUnchanged

StartShell ==
    /\ Line("shell", "trap") /\ Start({"shell"})
    /\ UNCHANGED <<told, trap, pidfile>> /\ scriptUnchanged

SetTrap ==
    /\ Line("trap", IF desktop = "nested" THEN "wait" ELSE "terminal") /\ trap' = TRUE
    /\ UNCHANGED <<up, told, pidfile>> /\ scriptUnchanged

\* The terminal in the foreground.
StartTerminal ==
    /\ Line("terminal", "wait") /\ Start({"terminal"})
    /\ UNCHANGED <<told, trap, pidfile>> /\ scriptUnchanged

\* What the script waits for has ended, or a signal interrupts the wait for KWin.  A
\* script with a terminal in front takes a signal only when the terminal ends.
Waited == IF desktop = "nested" THEN "kwin" \notin up \/ "script" \in told ELSE "terminal" \notin up

WaitReturns ==
    /\ Line("wait", IF trap THEN "stop_shell" ELSE "exit") /\ Waited
    /\ told' = told \ {"script"} /\ trap' = (trap /\ desktop # "nested")
    /\ UNCHANGED <<up, pidfile>> /\ scriptUnchanged

\* The trap: plasmashell and the logout service are told, and plasmashell waited for.
StopShell ==
    /\ Line("stop_shell", "wait_shell")
    /\ told' = told \cup ({"shell", "logout"} \cap up)
    /\ UNCHANGED <<up, trap, pidfile>> /\ scriptUnchanged

\* Mutant: it is not waited for.
WaitShellNot ==
    /\ Line("wait_shell", IF desktop = "nested" THEN "stop_kwin" ELSE "exit")
    /\ up' = up \ (IF desktop = "nested" THEN {"kded"} ELSE {})
    /\ UNCHANGED <<told, trap, pidfile>> /\ scriptUnchanged

\* After it stop_kded, of this session's process group only.
WaitShell ==
    /\ Line("wait_shell", IF desktop = "nested" THEN "stop_kwin" ELSE "exit")
    /\ "shell" \notin up
    /\ up' = up \ (IF desktop = "nested" THEN {"kded"} ELSE {})
    /\ UNCHANGED <<told, trap, pidfile>> /\ scriptUnchanged

StopKwin ==
    /\ Line("stop_kwin", "wait_kwin") /\ told' = told \cup ({"kwin"} \cap up)
    /\ UNCHANGED <<up, trap, pidfile>> /\ scriptUnchanged

WaitKwin ==
    /\ Line("wait_kwin", "exit") /\ "kwin" \notin up
    /\ up' = up \ {"kded"} /\ pidfile' = FALSE
    /\ UNCHANGED <<told, trap>> /\ scriptUnchanged

ScriptExits ==
    /\ Line("exit", "ended") /\ up' = up \ {"script"}
    /\ UNCHANGED <<told, trap, pidfile>> /\ scriptUnchanged

\* SIGTERM with no trap set, or with the trap reset by the trap itself.
ScriptKilled ==
    /\ "script" \in up \cap told /\ ~ trap
    /\ up' = up \ {"script"} /\ script' = "killed"
    /\ UNCHANGED <<told, trap, pidfile>> /\ scriptUnchanged
-----------------------------------------------------------------------------
(* The programs of the desktop, and who ends them. *)

programUnchanged == UNCHANGED <<launchVars, scriptVars>>

\* end_session of the logout service, and close: the desktop's script if there is one in
\* the session's process group, and else the compositor.
EndThrough(programs) ==
    /\ launch = "running" /\ ends < MaxEnds /\ ends' = ends + 1
    /\ told' = told \cup (programs \cap up)
    /\ UNCHANGED <<up, crashes, aborted>> /\ programUnchanged

\* Mutant: a desktop without a script is not ended by other means.
EndByFileOnly == EndThrough(IF pidfile THEN {"script"} ELSE {})
EndSession == EndThrough(IF pidfile /\ "script" \in up THEN {"script"} ELSE {"labwc"})

ProgramEnds(p) ==
    /\ p \in up \cap told \cap {"labwc", "logout", "kwin", "shell"} /\ up' = up \ {p}
    /\ UNCHANGED <<told, ends, crashes, aborted>> /\ programUnchanged

\* KWin goes when its compositor does, plasmashell with its compositor or its bus; both
\* abort.  The rest ends as it should when what it serves has gone.
Orphaned(p) ==
    CASE p = "kwin" -> "labwc" \notin up
      [] p = "shell" -> "bus" \notin up \/ (IF desktop = "nested" THEN "kwin" ELSE "labwc") \notin up
      [] p = "bus" -> "script" \notin up
      [] p \in {"logout", "kded"} -> "bus" \notin up
      [] p = "terminal" -> "labwc" \notin up
      [] p = "labwc" -> (IF Plasma THEN "bus" ELSE "terminal") \notin up
      [] OTHER -> FALSE

Follows(p) ==
    /\ p \in up /\ launch = "running" /\ Orphaned(p) /\ up' = up \ {p}
    /\ aborted' = aborted \cup ({p} \cap {"kwin", "shell"})
    /\ UNCHANGED <<told, ends, crashes>> /\ programUnchanged

\* D-Bus starts it when something of the desktop asks for it, in the teardown as well.
KdedStarts ==
    /\ "bus" \in up /\ (IF desktop = "nested" THEN "kwin" ELSE "shell") \in up
    /\ up' = up \cup {"kded"}
    /\ UNCHANGED <<told, ends, crashes, aborted>> /\ programUnchanged

Crashes(p) ==
    /\ p \in up \cap {"labwc", "kwin", "shell", "terminal"} /\ crashes < MaxCrashes
    /\ crashes' = crashes + 1 /\ up' = up \ {p}
    /\ UNCHANGED <<told, ends, aborted>> /\ programUnchanged
-----------------------------------------------------------------------------
Launch ==
    \/ Choose \/ Resolve \/ RuntimeDir \/ LaunchAgain \/ Fork
    \/ InitGroups \/ SetGid \/ SetUid \/ Exec

ScriptStep ==
    \/ StartLogout \/ Record \/ StartKwin \/ SocketWait \/ StartShell \/ SetTrap \/ StartTerminal
    \/ WaitReturns \/ StopShell \/ WaitShell \/ StopKwin \/ WaitKwin \/ ScriptExits

DesktopStep ==
    \/ Launch \/ ScriptStep \/ ScriptKilled \/ EndSession \/ KdedStarts
    \/ \E p \in Program : ProgramEnds(p) \/ Follows(p) \/ Crashes(p)

\* A script runs, a signal arrives, and programs end when they are told to, or left alone.
DesktopFairness ==
    /\ WF_desktopVars(ScriptStep) /\ WF_desktopVars(ScriptKilled)
    /\ \A p \in Program : WF_desktopVars(ProgramEnds(p)) /\ WF_desktopVars(Follows(p))
-----------------------------------------------------------------------------
DesktopTypeOK ==
    /\ host \in Hosts /\ desktop \in {"none", "nested", "labwc", "terminal", "app"}
    /\ rundir \in {"none", "user", "server"} /\ up \subseteq Program /\ told \subseteq Program
    /\ trap \in BOOLEAN /\ pidfile \in BOOLEAN /\ aborted \subseteq up \cup Program
    /\ ends \in 0 .. MaxEnds /\ crashes \in 0 .. MaxCrashes

\* A session of a user of the host runs with all of that user's credentials, and only with
\* a runtime dir that is the user's; any other with the server's.
Isolated ==
    up # {} => IF host.isolated THEN cred = User /\ rundir = "user" ELSE cred = Server

\* The desktop script has recorded itself before KWin can have a window, for as long as
\* KWin runs; nothing else is taken for such a desktop.
RecordedFirst == ("kwin" \in up => pidfile) /\ (pidfile => desktop = "nested")

\* A script that ends by itself leaves nothing of the desktop, and no record.
NothingLeft ==
    script = "ended" =>
        /\ ~ pidfile /\ up \cap {"kwin", "shell"} = {} /\ (desktop = "nested" => "kded" \notin up)

\* The trap stops plasmashell before KWin and KWin before labwc: but for a crash, a
\* compositor stopped directly or a script killed, before its trap or in it by a second
\* SIGTERM, nothing aborts.
Orderly ==
    desktop = "nested" /\ crashes = 0 /\ script # "killed" /\ "labwc" \notin told => aborted = {}

(***************************************************************************)
(* A desktop runs as whom it is for; it is recognised as a nested KWin    *)
(* exactly when it is one; and its script, ended by a request or by KWin, *)
(* takes the desktop down in order and leaves nothing                     *)
(* (backend.rs detached_compositor_command, plasma_desktop_command).      *)
(***************************************************************************)
DesktopSafety == DesktopTypeOK /\ Isolated /\ RecordedFirst /\ NothingLeft /\ Orderly

(***************************************************************************)
(* A session that is asked to end ends, wherever its desktop is in its    *)
(* start or its end (logout.rs end_session; backend.rs end_desktop).      *)
(***************************************************************************)
LogOutEnds == (ends > 0) ~> ("labwc" \notin up)
=============================================================================
