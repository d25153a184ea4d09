----------------------- MODULE SessionRegistryProofs -----------------------
(***************************************************************************)
(* Proofs about SessionRegistry, for any number of connections, processes, *)
(* sessions and users.                                                     *)
(***************************************************************************)
EXTENDS SessionRegistry, TLAPS

USE DEF registryVars, osVars, connVars, historyVars

(***************************************************************************)
(* The inductive invariant.                                                *)
(***************************************************************************)

\* Connections that have a session and whose session is still private to them.
Private(c) == pc[c] \in {"creating", "started"}
Busy(c)    == pc[c] \in StreamStates \cup ClosingStates

\* A session being created is known to nobody: it has no record and never had
\* one, no client can name it, and no other connection works on it.
FreshInv ==
    \A c \in Conn : Private(c) =>
        /\ target[c] \notin published \cup Issued
        /\ \A d \in Conn : d # c /\ Busy(d) => target[d] # target[c]

\* What has a record, is being listed, can be named or is worked on has been
\* published or issued, and its compositor has been started.
BornInv ==
    /\ recorded \subseteq published
    /\ \A c \in Conn : todo[c] \subseteq published /\ found[c] \subseteq published
    /\ \A s \in published \cup Issued : leader[s] # "none"
    /\ \A c \in Conn : Busy(c) => leader[target[c]] # "none"
    /\ \A c \in Conn : pc[c] \in ClosingStates \cup {"streaming"} => target[c] \in Issued

\* A connection past the ownership check works on a session it may use.  A
\* close that found no record has checked nothing, and finds none later.
OwnerInv ==
    /\ \A c \in Conn : Busy(c) /\ pc[c] \notin {"close_read", "remove"}
            => OwnedByCaller(owner[target[c]], caller[c])
    /\ \A c \in Conn : pc[c] = "close_read" /\ target[c] \in recorded
            => OwnedByCaller(owner[target[c]], caller[c])

AckedInv == acked \subseteq Issued /\ ClosedIsFinal

\* A close has a reason, and one whose reason is a compositor that is gone is
\* right about it.
GoneInv ==
    \A c \in Conn : pc[c] \in ClosingStates =>
        \/ reason[c] \in {"asked", "closed", "panicked"}
        \/ reason[c] = "gone" /\ leader[target[c]] # "running"

IInv == TypeOK /\ FreshInv /\ BornInv /\ OwnerInv /\ AckedInv /\ GoneInv
          /\ CloseConfirms /\ ToldOnlyOwn


\* Every step of the specification keeps the types of the variables.
LEMMA TypeStep == TypeOK /\ [Next]_vars => TypeOK'
<1> SUFFICES ASSUME TypeOK, [Next]_vars PROVE TypeOK'
    OBVIOUS
<1> USE ConstantsAssumption DEF TypeOK, ConnStates, StreamStates, ClosingStates,
        LeaderStates, AppKinds, SignalStages, Reasons, Goto
<1>1. ASSUME NEW c \in Conn, ControlStep(c) PROVE TypeOK'
    <2>1. CASE Connect(c) BY <2>1 DEF Connect
    <2>2. CASE Leave(c) BY <2>2 DEF Leave, HangUp
    <2>3. CASE SessionList(c) BY <2>3 DEF SessionList
    <2>4. CASE ListDone(c) BY <2>4 DEF ListDone
    <2>5. ASSUME NEW s \in Session, ListEntry(c, s) PROVE TypeOK'
        BY <2>5 DEF ListEntry, ReapedBy
    <2>6. ASSUME NEW s \in Session, CloseRefused(c, s) PROVE TypeOK'
        BY <2>6 DEF CloseRefused, vars
    <2>7. ASSUME NEW s \in Session, SessionClose(c, s) PROVE TypeOK'
        BY <2>7 DEF SessionClose
    <2>8. ASSUME NEW s \in Session, SessionCreate(c, s) PROVE TypeOK'
        BY <2>8 DEF SessionCreate, LaunchDetached
    <2>9. ASSUME NEW s \in Session, AttachUnknown(c, s) PROVE TypeOK'
        BY <2>9 DEF AttachUnknown, HangUp, ReapedBy
    <2>10. ASSUME NEW s \in Session, AttachRefused(c, s) PROVE TypeOK'
        BY <2>10 DEF AttachRefused, HangUp
    <2>11. ASSUME NEW s \in Session, SessionAttach(c, s) PROVE TypeOK'
        BY <2>11 DEF SessionAttach
    <2> QED BY <1>1, <2>1, <2>2, <2>3, <2>4, <2>5, <2>6, <2>7, <2>8, <2>9,
               <2>10, <2>11 DEF ControlStep
<1>2. ASSUME NEW c \in Conn, StreamStep(c) PROVE TypeOK'
    <2>1. CASE CompositorUp(c) BY <2>1 DEF CompositorUp
    <2>2. CASE WriteRecord(c) BY <2>2 DEF WriteRecord
    <2>3. CASE SessionReady(c) BY <2>3 DEF SessionReady
    <2>4. CASE StartFails(c) BY <2>4 DEF StartFails, HangUp
    <2>5. CASE Detach(c) BY <2>5 DEF Detach, HangUp
    <2>6. CASE ClientCloses(c) BY <2>6 DEF ClientCloses, BeginClose
    <2>7. CASE CompositorGone(c) BY <2>7 DEF CompositorGone, BeginClose, ReapedBy
    <2>8. CASE CapturePanics(c) BY <2>8 DEF CapturePanics, BeginClose
    <2> QED BY <1>2, <2>1, <2>2, <2>3, <2>4, <2>5, <2>6, <2>7, <2>8 DEF StreamStep
<1>3. ASSUME NEW c \in Conn, CloseStep(c) PROVE TypeOK'
    <2>1. CASE CloseRead(c) BY <2>1 DEF CloseRead
    <2>2. CASE DesktopGrace(c) BY <2>2 DEF DesktopGrace, CloseStage
    <2>3. CASE TermLeader(c) BY <2>3 DEF TermLeader, CloseStage
    <2>4. CASE TermGroup(c) BY <2>4 DEF TermGroup, CloseStage
    <2>5. CASE KillGroup(c) BY <2>5 DEF KillGroup, CloseStage
    <2>6. CASE Confirm(c) BY <2>6 DEF Confirm
    <2>7. CASE RemoveRecord(c)
        <3>1. CASE reason[c] = "asked" /\ c \notin Cli
            BY <2>7, <3>1 DEF RemoveRecord
        <3>2. CASE ~(reason[c] = "asked" /\ c \notin Cli)
            BY <2>7, <3>2, SMTT(30) DEF RemoveRecord, HangUp
        <3> QED BY <3>1, <3>2
    <2> QED BY <1>3, <2>1, <2>2, <2>3, <2>4, <2>5, <2>6, <2>7 DEF CloseStep
<1>4. ASSUME NEW s \in Session, LeaderExits(s) PROVE TypeOK'
    BY <1>4 DEF LeaderExits
<1>5. ASSUME NEW s \in Session, AppsExit(s) PROVE TypeOK'
    BY <1>5 DEF AppsExit
<1>6. ASSUME NEW p \in Process, ProcessExits(p) PROVE TypeOK'
    BY <1>6 DEF ProcessExits, HangUp
<1>7. CASE UNCHANGED vars BY <1>7 DEF vars
<1> QED BY <1>1, <1>2, <1>3, <1>4, <1>5, <1>6, <1>7 DEF Next


\* The four stages of a close that wait for the group with a deadline.
WaitStep(c) == DesktopGrace(c) \/ TermLeader(c) \/ TermGroup(c) \/ KillGroup(c)

(***************************************************************************)
(* What single steps do to the set of issued ids and to a close.           *)
(***************************************************************************)

\* A step that tells nobody anything issues no id.
LEMMA IssuedSame == UNCHANGED told => Issued' = Issued
BY DEF Issued

\* A listing issues at most the ids it has found (SessionListResult).
LEMMA ListDoneIssues ==
    ASSUME TypeOK, NEW c \in Conn, ListDone(c)
    PROVE  Issued \subseteq Issued' /\ Issued' \subseteq Issued \cup found[c]
<1>1. told \subseteq told'
    BY DEF ListDone
<1>2. \A u, s : <<u, s>> \in told' => <<u, s>> \in told \/ s \in found[c]
    BY DEF ListDone
<1> QED BY <1>1, <1>2 DEF Issued

\* SessionReady issues the id of its own session.
LEMMA ReadyIssues ==
    ASSUME TypeOK, NEW c \in Conn, SessionReady(c)
    PROVE  Issued' = Issued \cup {target[c]}
BY DEF TypeOK, SessionReady, Issued, Goto, StreamStates

\* A stage of a close moves on within the close, reaches the removal of the
\* record only with an empty group, and changes nothing but signals.
LEMMA WaitEffect ==
    ASSUME TypeOK, NEW c \in Conn, WaitStep(c)
    PROVE  /\ pc[c] \in ClosingStates \ {"close_read", "remove"}
           /\ \E x \in ClosingStates \ {"close_read"} :
                /\ pc' = [pc EXCEPT ![c] = x]
                /\ x = "remove" => ~GroupAlive(target[c])
           /\ UNCHANGED <<registryVars, leader, apps, parent, sockets, caller,
                          target, reason, todo, found, historyVars>>
<1> USE DEF CloseStage, Goto, ClosingStates
<1>1. CASE DesktopGrace(c) BY <1>1 DEF DesktopGrace
<1>2. CASE TermLeader(c) BY <1>2 DEF TermLeader
<1>3. CASE TermGroup(c) BY <1>3 DEF TermGroup
<1>4. CASE KillGroup(c) BY <1>4 DEF KillGroup
<1> QED BY <1>1, <1>2, <1>3, <1>4 DEF WaitStep

(***************************************************************************)
(* Each part of the invariant is preserved by every step.                  *)
(***************************************************************************)

\* A session under creation stays unknown to everybody else.
LEMMA FreshStep == IInv /\ TypeOK' /\ [Next]_vars => FreshInv'
<1> SUFFICES ASSUME IInv, TypeOK', [Next]_vars PROVE FreshInv'
    OBVIOUS
<1> USE ConstantsAssumption DEF IInv, TypeOK, Private, Busy, StreamStates,
        ClosingStates, Goto, FreshInv, BornInv
<1>1. ASSUME NEW c \in Conn, ControlStep(c) PROVE FreshInv'
    <2>1. CASE Connect(c)
        BY <2>1, IssuedSame DEF Connect
    <2>2. CASE Leave(c)
        BY <2>2, IssuedSame DEF Leave, HangUp
    <2>3. CASE SessionList(c)
        BY <2>3, IssuedSame DEF SessionList
    <2>4. CASE ListDone(c)
        BY <2>4, ListDoneIssues, ZenonT(30) DEF ListDone
    <2>5. ASSUME NEW s \in Session, ListEntry(c, s) PROVE FreshInv'
        BY <2>5, IssuedSame DEF ListEntry, ReapedBy
    <2>6. ASSUME NEW s \in Session, CloseRefused(c, s) PROVE FreshInv'
        BY <2>6, IssuedSame DEF CloseRefused, vars
    <2>7. ASSUME NEW s \in Session, SessionClose(c, s) PROVE FreshInv'
        BY <2>7, IssuedSame DEF SessionClose
    <2>8. ASSUME NEW s \in Session, SessionCreate(c, s) PROVE FreshInv'
        BY <2>8, IssuedSame DEF SessionCreate, LaunchDetached
    <2>9. ASSUME NEW s \in Session, AttachUnknown(c, s) PROVE FreshInv'
        BY <2>9, IssuedSame DEF AttachUnknown, HangUp, ReapedBy
    <2>10. ASSUME NEW s \in Session, AttachRefused(c, s) PROVE FreshInv'
        BY <2>10, IssuedSame DEF AttachRefused, HangUp
    <2>11. ASSUME NEW s \in Session, SessionAttach(c, s) PROVE FreshInv'
        BY <2>11, IssuedSame DEF SessionAttach
    <2> QED BY <1>1, <2>1, <2>2, <2>3, <2>4, <2>5, <2>6, <2>7, <2>8, <2>9, <2>10, <2>11
       DEF ControlStep
<1>2. ASSUME NEW c \in Conn, StreamStep(c) PROVE FreshInv'
    <2>1. CASE CompositorUp(c)
        BY <2>1, IssuedSame DEF CompositorUp
    <2>2. CASE WriteRecord(c)
        BY <2>2, IssuedSame DEF WriteRecord
    <2>3. CASE SessionReady(c)
        <3>1. Issued' = Issued \cup {target[c]}
            BY <2>3, ReadyIssues
        <3>2. /\ pc[c] = "starting" /\ leader[target[c]] = "running"
              /\ pc' = [pc EXCEPT ![c] = "streaming"]
              /\ UNCHANGED <<registryVars, osVars, caller, target, reason, todo,
                             found, published, survivors, acked>>
            BY <2>3 DEF SessionReady
        <3> QED BY <3>1, <3>2
    <2>4. CASE StartFails(c)
        BY <2>4, IssuedSame DEF StartFails, HangUp
    <2>5. CASE Detach(c)
        BY <2>5, IssuedSame DEF Detach, HangUp
    <2>6. CASE ClientCloses(c)
        BY <2>6, IssuedSame DEF ClientCloses, BeginClose
    <2>7. CASE CompositorGone(c)
        BY <2>7, IssuedSame DEF CompositorGone, BeginClose, ReapedBy
    <2>8. CASE CapturePanics(c)
        BY <2>8, IssuedSame DEF CapturePanics, BeginClose
    <2> QED BY <1>2, <2>1, <2>2, <2>3, <2>4, <2>5, <2>6, <2>7, <2>8 DEF StreamStep
<1>3. ASSUME NEW c \in Conn, CloseStep(c) PROVE FreshInv'
    <2>1. CASE CloseRead(c)
        BY <2>1, IssuedSame DEF CloseRead
    <2>2. CASE WaitStep(c)
        BY <2>2, WaitEffect, IssuedSame
    <2>3. CASE Confirm(c)
        BY <2>3, IssuedSame DEF Confirm
    <2>4. CASE RemoveRecord(c)
        <3>1. CASE reason[c] = "asked" /\ c \notin Cli
            BY <2>4, <3>1, IssuedSame DEF RemoveRecord
        <3>2. CASE ~(reason[c] = "asked" /\ c \notin Cli)
            BY <2>4, <3>2, IssuedSame DEF RemoveRecord, HangUp
        <3> QED BY <3>1, <3>2
    <2> QED BY <1>3, <2>1, <2>2, <2>3, <2>4 DEF CloseStep, WaitStep
<1>4. ASSUME NEW s \in Session, LeaderExits(s) PROVE FreshInv'
    BY <1>4, IssuedSame DEF LeaderExits
<1>5. ASSUME NEW s \in Session, AppsExit(s) PROVE FreshInv'
    BY <1>5, IssuedSame DEF AppsExit
<1>6. ASSUME NEW p \in Process, ProcessExits(p) PROVE FreshInv'
    BY <1>6, IssuedSame DEF ProcessExits, HangUp
<1>7. CASE UNCHANGED vars
    BY <1>7, IssuedSame DEF vars
<1> QED BY <1>1, <1>2, <1>3, <1>4, <1>5, <1>6, <1>7 DEF Next

\* Whatever is known of a session, its compositor has been started.
LEMMA BornStep == IInv /\ TypeOK' /\ [Next]_vars => BornInv'
<1> SUFFICES ASSUME IInv, TypeOK', [Next]_vars PROVE BornInv'
    OBVIOUS
<1> USE ConstantsAssumption DEF IInv, TypeOK, Private, Busy, StreamStates,
        ClosingStates, Goto, FreshInv, BornInv
<1>1. ASSUME NEW c \in Conn, ControlStep(c) PROVE BornInv'
    <2>1. CASE Connect(c)
        BY <2>1, IssuedSame DEF Connect
    <2>2. CASE Leave(c)
        BY <2>2, IssuedSame DEF Leave, HangUp
    <2>3. CASE SessionList(c)
        BY <2>3, IssuedSame DEF SessionList
    <2>4. CASE ListDone(c)
        BY <2>4, ListDoneIssues DEF ListDone
    <2>5. ASSUME NEW s \in Session, ListEntry(c, s) PROVE BornInv'
        <3>1. leader' \in {leader, ReapedBy(ProcessOf[c], s)}
            BY <2>5 DEF ListEntry
        <3>2. \A t \in Session : leader'[t] = "none" => leader[t] = "none"
            BY <3>1 DEF ReapedBy
        <3>3. Issued' = Issued /\ Issued \subseteq Session
            BY <2>5, IssuedSame DEF ListEntry, Issued
        <3>4. recorded' \subseteq recorded /\ UNCHANGED <<pc, target, published>>
            BY <2>5 DEF ListEntry
        <3>5. \A d \in Conn : todo'[d] \subseteq todo[d]
            BY <2>5 DEF ListEntry
        <3>6. \A d \in Conn : found'[d] \subseteq found[d] \cup recorded
            <4>1. CASE found' = found BY <4>1
            <4>2. CASE found' = [found EXCEPT ![c] = @ \cup {s}] /\ s \in recorded
                BY <4>2
            <4> QED BY <2>5, <4>1, <4>2 DEF ListEntry
        <3> QED BY <3>2, <3>3, <3>4, <3>5, <3>6
    <2>6. ASSUME NEW s \in Session, CloseRefused(c, s) PROVE BornInv'
        BY <2>6, IssuedSame DEF CloseRefused, vars
    <2>7. ASSUME NEW s \in Session, SessionClose(c, s) PROVE BornInv'
        BY <2>7, IssuedSame DEF SessionClose
    <2>8. ASSUME NEW s \in Session, SessionCreate(c, s) PROVE BornInv'
        BY <2>8, IssuedSame DEF SessionCreate, LaunchDetached
    <2>9. ASSUME NEW s \in Session, AttachUnknown(c, s) PROVE BornInv'
        BY <2>9, IssuedSame DEF AttachUnknown, HangUp, ReapedBy
    <2>10. ASSUME NEW s \in Session, AttachRefused(c, s) PROVE BornInv'
        BY <2>10, IssuedSame DEF AttachRefused, HangUp
    <2>11. ASSUME NEW s \in Session, SessionAttach(c, s) PROVE BornInv'
        BY <2>11, IssuedSame DEF SessionAttach
    <2> QED BY <1>1, <2>1, <2>2, <2>3, <2>4, <2>5, <2>6, <2>7, <2>8, <2>9, <2>10, <2>11
       DEF ControlStep
<1>2. ASSUME NEW c \in Conn, StreamStep(c) PROVE BornInv'
    <2>1. CASE CompositorUp(c)
        BY <2>1, IssuedSame DEF CompositorUp
    <2>2. CASE WriteRecord(c)
        BY <2>2, IssuedSame DEF WriteRecord
    <2>3. CASE SessionReady(c)
        <3>1. Issued' = Issued \cup {target[c]}
            BY <2>3, ReadyIssues
        <3>2. /\ pc[c] = "starting" /\ leader[target[c]] = "running"
              /\ pc' = [pc EXCEPT ![c] = "streaming"]
              /\ UNCHANGED <<registryVars, osVars, caller, target, reason, todo,
                             found, published, survivors, acked>>
            BY <2>3 DEF SessionReady
        <3> QED BY <3>1, <3>2
    <2>4. CASE StartFails(c)
        BY <2>4, IssuedSame DEF StartFails, HangUp
    <2>5. CASE Detach(c)
        BY <2>5, IssuedSame DEF Detach, HangUp
    <2>6. CASE ClientCloses(c)
        BY <2>6, IssuedSame DEF ClientCloses, BeginClose
    <2>7. CASE CompositorGone(c)
        BY <2>7, IssuedSame DEF CompositorGone, BeginClose, ReapedBy
    <2>8. CASE CapturePanics(c)
        BY <2>8, IssuedSame DEF CapturePanics, BeginClose
    <2> QED BY <1>2, <2>1, <2>2, <2>3, <2>4, <2>5, <2>6, <2>7, <2>8 DEF StreamStep
<1>3. ASSUME NEW c \in Conn, CloseStep(c) PROVE BornInv'
    <2>1. CASE CloseRead(c)
        BY <2>1, IssuedSame DEF CloseRead
    <2>2. CASE WaitStep(c)
        BY <2>2, WaitEffect, IssuedSame
    <2>3. CASE Confirm(c)
        BY <2>3, IssuedSame DEF Confirm
    <2>4. CASE RemoveRecord(c)
        <3>1. CASE reason[c] = "asked" /\ c \notin Cli
            BY <2>4, <3>1, IssuedSame DEF RemoveRecord
        <3>2. CASE ~(reason[c] = "asked" /\ c \notin Cli)
            BY <2>4, <3>2, IssuedSame DEF RemoveRecord, HangUp
        <3> QED BY <3>1, <3>2
    <2> QED BY <1>3, <2>1, <2>2, <2>3, <2>4 DEF CloseStep, WaitStep
<1>4. ASSUME NEW s \in Session, LeaderExits(s) PROVE BornInv'
    BY <1>4, IssuedSame DEF LeaderExits
<1>5. ASSUME NEW s \in Session, AppsExit(s) PROVE BornInv'
    BY <1>5, IssuedSame DEF AppsExit
<1>6. ASSUME NEW p \in Process, ProcessExits(p) PROVE BornInv'
    <2>1. /\ \A c \in Conn : /\ pc'[c] \in {"idle", pc[c]}
                             /\ pc'[c] # "idle" => target'[c] = target[c]
                             /\ todo'[c] \subseteq todo[c] /\ found'[c] \subseteq found[c]
          /\ \A s \in Session : leader'[s] = "none" => leader[s] = "none"
          /\ UNCHANGED <<recorded, published>>
        BY <1>6 DEF ProcessExits, HangUp
    <2>2. Issued' = Issued /\ Issued \subseteq Session
        BY <1>6, IssuedSame DEF ProcessExits, Issued
    <2>3. \A s \in published' \cup Issued' : leader'[s] # "none"
        BY <2>1, <2>2
    <2>4. ASSUME NEW c \in Conn, Busy(c)' PROVE leader'[target'[c]] # "none"
        BY <2>1, <2>4
    <2>5. ASSUME NEW c \in Conn, pc'[c] \in ClosingStates \cup {"streaming"}
          PROVE  target'[c] \in Issued'
        BY <2>1, <2>2, <2>5
    <2> QED BY <2>1, <2>3, <2>4, <2>5
<1>7. CASE UNCHANGED vars
    BY <1>7, IssuedSame DEF vars
<1> QED BY <1>1, <1>2, <1>3, <1>4, <1>5, <1>6, <1>7 DEF Next

\* The ownership check of attach and close stays valid to the last signal.
LEMMA OwnerStep == IInv /\ TypeOK' /\ [Next]_vars => OwnerInv'
<1> SUFFICES ASSUME IInv, TypeOK', [Next]_vars PROVE OwnerInv'
    OBVIOUS
<1> USE ConstantsAssumption DEF IInv, TypeOK, Private, Busy, StreamStates,
        ClosingStates, Goto, FreshInv, BornInv, OwnerInv, OwnedByCaller
<1>1. ASSUME NEW c \in Conn, ControlStep(c) PROVE OwnerInv'
    <2>1. CASE Connect(c)
        BY <2>1, IssuedSame DEF Connect
    <2>2. CASE Leave(c)
        BY <2>2, IssuedSame DEF Leave, HangUp
    <2>3. CASE SessionList(c)
        BY <2>3, IssuedSame DEF SessionList
    <2>4. CASE ListDone(c)
        BY <2>4, ListDoneIssues DEF ListDone
    <2>5. ASSUME NEW s \in Session, ListEntry(c, s) PROVE OwnerInv'
        BY <2>5, IssuedSame DEF ListEntry, ReapedBy
    <2>6. ASSUME NEW s \in Session, CloseRefused(c, s) PROVE OwnerInv'
        BY <2>6, IssuedSame DEF CloseRefused, vars
    <2>7. ASSUME NEW s \in Session, SessionClose(c, s) PROVE OwnerInv'
        BY <2>7, IssuedSame DEF SessionClose
    <2>8. ASSUME NEW s \in Session, SessionCreate(c, s) PROVE OwnerInv'
        BY <2>8, IssuedSame DEF SessionCreate, LaunchDetached
    <2>9. ASSUME NEW s \in Session, AttachUnknown(c, s) PROVE OwnerInv'
        BY <2>9, IssuedSame DEF AttachUnknown, HangUp, ReapedBy
    <2>10. ASSUME NEW s \in Session, AttachRefused(c, s) PROVE OwnerInv'
        BY <2>10, IssuedSame DEF AttachRefused, HangUp
    <2>11. ASSUME NEW s \in Session, SessionAttach(c, s) PROVE OwnerInv'
        BY <2>11, IssuedSame DEF SessionAttach
    <2> QED BY <1>1, <2>1, <2>2, <2>3, <2>4, <2>5, <2>6, <2>7, <2>8, <2>9, <2>10, <2>11
       DEF ControlStep
<1>2. ASSUME NEW c \in Conn, StreamStep(c) PROVE OwnerInv'
    <2>1. CASE CompositorUp(c)
        BY <2>1, IssuedSame DEF CompositorUp
    <2>2. CASE WriteRecord(c)
        BY <2>2, IssuedSame DEF WriteRecord
    <2>3. CASE SessionReady(c)
        BY <2>3, ReadyIssues DEF SessionReady
    <2>4. CASE StartFails(c)
        BY <2>4, IssuedSame DEF StartFails, HangUp
    <2>5. CASE Detach(c)
        BY <2>5, IssuedSame DEF Detach, HangUp
    <2>6. CASE ClientCloses(c)
        BY <2>6, IssuedSame DEF ClientCloses, BeginClose
    <2>7. CASE CompositorGone(c)
        BY <2>7, IssuedSame DEF CompositorGone, BeginClose, ReapedBy
    <2>8. CASE CapturePanics(c)
        BY <2>8, IssuedSame DEF CapturePanics, BeginClose
    <2> QED BY <1>2, <2>1, <2>2, <2>3, <2>4, <2>5, <2>6, <2>7, <2>8 DEF StreamStep
<1>3. ASSUME NEW c \in Conn, CloseStep(c) PROVE OwnerInv'
    <2>1. CASE CloseRead(c)
        BY <2>1, IssuedSame DEF CloseRead
    <2>2. CASE WaitStep(c)
        BY <2>2, WaitEffect, IssuedSame
    <2>3. CASE Confirm(c)
        BY <2>3, IssuedSame DEF Confirm
    <2>4. CASE RemoveRecord(c)
        <3>1. CASE reason[c] = "asked" /\ c \notin Cli
            BY <2>4, <3>1, IssuedSame DEF RemoveRecord
        <3>2. CASE ~(reason[c] = "asked" /\ c \notin Cli)
            BY <2>4, <3>2, IssuedSame DEF RemoveRecord, HangUp
        <3> QED BY <3>1, <3>2
    <2> QED BY <1>3, <2>1, <2>2, <2>3, <2>4 DEF CloseStep, WaitStep
<1>4. ASSUME NEW s \in Session, LeaderExits(s) PROVE OwnerInv'
    BY <1>4, IssuedSame DEF LeaderExits
<1>5. ASSUME NEW s \in Session, AppsExit(s) PROVE OwnerInv'
    BY <1>5, IssuedSame DEF AppsExit
<1>6. ASSUME NEW p \in Process, ProcessExits(p) PROVE OwnerInv'
    BY <1>6, IssuedSame DEF ProcessExits, HangUp
<1>7. CASE UNCHANGED vars
    BY <1>7, IssuedSame DEF vars
<1> QED BY <1>1, <1>2, <1>3, <1>4, <1>5, <1>6, <1>7 DEF Next

\* A session acknowledged as closed stays without a record.
LEMMA AckedStep == IInv /\ TypeOK' /\ [Next]_vars => AckedInv'
<1> SUFFICES ASSUME IInv, TypeOK', [Next]_vars PROVE AckedInv'
    OBVIOUS
<1> USE ConstantsAssumption DEF IInv, TypeOK, Private, Busy, StreamStates,
        ClosingStates, Goto, FreshInv, BornInv, AckedInv, ClosedIsFinal
<1>1. ASSUME NEW c \in Conn, ControlStep(c) PROVE AckedInv'
    <2>1. CASE Connect(c)
        BY <2>1, IssuedSame DEF Connect
    <2>2. CASE Leave(c)
        BY <2>2, IssuedSame DEF Leave, HangUp
    <2>3. CASE SessionList(c)
        BY <2>3, IssuedSame DEF SessionList
    <2>4. CASE ListDone(c)
        BY <2>4, ListDoneIssues DEF ListDone
    <2>5. ASSUME NEW s \in Session, ListEntry(c, s) PROVE AckedInv'
        BY <2>5, IssuedSame DEF ListEntry, ReapedBy
    <2>6. ASSUME NEW s \in Session, CloseRefused(c, s) PROVE AckedInv'
        BY <2>6, IssuedSame DEF CloseRefused, vars
    <2>7. ASSUME NEW s \in Session, SessionClose(c, s) PROVE AckedInv'
        BY <2>7, IssuedSame DEF SessionClose
    <2>8. ASSUME NEW s \in Session, SessionCreate(c, s) PROVE AckedInv'
        BY <2>8, IssuedSame DEF SessionCreate, LaunchDetached
    <2>9. ASSUME NEW s \in Session, AttachUnknown(c, s) PROVE AckedInv'
        BY <2>9, IssuedSame DEF AttachUnknown, HangUp, ReapedBy
    <2>10. ASSUME NEW s \in Session, AttachRefused(c, s) PROVE AckedInv'
        BY <2>10, IssuedSame DEF AttachRefused, HangUp
    <2>11. ASSUME NEW s \in Session, SessionAttach(c, s) PROVE AckedInv'
        BY <2>11, IssuedSame DEF SessionAttach
    <2> QED BY <1>1, <2>1, <2>2, <2>3, <2>4, <2>5, <2>6, <2>7, <2>8, <2>9, <2>10, <2>11
       DEF ControlStep
<1>2. ASSUME NEW c \in Conn, StreamStep(c) PROVE AckedInv'
    <2>1. CASE CompositorUp(c)
        BY <2>1, IssuedSame DEF CompositorUp
    <2>2. CASE WriteRecord(c)
        BY <2>2, IssuedSame DEF WriteRecord
    <2>3. CASE SessionReady(c)
        <3>1. Issued' = Issued \cup {target[c]}
            BY <2>3, ReadyIssues
        <3>2. /\ pc[c] = "starting" /\ leader[target[c]] = "running"
              /\ pc' = [pc EXCEPT ![c] = "streaming"]
              /\ UNCHANGED <<registryVars, osVars, caller, target, reason, todo,
                             found, published, survivors, acked>>
            BY <2>3 DEF SessionReady
        <3> QED BY <3>1, <3>2
    <2>4. CASE StartFails(c)
        BY <2>4, IssuedSame DEF StartFails, HangUp
    <2>5. CASE Detach(c)
        BY <2>5, IssuedSame DEF Detach, HangUp
    <2>6. CASE ClientCloses(c)
        BY <2>6, IssuedSame DEF ClientCloses, BeginClose
    <2>7. CASE CompositorGone(c)
        BY <2>7, IssuedSame DEF CompositorGone, BeginClose, ReapedBy
    <2>8. CASE CapturePanics(c)
        BY <2>8, IssuedSame DEF CapturePanics, BeginClose
    <2> QED BY <1>2, <2>1, <2>2, <2>3, <2>4, <2>5, <2>6, <2>7, <2>8 DEF StreamStep
<1>3. ASSUME NEW c \in Conn, CloseStep(c) PROVE AckedInv'
    <2>1. CASE CloseRead(c)
        BY <2>1, IssuedSame DEF CloseRead
    <2>2. CASE WaitStep(c)
        BY <2>2, WaitEffect, IssuedSame
    <2>3. CASE Confirm(c)
        BY <2>3, IssuedSame DEF Confirm
    <2>4. CASE RemoveRecord(c)
        <3>1. CASE reason[c] = "asked" /\ c \notin Cli
            BY <2>4, <3>1, IssuedSame DEF RemoveRecord
        <3>2. CASE ~(reason[c] = "asked" /\ c \notin Cli)
            BY <2>4, <3>2, IssuedSame DEF RemoveRecord, HangUp
        <3> QED BY <3>1, <3>2
    <2> QED BY <1>3, <2>1, <2>2, <2>3, <2>4 DEF CloseStep, WaitStep
<1>4. ASSUME NEW s \in Session, LeaderExits(s) PROVE AckedInv'
    BY <1>4, IssuedSame DEF LeaderExits
<1>5. ASSUME NEW s \in Session, AppsExit(s) PROVE AckedInv'
    BY <1>5, IssuedSame DEF AppsExit
<1>6. ASSUME NEW p \in Process, ProcessExits(p) PROVE AckedInv'
    BY <1>6, IssuedSame DEF ProcessExits, HangUp
<1>7. CASE UNCHANGED vars
    BY <1>7, IssuedSame DEF vars
<1> QED BY <1>1, <1>2, <1>3, <1>4, <1>5, <1>6, <1>7 DEF Next

\* A close begun because the compositor is gone stays justified.
LEMMA GoneStep == IInv /\ TypeOK' /\ [Next]_vars => GoneInv'
<1> SUFFICES ASSUME IInv, TypeOK', [Next]_vars PROVE GoneInv'
    OBVIOUS
<1> USE ConstantsAssumption DEF IInv, TypeOK, Private, Busy, StreamStates,
        ClosingStates, Goto, BornInv, GoneInv, Reasons, PidAlive
<1>1. ASSUME NEW c \in Conn, ControlStep(c) PROVE GoneInv'
    <2>1. CASE Connect(c)
        BY <2>1 DEF Connect
    <2>2. CASE Leave(c)
        BY <2>2 DEF Leave, HangUp
    <2>3. CASE SessionList(c)
        BY <2>3 DEF SessionList
    <2>4. CASE ListDone(c)
        BY <2>4 DEF ListDone
    <2>5. ASSUME NEW s \in Session, ListEntry(c, s) PROVE GoneInv'
        BY <2>5 DEF ListEntry, ReapedBy
    <2>6. ASSUME NEW s \in Session, CloseRefused(c, s) PROVE GoneInv'
        BY <2>6 DEF CloseRefused, vars
    <2>7. ASSUME NEW s \in Session, SessionClose(c, s) PROVE GoneInv'
        BY <2>7 DEF SessionClose
    <2>8. ASSUME NEW s \in Session, SessionCreate(c, s) PROVE GoneInv'
        BY <2>8 DEF SessionCreate, LaunchDetached
    <2>9. ASSUME NEW s \in Session, AttachUnknown(c, s) PROVE GoneInv'
        BY <2>9 DEF AttachUnknown, HangUp, ReapedBy
    <2>10. ASSUME NEW s \in Session, AttachRefused(c, s) PROVE GoneInv'
        BY <2>10 DEF AttachRefused, HangUp
    <2>11. ASSUME NEW s \in Session, SessionAttach(c, s) PROVE GoneInv'
        BY <2>11 DEF SessionAttach
    <2> QED BY <1>1, <2>1, <2>2, <2>3, <2>4, <2>5, <2>6, <2>7, <2>8, <2>9, <2>10, <2>11
       DEF ControlStep
<1>2. ASSUME NEW c \in Conn, StreamStep(c) PROVE GoneInv'
    <2>1. CASE CompositorUp(c)
        BY <2>1 DEF CompositorUp
    <2>2. CASE WriteRecord(c)
        BY <2>2 DEF WriteRecord
    <2>3. CASE SessionReady(c)
        BY <2>3 DEF SessionReady
    <2>4. CASE StartFails(c)
        BY <2>4 DEF StartFails, HangUp
    <2>5. CASE Detach(c)
        BY <2>5 DEF Detach, HangUp
    <2>6. CASE ClientCloses(c)
        BY <2>6 DEF ClientCloses, BeginClose
    <2>7. CASE CompositorGone(c)
        BY <2>7 DEF CompositorGone, BeginClose, ReapedBy
    <2>8. CASE CapturePanics(c)
        BY <2>8 DEF CapturePanics, BeginClose
    <2> QED BY <1>2, <2>1, <2>2, <2>3, <2>4, <2>5, <2>6, <2>7, <2>8 DEF StreamStep
<1>3. ASSUME NEW c \in Conn, CloseStep(c) PROVE GoneInv'
    <2>1. CASE CloseRead(c)
        BY <2>1 DEF CloseRead
    <2>2. CASE WaitStep(c)
        BY <2>2, WaitEffect
    <2>3. CASE Confirm(c)
        BY <2>3 DEF Confirm
    <2>4. CASE RemoveRecord(c)
        <3>1. CASE reason[c] = "asked" /\ c \notin Cli
            BY <2>4, <3>1 DEF RemoveRecord
        <3>2. CASE ~(reason[c] = "asked" /\ c \notin Cli)
            BY <2>4, <3>2 DEF RemoveRecord, HangUp
        <3> QED BY <3>1, <3>2
    <2> QED BY <1>3, <2>1, <2>2, <2>3, <2>4 DEF CloseStep, WaitStep
<1>4. ASSUME NEW s \in Session, LeaderExits(s) PROVE GoneInv'
    BY <1>4 DEF LeaderExits
<1>5. ASSUME NEW s \in Session, AppsExit(s) PROVE GoneInv'
    BY <1>5 DEF AppsExit
<1>6. ASSUME NEW p \in Process, ProcessExits(p) PROVE GoneInv'
    BY <1>6 DEF ProcessExits, HangUp
<1>7. CASE UNCHANGED vars
    BY <1>7 DEF vars
<1> QED BY <1>1, <1>2, <1>3, <1>4, <1>5, <1>6, <1>7 DEF Next

\* No step breaks the confirmation a close is about to act on.
LEMMA ConfirmStep == IInv /\ TypeOK' /\ [Next]_vars => CloseConfirms'
<1> SUFFICES ASSUME IInv, TypeOK', [Next]_vars PROVE CloseConfirms'
    OBVIOUS
<1> USE ConstantsAssumption DEF IInv, TypeOK, Private, Busy, StreamStates,
        ClosingStates, Goto, FreshInv, BornInv, CloseConfirms, GroupAlive
<1>1. ASSUME NEW c \in Conn, ControlStep(c) PROVE CloseConfirms'
    <2>1. CASE Connect(c)
        BY <2>1, IssuedSame DEF Connect
    <2>2. CASE Leave(c)
        BY <2>2, IssuedSame DEF Leave, HangUp
    <2>3. CASE SessionList(c)
        BY <2>3, IssuedSame DEF SessionList
    <2>4. CASE ListDone(c)
        BY <2>4, ListDoneIssues DEF ListDone
    <2>5. ASSUME NEW s \in Session, ListEntry(c, s) PROVE CloseConfirms'
        BY <2>5, IssuedSame DEF ListEntry, ReapedBy
    <2>6. ASSUME NEW s \in Session, CloseRefused(c, s) PROVE CloseConfirms'
        BY <2>6, IssuedSame DEF CloseRefused, vars
    <2>7. ASSUME NEW s \in Session, SessionClose(c, s) PROVE CloseConfirms'
        BY <2>7, IssuedSame DEF SessionClose
    <2>8. ASSUME NEW s \in Session, SessionCreate(c, s) PROVE CloseConfirms'
        BY <2>8, IssuedSame DEF SessionCreate, LaunchDetached
    <2>9. ASSUME NEW s \in Session, AttachUnknown(c, s) PROVE CloseConfirms'
        BY <2>9, IssuedSame DEF AttachUnknown, HangUp, ReapedBy
    <2>10. ASSUME NEW s \in Session, AttachRefused(c, s) PROVE CloseConfirms'
        BY <2>10, IssuedSame DEF AttachRefused, HangUp
    <2>11. ASSUME NEW s \in Session, SessionAttach(c, s) PROVE CloseConfirms'
        BY <2>11, IssuedSame DEF SessionAttach
    <2> QED BY <1>1, <2>1, <2>2, <2>3, <2>4, <2>5, <2>6, <2>7, <2>8, <2>9, <2>10, <2>11
       DEF ControlStep
<1>2. ASSUME NEW c \in Conn, StreamStep(c) PROVE CloseConfirms'
    <2>1. CASE CompositorUp(c)
        BY <2>1, IssuedSame DEF CompositorUp
    <2>2. CASE WriteRecord(c)
        BY <2>2, IssuedSame DEF WriteRecord
    <2>3. CASE SessionReady(c)
        BY <2>3, ReadyIssues DEF SessionReady
    <2>4. CASE StartFails(c)
        BY <2>4, IssuedSame DEF StartFails, HangUp
    <2>5. CASE Detach(c)
        BY <2>5, IssuedSame DEF Detach, HangUp
    <2>6. CASE ClientCloses(c)
        BY <2>6, IssuedSame DEF ClientCloses, BeginClose
    <2>7. CASE CompositorGone(c)
        BY <2>7, IssuedSame DEF CompositorGone, BeginClose, ReapedBy
    <2>8. CASE CapturePanics(c)
        BY <2>8, IssuedSame DEF CapturePanics, BeginClose
    <2> QED BY <1>2, <2>1, <2>2, <2>3, <2>4, <2>5, <2>6, <2>7, <2>8 DEF StreamStep
<1>3. ASSUME NEW c \in Conn, CloseStep(c) PROVE CloseConfirms'
    <2>1. CASE CloseRead(c)
        BY <2>1, IssuedSame DEF CloseRead
    <2>2. CASE WaitStep(c)
        BY <2>2, WaitEffect, IssuedSame
    <2>3. CASE Confirm(c)
        BY <2>3, IssuedSame DEF Confirm
    <2>4. CASE RemoveRecord(c)
        <3>1. CASE reason[c] = "asked" /\ c \notin Cli
            BY <2>4, <3>1, IssuedSame DEF RemoveRecord
        <3>2. CASE ~(reason[c] = "asked" /\ c \notin Cli)
            BY <2>4, <3>2, IssuedSame DEF RemoveRecord, HangUp
        <3> QED BY <3>1, <3>2
    <2> QED BY <1>3, <2>1, <2>2, <2>3, <2>4 DEF CloseStep, WaitStep
<1>4. ASSUME NEW s \in Session, LeaderExits(s) PROVE CloseConfirms'
    BY <1>4, IssuedSame DEF LeaderExits
<1>5. ASSUME NEW s \in Session, AppsExit(s) PROVE CloseConfirms'
    BY <1>5, IssuedSame DEF AppsExit
<1>6. ASSUME NEW p \in Process, ProcessExits(p) PROVE CloseConfirms'
    BY <1>6, IssuedSame DEF ProcessExits, HangUp
<1>7. CASE UNCHANGED vars
    BY <1>7, IssuedSame DEF vars
<1> QED BY <1>1, <1>2, <1>3, <1>4, <1>5, <1>6, <1>7 DEF Next

\* No step tells a caller the id of another user's session.
LEMMA ToldStep == IInv /\ TypeOK' /\ [Next]_vars => ToldOnlyOwn'
<1> SUFFICES ASSUME IInv, TypeOK', [Next]_vars PROVE ToldOnlyOwn'
    OBVIOUS
<1> USE ConstantsAssumption DEF IInv, TypeOK, Private, Busy, StreamStates,
        ClosingStates, Goto, FreshInv, BornInv, OwnerInv, ToldOnlyOwn,
        OwnedByCaller, Issued
<1>1. ASSUME NEW c \in Conn, ControlStep(c) PROVE ToldOnlyOwn'
    <2>1. CASE Connect(c)
        BY <2>1, IssuedSame DEF Connect
    <2>2. CASE Leave(c)
        BY <2>2, IssuedSame DEF Leave, HangUp
    <2>3. CASE SessionList(c)
        BY <2>3, IssuedSame DEF SessionList
    <2>4. CASE ListDone(c)
        BY <2>4, ListDoneIssues DEF ListDone
    <2>5. ASSUME NEW s \in Session, ListEntry(c, s) PROVE ToldOnlyOwn'
        BY <2>5, IssuedSame DEF ListEntry, ReapedBy
    <2>6. ASSUME NEW s \in Session, CloseRefused(c, s) PROVE ToldOnlyOwn'
        BY <2>6, IssuedSame DEF CloseRefused, vars
    <2>7. ASSUME NEW s \in Session, SessionClose(c, s) PROVE ToldOnlyOwn'
        BY <2>7, IssuedSame DEF SessionClose
    <2>8. ASSUME NEW s \in Session, SessionCreate(c, s) PROVE ToldOnlyOwn'
        BY <2>8, IssuedSame, ZenonT(30) DEF SessionCreate, LaunchDetached
    <2>9. ASSUME NEW s \in Session, AttachUnknown(c, s) PROVE ToldOnlyOwn'
        BY <2>9, IssuedSame DEF AttachUnknown, HangUp, ReapedBy
    <2>10. ASSUME NEW s \in Session, AttachRefused(c, s) PROVE ToldOnlyOwn'
        BY <2>10, IssuedSame DEF AttachRefused, HangUp
    <2>11. ASSUME NEW s \in Session, SessionAttach(c, s) PROVE ToldOnlyOwn'
        BY <2>11, IssuedSame DEF SessionAttach
    <2> QED BY <1>1, <2>1, <2>2, <2>3, <2>4, <2>5, <2>6, <2>7, <2>8, <2>9, <2>10, <2>11
       DEF ControlStep
<1>2. ASSUME NEW c \in Conn, StreamStep(c) PROVE ToldOnlyOwn'
    <2>1. CASE CompositorUp(c)
        BY <2>1, IssuedSame DEF CompositorUp
    <2>2. CASE WriteRecord(c)
        BY <2>2, IssuedSame DEF WriteRecord
    <2>3. CASE SessionReady(c)
        BY <2>3, ReadyIssues DEF SessionReady
    <2>4. CASE StartFails(c)
        BY <2>4, IssuedSame DEF StartFails, HangUp
    <2>5. CASE Detach(c)
        BY <2>5, IssuedSame DEF Detach, HangUp
    <2>6. CASE ClientCloses(c)
        BY <2>6, IssuedSame DEF ClientCloses, BeginClose
    <2>7. CASE CompositorGone(c)
        BY <2>7, IssuedSame DEF CompositorGone, BeginClose, ReapedBy
    <2>8. CASE CapturePanics(c)
        BY <2>8, IssuedSame DEF CapturePanics, BeginClose
    <2> QED BY <1>2, <2>1, <2>2, <2>3, <2>4, <2>5, <2>6, <2>7, <2>8 DEF StreamStep
<1>3. ASSUME NEW c \in Conn, CloseStep(c) PROVE ToldOnlyOwn'
    <2>1. CASE CloseRead(c)
        BY <2>1, IssuedSame DEF CloseRead
    <2>2. CASE WaitStep(c)
        BY <2>2, WaitEffect, IssuedSame
    <2>3. CASE Confirm(c)
        BY <2>3, IssuedSame DEF Confirm
    <2>4. CASE RemoveRecord(c)
        <3>1. CASE reason[c] = "asked" /\ c \notin Cli
            BY <2>4, <3>1, IssuedSame DEF RemoveRecord
        <3>2. CASE ~(reason[c] = "asked" /\ c \notin Cli)
            BY <2>4, <3>2, IssuedSame DEF RemoveRecord, HangUp
        <3> QED BY <3>1, <3>2
    <2> QED BY <1>3, <2>1, <2>2, <2>3, <2>4 DEF CloseStep, WaitStep
<1>4. ASSUME NEW s \in Session, LeaderExits(s) PROVE ToldOnlyOwn'
    BY <1>4, IssuedSame DEF LeaderExits
<1>5. ASSUME NEW s \in Session, AppsExit(s) PROVE ToldOnlyOwn'
    BY <1>5, IssuedSame DEF AppsExit
<1>6. ASSUME NEW p \in Process, ProcessExits(p) PROVE ToldOnlyOwn'
    BY <1>6, IssuedSame DEF ProcessExits, HangUp
<1>7. CASE UNCHANGED vars
    BY <1>7, IssuedSame DEF vars
<1> QED BY <1>1, <1>2, <1>3, <1>4, <1>5, <1>6, <1>7 DEF Next


(***************************************************************************)
(* The theorems.                                                           *)
(***************************************************************************)

\* The initial states satisfy the invariant: the records an earlier release
\* left behind are running, ownerless and known to everybody.
LEMMA InitInv == Init => IInv
<1> SUFFICES ASSUME Init PROVE IInv
    OBVIOUS
<1> USE ConstantsAssumption DEF Init
<1>1. TypeOK
    <2>1. sockets \subseteq Dir \X Display
        BY DEF ServerDir
    <2> QED BY <2>1 DEF TypeOK, ConnStates, StreamStates, ClosingStates,
               LeaderStates, AppKinds, SignalStages, Reasons
<1>2. Issued = Legacy
    BY DEF Issued
<1>3. \A c \in Conn : ~Busy(c) /\ ~Private(c) /\ pc[c] \notin ClosingStates \cup {"streaming", "remove"}
    BY DEF Busy, Private, StreamStates, ClosingStates
<1>4. FreshInv /\ OwnerInv /\ GoneInv /\ CloseConfirms
    BY <1>3 DEF FreshInv, OwnerInv, GoneInv, CloseConfirms, ClosingStates
<1>5. BornInv
    BY <1>2, <1>3 DEF BornInv
<1>6. AckedInv /\ ToldOnlyOwn
    BY DEF AckedInv, ClosedIsFinal, ToldOnlyOwn, OwnedByCaller
<1> QED BY <1>1, <1>4, <1>5, <1>6 DEF IInv

\* The variables keep their types in every behaviour.
THEOREM TypeCorrect == Spec => []TypeOK
<1>1. Init => TypeOK
    BY InitInv DEF IInv
<1> QED BY <1>1, TypeStep, PTL DEF Spec

\* Every step preserves the whole invariant.
LEMMA InvStep == IInv /\ [Next]_vars => IInv'
<1> SUFFICES ASSUME IInv, [Next]_vars PROVE IInv'
    OBVIOUS
<1>1. TypeOK'
    BY TypeStep DEF IInv
<1> QED BY <1>1, FreshStep, BornStep, OwnerStep, AckedStep, GoneStep,
           ConfirmStep, ToldStep DEF IInv

\* The invariant is inductive.
THEOREM Invariance == Spec => []IInv
BY InitInv, InvStep, PTL DEF Spec

\* No caller ever learns the id of another user's session, however listings,
\* creations and attaches of different users interleave.
THEOREM OwnersOnly == Spec => []ToldOnlyOwn
<1>1. IInv => ToldOnlyOwn
    BY DEF IInv
<1> QED BY <1>1, Invariance, PTL

\* A close never drops a record over unreported survivors, whatever other
\* connections close, prune or start meanwhile.
THEOREM ClosesConfirm == Spec => []CloseConfirms
<1>1. IInv => CloseConfirms
    BY DEF IInv
<1> QED BY <1>1, Invariance, PTL

\* An acknowledged close is final: no later step brings the record back.
THEOREM CloseIsFinal == Spec => []ClosedIsFinal
<1>1. IInv => ClosedIsFinal
    BY DEF IInv, AckedInv
<1> QED BY <1>1, Invariance, PTL

\* Only the four stages of a close send signals, to the session they close.
LEMMA SignalStep ==
    ASSUME IInv, [Next]_vars, NEW s \in Session, sig'[s] # sig[s]
    PROVE  \E c \in Conn : WaitStep(c) /\ target[c] = s
<1> USE DEF IInv, TypeOK
<1>1. ASSUME NEW c \in Conn, ControlStep(c) PROVE FALSE
    BY <1>1 DEF ControlStep, Connect, Leave, SessionList, ListDone, ListEntry,
       CloseRefused, SessionClose, SessionCreate, LaunchDetached, AttachUnknown, AttachRefused,
       SessionAttach, vars
<1>2. ASSUME NEW c \in Conn, StreamStep(c) PROVE FALSE
    BY <1>2 DEF StreamStep, CompositorUp, WriteRecord, SessionReady, StartFails,
       Detach, ClientCloses, CompositorGone, CapturePanics
<1>3. ASSUME NEW c \in Conn, CloseStep(c) PROVE WaitStep(c) /\ target[c] = s
    <2>1. WaitStep(c)
        BY <1>3 DEF CloseStep, WaitStep, CloseRead, Confirm, RemoveRecord
    <2>2. sig' = sig \/ \E n \in SignalStages : sig' = [sig EXCEPT ![target[c]] = n]
        BY <2>1 DEF WaitStep, DesktopGrace, TermLeader, TermGroup, KillGroup,
           CloseStage, SignalStages
    <2> QED BY <2>1, <2>2
<1>4. (\E t \in Session : LeaderExits(t) \/ AppsExit(t)) => FALSE
    BY DEF LeaderExits, AppsExit
<1>5. (\E p \in Process : ProcessExits(p)) => FALSE
    BY DEF ProcessExits
<1>6. ~UNCHANGED vars
    BY DEF vars
<1> QED BY <1>1, <1>2, <1>3, <1>4, <1>5, <1>6 DEF Next

\* Whatever connections, listings, the command line and crashes do to one another, a
\* close confirms, is final, and nobody learns of another user's session.
THEOREM RegistryIsSafe == Spec => []RegistrySafety
<1>1. IInv => RegistrySafety
    BY DEF IInv, AckedInv, RegistrySafety
<1> QED BY <1>1, Invariance, PTL

\* A process group is only signalled for a caller that may end the session:
\* the check made when the request arrived still holds at every signal.
THEOREM SignalsAuthorized == Spec => OnlyOwnerSignals
<1> DEFINE Authorized == \A s \in Session : sig'[s] # sig[s] =>
               \E c \in Conn : Closing(c, s) /\ OwnedByCaller(owner[s], caller[c])
<1>1. IInv /\ [Next]_vars => Authorized
    <2> SUFFICES ASSUME IInv, [Next]_vars, NEW s \in Session, sig'[s] # sig[s]
                 PROVE  \E c \in Conn : Closing(c, s) /\ OwnedByCaller(owner[s], caller[c])
        OBVIOUS
    <2>1. PICK c \in Conn : WaitStep(c) /\ target[c] = s
        BY SignalStep
    <2>2. pc[c] \in ClosingStates \ {"close_read", "remove"}
        BY <2>1, WaitEffect DEF IInv
    <2> QED BY <2>1, <2>2 DEF IInv, OwnerInv, Busy, Closing
<1>2. IInv /\ [Next]_vars => [Authorized]_vars
    BY <1>1
<1> QED BY <1>2, Invariance, PTL DEF Spec, OnlyOwnerSignals

\* A running compositor is only signalled because a client asked for its session
\* to be closed, or because its capture thread panicked.
THEOREM SignalsRequested == Spec => RunningEndsOnRequest
<1> DEFINE Requested == \A s \in Session :
               leader[s] = "running" /\ sig[s] = 0 /\ sig'[s] > 0 =>
                  \E c \in Conn : Closing(c, s) /\ reason[c] \in {"asked", "closed", "panicked"}
<1>1. IInv /\ [Next]_vars => Requested
    <2> SUFFICES ASSUME IInv, [Next]_vars, NEW s \in Session,
                        leader[s] = "running", sig[s] = 0, sig'[s] > 0
                 PROVE  \E c \in Conn : Closing(c, s) /\ reason[c] \in {"asked", "closed", "panicked"}
        OBVIOUS
    <2>1. PICK c \in Conn : WaitStep(c) /\ target[c] = s
        BY SignalStep
    <2>2. pc[c] \in ClosingStates
        BY <2>1, WaitEffect DEF IInv
    <2> QED BY <2>1, <2>2 DEF IInv, GoneInv, Closing
<1>2. IInv /\ [Next]_vars => [Requested]_vars
    BY <1>1
<1> QED BY <1>2, Invariance, PTL DEF Spec, RunningEndsOnRequest

(***************************************************************************)
(* The refinement of SessionLifecycle.                                     *)
(***************************************************************************)

\* A step that no part of the life cycle is about.
LifecycleSame ==
    /\ UNCHANGED <<recorded, owner, display, sockets, published, survivors>>
    /\ \A s \in Session : (leader'[s] = "running") = (leader[s] = "running")
    /\ \A s \in Session : (leader'[s] = "none") = (leader[s] = "none")

\* The compositor that runs for a session still has the socket it bound.
SocketInv ==
    \A s \in Session : leader[s] = "running"
        => <<RuntimeDirOf[owner[s]], display[s]>> \in sockets

\* Two running compositors never share a socket, so neither unlinks the other's.
DisplayInv ==
    \A s, t \in Session :
        s # t /\ leader[s] = "running" /\ leader[t] = "running" /\ display[s] = display[t]
            => RuntimeDirOf[owner[s]] # RuntimeDirOf[owner[t]]

\* A close that has got past reading the record found one.
ClosePublished ==
    \A c \in Conn : pc[c] \in ClosingStates \ {"close_read", "remove"}
        => target[c] \in published

\* Without --auth callers and sessions are nobody's.
Anonymous ==
    ~RequireAuth => /\ \A c \in Conn : caller[c] = NoUser
                    /\ \A s \in Session : owner[s] = NoUser

RInv == IInv /\ SocketInv /\ DisplayInv /\ ClosePublished /\ Anonymous

\* Reaping an exited child neither ends nor starts a compositor.
LEMMA ReapingKeeps ==
    ASSUME TypeOK, NEW p, NEW s \in Session
    PROVE  \A t \in Session : /\ (ReapedBy(p, s)[t] = "running") = (leader[t] = "running")
                              /\ (ReapedBy(p, s)[t] = "none") = (leader[t] = "none")
BY DEF ReapedBy, TypeOK

\* Six actions touch the life of a session; every other step leaves it alone.
LEMMA LifecycleSteps ==
    ASSUME IInv, [Next]_vars
    PROVE  \/ LifecycleSame
           \/ \E c \in Conn, s \in Session : SessionCreate(c, s) \/ ListEntry(c, s)
           \/ \E c \in Conn : WriteRecord(c) \/ Confirm(c) \/ RemoveRecord(c)
           \/ \E s \in Session : LeaderExits(s)
<1> USE DEF IInv, LifecycleSame
<1>1. ASSUME NEW c \in Conn, ControlStep(c)
      PROVE  LifecycleSame \/ \E s \in Session : SessionCreate(c, s) \/ ListEntry(c, s)
    <2>1. CASE Connect(c) BY <2>1 DEF Connect
    <2>2. CASE Leave(c) BY <2>2 DEF Leave
    <2>3. CASE SessionList(c) BY <2>3 DEF SessionList
    <2>4. CASE ListDone(c) BY <2>4 DEF ListDone
    <2>5. ASSUME NEW s \in Session, CloseRefused(c, s) \/ SessionClose(c, s)
                    \/ AttachRefused(c, s) \/ SessionAttach(c, s)
          PROVE  LifecycleSame
        BY <2>5 DEF CloseRefused, SessionClose, AttachRefused, SessionAttach, vars
    <2>6. ASSUME NEW s \in Session, AttachUnknown(c, s) PROVE LifecycleSame
        BY <2>6, ReapingKeeps DEF AttachUnknown
    <2> QED BY <1>1, <2>1, <2>2, <2>3, <2>4, <2>5, <2>6 DEF ControlStep
<1>2. ASSUME NEW c \in Conn, StreamStep(c) PROVE LifecycleSame \/ WriteRecord(c)
    <2>1. CASE CompositorUp(c) \/ SessionReady(c) \/ StartFails(c) \/ Detach(c)
        BY <2>1 DEF CompositorUp, SessionReady, StartFails, Detach
    <2>2. CASE ClientCloses(c) \/ CapturePanics(c)
        BY <2>2 DEF ClientCloses, CapturePanics
    <2>3. CASE CompositorGone(c)
        <3>1. target[c] \in Session
            BY <2>3 DEF CompositorGone, BeginClose, Goto, TypeOK, StreamStates
        <3> QED BY <2>3, <3>1, ReapingKeeps DEF CompositorGone
    <2> QED BY <1>2, <2>1, <2>2, <2>3 DEF StreamStep
<1>3. ASSUME NEW c \in Conn, CloseStep(c)
      PROVE  LifecycleSame \/ Confirm(c) \/ RemoveRecord(c)
    <2>1. CASE CloseRead(c) BY <2>1 DEF CloseRead
    <2>2. CASE WaitStep(c) BY <2>2, WaitEffect
    <2> QED BY <1>3, <2>1, <2>2 DEF CloseStep, WaitStep
<1>4. ASSUME NEW s \in Session, AppsExit(s) PROVE LifecycleSame
    BY <1>4 DEF AppsExit
<1>5. ASSUME NEW p \in Process, ProcessExits(p) PROVE LifecycleSame
    BY <1>5 DEF ProcessExits, TypeOK
<1>6. CASE UNCHANGED vars
    BY <1>6 DEF vars
<1> QED BY <1>1, <1>2, <1>3, <1>4, <1>5, <1>6 DEF Next

\* Launches and exits keep the sockets of running compositors apart.
LEMMA SocketStep == RInv /\ TypeOK' /\ [Next]_vars => SocketInv' /\ DisplayInv'
<1> SUFFICES ASSUME RInv, TypeOK', [Next]_vars PROVE SocketInv' /\ DisplayInv'
    OBVIOUS
<1> USE ConstantsAssumption DEF RInv, IInv, TypeOK, SocketInv, DisplayInv
<1>1. CASE LifecycleSame
    BY <1>1, SMTT(30) DEF LifecycleSame
<1>2. ASSUME NEW c \in Conn, NEW s \in Session, SessionCreate(c, s)
      PROVE  SocketInv' /\ DisplayInv'
    <2>1. /\ owner' = [owner EXCEPT ![s] = caller[c]]
          /\ leader[s] = "none" /\ leader' = [leader EXCEPT ![s] = "running"]
        BY <1>2 DEF SessionCreate, LaunchDetached
    <2>2. PICK d \in Display :
             /\ \A t \in Session : leader[t] = "running" /\ display[t] = d
                    => RuntimeDirOf[owner[t]] # RuntimeDirOf[caller[c]]
             /\ display' = [display EXCEPT ![s] = d]
             /\ sockets' = sockets \cup {<<RuntimeDirOf[caller[c]], d>>}
        BY <1>2 DEF SessionCreate, LaunchDetached
    <2> QED BY <2>1, <2>2
<1>3. ASSUME NEW c \in Conn, NEW s \in Session, ListEntry(c, s)
      PROVE  SocketInv' /\ DisplayInv'
    <2>1. \A t \in Session : (leader'[t] = "running") = (leader[t] = "running")
        BY <1>3, ReapingKeeps DEF ListEntry
    <2> QED BY <1>3, <2>1 DEF ListEntry
<1>4. ASSUME NEW c \in Conn, WriteRecord(c) \/ Confirm(c) \/ RemoveRecord(c)
      PROVE  SocketInv' /\ DisplayInv'
    BY <1>4 DEF WriteRecord, Confirm, RemoveRecord
<1>5. ASSUME NEW s \in Session, LeaderExits(s) PROVE SocketInv' /\ DisplayInv'
    <2>1. /\ leader[s] = "running" /\ UNCHANGED <<owner, display>>
          /\ \A t \in Session : leader'[t] = "running" => leader[t] = "running" /\ t # s
          /\ \A k : k \in sockets /\ k # <<RuntimeDirOf[owner[s]], display[s]>> => k \in sockets'
        BY <1>5 DEF LeaderExits
    <2> QED BY <2>1
<1> QED BY <1>1, <1>2, <1>3, <1>4, <1>5, LifecycleSteps

\* A close only signals and waits for what it has found a record of.
LEMMA ClosePublishedStep == RInv /\ TypeOK' /\ [Next]_vars => ClosePublished'
<1> SUFFICES ASSUME RInv, TypeOK', [Next]_vars PROVE ClosePublished'
    OBVIOUS
<1> USE DEF RInv, IInv, TypeOK, ClosePublished, ClosingStates, Goto
<1>1. ASSUME NEW c \in Conn, ControlStep(c) PROVE ClosePublished'
    <2>1. CASE Connect(c) BY <2>1 DEF Connect
    <2>2. CASE Leave(c) BY <2>2 DEF Leave, HangUp
    <2>3. CASE SessionList(c) BY <2>3 DEF SessionList
    <2>4. CASE ListDone(c) BY <2>4 DEF ListDone
    <2>5. ASSUME NEW s \in Session, ListEntry(c, s) \/ CloseRefused(c, s)
          PROVE  ClosePublished'
        BY <2>5 DEF ListEntry, CloseRefused, vars
    <2>6. ASSUME NEW s \in Session, SessionClose(c, s) PROVE ClosePublished'
        BY <2>6 DEF SessionClose
    <2>7. ASSUME NEW s \in Session, SessionCreate(c, s) PROVE ClosePublished'
        BY <2>7 DEF SessionCreate
    <2>8. ASSUME NEW s \in Session, AttachUnknown(c, s) \/ AttachRefused(c, s)
          PROVE  ClosePublished'
        BY <2>8 DEF AttachUnknown, AttachRefused, HangUp
    <2>9. ASSUME NEW s \in Session, SessionAttach(c, s) PROVE ClosePublished'
        BY <2>9 DEF SessionAttach
    <2> QED BY <1>1, <2>1, <2>2, <2>3, <2>4, <2>5, <2>6, <2>7, <2>8, <2>9 DEF ControlStep
<1>2. ASSUME NEW c \in Conn, StreamStep(c) PROVE ClosePublished'
    <2>1. CASE CompositorUp(c) \/ WriteRecord(c) \/ SessionReady(c)
        BY <2>1 DEF CompositorUp, WriteRecord, SessionReady
    <2>2. CASE StartFails(c) \/ Detach(c)
        BY <2>2 DEF StartFails, Detach, HangUp
    <2>3. CASE ClientCloses(c) \/ CompositorGone(c) \/ CapturePanics(c)
        BY <2>3 DEF ClientCloses, CompositorGone, CapturePanics, BeginClose
    <2> QED BY <1>2, <2>1, <2>2, <2>3 DEF StreamStep
<1>3. ASSUME NEW c \in Conn, CloseStep(c) PROVE ClosePublished'
    <2>1. CASE CloseRead(c) BY <2>1 DEF CloseRead, BornInv
    <2>2. CASE WaitStep(c) BY <2>2, WaitEffect
    <2>3. CASE Confirm(c) BY <2>3 DEF Confirm
    <2>4. CASE RemoveRecord(c)
        <3>1. CASE reason[c] = "asked" /\ c \notin Cli
            BY <2>4, <3>1 DEF RemoveRecord
        <3>2. CASE ~(reason[c] = "asked" /\ c \notin Cli)
            BY <2>4, <3>2 DEF RemoveRecord, HangUp
        <3> QED BY <3>1, <3>2
    <2> QED BY <1>3, <2>1, <2>2, <2>3, <2>4 DEF CloseStep, WaitStep
<1>4. ASSUME NEW s \in Session, LeaderExits(s) \/ AppsExit(s) PROVE ClosePublished'
    BY <1>4 DEF LeaderExits, AppsExit
<1>5. ASSUME NEW p \in Process, ProcessExits(p) PROVE ClosePublished'
    BY <1>5 DEF ProcessExits, HangUp
<1>6. CASE UNCHANGED vars
    BY <1>6 DEF vars
<1> QED BY <1>1, <1>2, <1>3, <1>4, <1>5, <1>6 DEF Next

\* What happens to callers and owners in a step: a connection gets its user or
\* loses it, and a new session gets its creator's.
LEMMA AnonymousStep == RInv /\ TypeOK' /\ [Next]_vars => Anonymous'
<1> SUFFICES ASSUME RInv, TypeOK', [Next]_vars, ~RequireAuth
             PROVE  /\ \A c \in Conn : caller'[c] = NoUser
                    /\ \A s \in Session : owner'[s] = NoUser
    BY DEF Anonymous
<1> USE DEF RInv, IInv, TypeOK, Anonymous, HangUp
<1>1. ASSUME NEW c \in Conn, ControlStep(c) PROVE Anonymous'
    <2>1. CASE Connect(c) BY <2>1 DEF Connect
    <2>2. CASE Leave(c) BY <2>2 DEF Leave
    <2>3. CASE SessionList(c) \/ ListDone(c) BY <2>3 DEF SessionList, ListDone
    <2>4. ASSUME NEW s \in Session, ListEntry(c, s) \/ CloseRefused(c, s) \/ SessionClose(c, s)
          PROVE  Anonymous'
        BY <2>4 DEF ListEntry, CloseRefused, SessionClose, vars
    <2>5. ASSUME NEW s \in Session, SessionCreate(c, s) PROVE Anonymous'
        BY <2>5 DEF SessionCreate
    <2>6. ASSUME NEW s \in Session,
                 AttachUnknown(c, s) \/ AttachRefused(c, s) \/ SessionAttach(c, s)
          PROVE  Anonymous'
        BY <2>6 DEF AttachUnknown, AttachRefused, SessionAttach
    <2> QED BY <1>1, <2>1, <2>2, <2>3, <2>4, <2>5, <2>6 DEF ControlStep
<1>2. ASSUME NEW c \in Conn, StreamStep(c) PROVE Anonymous'
    <2>1. CASE CompositorUp(c) \/ WriteRecord(c) \/ SessionReady(c)
        BY <2>1 DEF CompositorUp, WriteRecord, SessionReady
    <2>2. CASE StartFails(c) \/ Detach(c)
        BY <2>2 DEF StartFails, Detach
    <2>3. CASE ClientCloses(c) \/ CompositorGone(c) \/ CapturePanics(c)
        BY <2>3 DEF ClientCloses, CompositorGone, CapturePanics, BeginClose
    <2> QED BY <1>2, <2>1, <2>2, <2>3 DEF StreamStep
<1>3. ASSUME NEW c \in Conn, CloseStep(c) PROVE Anonymous'
    <2>1. CASE CloseRead(c) \/ Confirm(c) BY <2>1 DEF CloseRead, Confirm
    <2>2. CASE WaitStep(c)
        BY <2>2 DEF WaitStep, DesktopGrace, TermLeader, TermGroup, KillGroup, CloseStage
    <2>3. CASE RemoveRecord(c) BY <2>3 DEF RemoveRecord
    <2> QED BY <1>3, <2>1, <2>2, <2>3 DEF CloseStep, WaitStep
<1>4. ASSUME NEW s \in Session, LeaderExits(s) \/ AppsExit(s) PROVE Anonymous'
    BY <1>4 DEF LeaderExits, AppsExit
<1>5. ASSUME NEW p \in Process, ProcessExits(p) PROVE Anonymous'
    BY <1>5 DEF ProcessExits
<1>6. CASE UNCHANGED vars
    BY <1>6 DEF vars
<1> QED BY <1>1, <1>2, <1>3, <1>4, <1>5, <1>6 DEF Next

\* The strengthened invariant is inductive as well.
THEOREM RunningInvariance == Spec => []RInv
<1>1. Init => RInv
    BY InitInv, ConstantsAssumption DEF Init, RInv, SocketInv, DisplayInv,
       ClosePublished, Anonymous, ServerDir, ClosingStates
<1>2. RInv /\ [Next]_vars => RInv'
    BY InvStep, SocketStep, ClosePublishedStep, AnonymousStep DEF RInv, IInv
<1> QED BY <1>1, <1>2, PTL DEF Spec

\* A record that goes while its compositor runs belongs to a session whose
\* compositor put its socket where the server does not look, or to survivors.
LEMMA RecordKept ==
    ASSUME RInv, [Next]_vars, NEW s \in Session, s \in recorded, s \notin recorded',
           leader[s] = "running", RuntimeDirOf[owner[s]] = ServerDir
    PROVE  s \in survivors
<1> USE DEF RInv, IInv, TypeOK
<1>1. CASE LifecycleSame
    BY <1>1 DEF LifecycleSame
<1>2. ASSUME NEW c \in Conn, NEW t \in Session, ListEntry(c, t) PROVE FALSE
    <2>1. PidAlive(ProcessOf[c], s) /\ SocketExists(s)
        BY DEF PidAlive, SocketExists, SocketInv
    <2> QED BY <1>2, <2>1 DEF ListEntry, IsLive
<1>3. ASSUME NEW c \in Conn, RemoveRecord(c) PROVE s \in survivors
    <2>1. s = target[c] /\ pc[c] = "remove"
        BY <1>3 DEF RemoveRecord
    <2> QED BY <2>1 DEF CloseConfirms, GroupAlive
<1>4. ASSUME NEW c \in Conn, NEW t \in Session, SessionCreate(c, t) PROVE FALSE
    BY <1>4 DEF SessionCreate
<1>5. ASSUME NEW c \in Conn, WriteRecord(c) \/ Confirm(c) PROVE FALSE
    BY <1>5 DEF WriteRecord, Confirm
<1>6. ASSUME NEW t \in Session, LeaderExits(t) PROVE FALSE
    BY <1>6 DEF LeaderExits
<1> QED BY <1>1, <1>2, <1>3, <1>4, <1>5, <1>6, LifecycleSteps

\* Every compositor runs with the server's own XDG_RUNTIME_DIR: a server without
\* --auth, where no session is anybody's, or one that was started with the directory of
\* its only user.
SharedRuntimeDir == RequireAuth => \A u \in User : RuntimeDirOf[u] = ServerDir

\* Under it, whoever a session belongs to, its socket is where the server looks.
LEMMA OwnerDirShared ==
    ASSUME RInv, SharedRuntimeDir, NEW s \in Session
    PROVE  RuntimeDirOf[owner[s]] = ServerDir
BY DEF RInv, IInv, TypeOK, Anonymous, SharedRuntimeDir, ServerDir

\* Where all compositors share the server's runtime directory, as they do without
\* --auth, a session that runs keeps its record until a close has reported its
\* survivors: no listing, attach, crash or other session's exit makes it
\* unreachable.  With --auth and other users it is false (PrunesOnlyTheGone).
THEOREM RunningKeepsRecord ==
    ASSUME SharedRuntimeDir PROVE Spec => RunningSessionKeepsRecord
<1> DEFINE Kept == \A s \in Session :
         s \in recorded /\ leader[s] = "running" /\ s \notin recorded' => s \in survivors
<1>1. RInv /\ [Next]_vars => [Kept]_vars
    <2> SUFFICES ASSUME RInv, [Next]_vars, NEW s \in Session, s \in recorded,
                        leader[s] = "running", s \notin recorded'
                 PROVE  s \in survivors
        OBVIOUS
    <2>1. RuntimeDirOf[owner[s]] = ServerDir
        BY SharedRuntimeDir, OwnerDirShared
    <2> QED BY <2>1, RecordKept
<1> QED BY <1>1, RunningInvariance, PTL DEF Spec, RunningSessionKeepsRecord

(***************************************************************************)
(* Each step is a step of the life cycle or leaves it alone.               *)
(***************************************************************************)

\* A launch starts a session that has no life yet.
LEMMA CreateStarts ==
    ASSUME RInv, NEW c \in Conn, NEW s \in Session, SessionCreate(c, s)
    PROVE  Lifecycle!Start(s)
<1>1. /\ leader \in [Session -> LeaderStates]
      /\ leader[s] = "none" /\ leader' = [leader EXCEPT ![s] = "running"]
    BY DEF RInv, IInv, TypeOK, SessionCreate, LaunchDetached
<1>2. UNCHANGED <<recorded, published, survivors>>
    BY DEF SessionCreate
<1>3. s \notin recorded /\ s \notin published
    BY <1>1 DEF RInv, IInv, BornInv
<1>4. {t \in Session : leader'[t] = "running"}
          = {t \in Session : leader[t] = "running"} \cup {s}
    BY <1>1
<1> QED BY <1>1, <1>2, <1>3, <1>4 DEF Lifecycle!Start

\* Writing the record publishes a session that was private to its connection.
LEMMA WritePublishes ==
    ASSUME RInv, NEW c \in Conn, WriteRecord(c)
    PROVE  (\E s \in Session : Lifecycle!Publish(s)) \/ UNCHANGED Lifecycle!lifecycleVars
<1> USE DEF RInv, IInv, TypeOK
<1>1. PICK s \in Session : s = target[c]
    BY DEF WriteRecord, Goto, StreamStates
<1>2. leader[s] # "none" /\ s \notin published /\ s \notin recorded
    BY <1>1 DEF WriteRecord, Goto, FreshInv, Private, BornInv, Busy, StreamStates
<1>3. UNCHANGED <<leader, survivors>>
    BY DEF WriteRecord
<1>4. CASE recorded' = recorded \cup {s} /\ published' = published \cup {s}
    BY <1>2, <1>3, <1>4 DEF Lifecycle!Publish
<1>5. CASE UNCHANGED <<recorded, published>>
    BY <1>3, <1>5 DEF Lifecycle!lifecycleVars
<1> QED BY <1>1, <1>4, <1>5 DEF WriteRecord

\* Losing its record withdraws a session.
LEMMA RemovalWithdraws ==
    ASSUME RInv, NEW s \in Session, s \in recorded, recorded' = recorded \ {s},
           leader[s] # "running" \/ s \in survivors,
           UNCHANGED <<published, survivors>>,
           \A t \in Session : /\ (leader'[t] = "running") = (leader[t] = "running")
                              /\ (leader'[t] = "none") = (leader[t] = "none")
    PROVE  Lifecycle!Withdraw(s)
<1>1. s \in published
    BY DEF RInv, IInv, BornInv
<1> QED BY <1>1 DEF Lifecycle!Withdraw

\* The refinement, step by step.
LEMMA LifecycleStep ==
    ASSUME RInv, [Next]_vars, SharedRuntimeDir
    PROVE  [Lifecycle!Next]_(Lifecycle!lifecycleVars)
<1> USE DEF RInv, IInv, TypeOK
<1>1. CASE LifecycleSame
    BY <1>1 DEF LifecycleSame, Lifecycle!lifecycleVars
<1>2. ASSUME NEW c \in Conn, NEW s \in Session, SessionCreate(c, s)
      PROVE  [Lifecycle!Next]_(Lifecycle!lifecycleVars)
    BY <1>2, CreateStarts DEF Lifecycle!Next
<1>3. ASSUME NEW c \in Conn, NEW s \in Session, ListEntry(c, s)
      PROVE  [Lifecycle!Next]_(Lifecycle!lifecycleVars)
    <2>1. /\ UNCHANGED <<published, survivors>>
          /\ \A t \in Session : /\ (leader'[t] = "running") = (leader[t] = "running")
                                /\ (leader'[t] = "none") = (leader[t] = "none")
        BY <1>3, ReapingKeeps DEF ListEntry
    <2>2. CASE recorded' = recorded
        BY <2>1, <2>2 DEF Lifecycle!lifecycleVars
    <2>3. CASE s \in recorded /\ recorded' = recorded \ {s}
        <3>1. leader[s] # "running" \/ s \in survivors
            <4>1. RuntimeDirOf[owner[s]] = ServerDir
                BY OwnerDirShared
            <4> QED BY <2>3, <4>1, RecordKept
        <3> QED BY <2>1, <2>3, <3>1, RemovalWithdraws DEF Lifecycle!Next
    <2> QED BY <1>3, <2>2, <2>3 DEF ListEntry
<1>4. ASSUME NEW c \in Conn, WriteRecord(c)
      PROVE  [Lifecycle!Next]_(Lifecycle!lifecycleVars)
    BY <1>4, WritePublishes DEF Lifecycle!Next
<1>5. ASSUME NEW c \in Conn, Confirm(c)
      PROVE  [Lifecycle!Next]_(Lifecycle!lifecycleVars)
    <2>1. target[c] \in Session /\ target[c] \in published
        BY <1>5 DEF Confirm, Goto, ClosingStates, ClosePublished
    <2>2. UNCHANGED <<recorded, published, leader>>
        BY <1>5 DEF Confirm
    <2>3. CASE survivors' = survivors
        BY <2>2, <2>3 DEF Lifecycle!lifecycleVars
    <2>4. CASE survivors' = survivors \cup {target[c]}
        BY <2>1, <2>2, <2>4 DEF Lifecycle!GiveUp, Lifecycle!Next
    <2> QED BY <1>5, <2>3, <2>4 DEF Confirm
<1>6. ASSUME NEW c \in Conn, RemoveRecord(c)
      PROVE  [Lifecycle!Next]_(Lifecycle!lifecycleVars)
    <2>1. /\ pc[c] = "remove" /\ recorded' = recorded \ {target[c]}
          /\ UNCHANGED <<published, survivors, leader>>
        BY <1>6 DEF RemoveRecord
    <2>2. CASE target[c] \notin recorded
        BY <2>1, <2>2 DEF Lifecycle!lifecycleVars
    <2>3. CASE target[c] \in recorded
        <3>1. leader[target[c]] # "running" \/ target[c] \in survivors
            BY <2>1, <2>3 DEF CloseConfirms, GroupAlive
        <3> QED BY <2>1, <2>3, <3>1, RemovalWithdraws DEF Lifecycle!Next
    <2> QED BY <2>2, <2>3
<1>7. ASSUME NEW s \in Session, LeaderExits(s)
      PROVE  [Lifecycle!Next]_(Lifecycle!lifecycleVars)
    <2>1. /\ UNCHANGED <<recorded, published, survivors>>
          /\ leader[s] = "running" /\ leader'[s] \notin {"running", "none"}
          /\ \A t \in Session : t # s => leader'[t] = leader[t]
        BY <1>7 DEF LeaderExits
    <2>2. Lifecycle!Exit(s)
        BY <2>1 DEF Lifecycle!Exit
    <2> QED BY <2>2 DEF Lifecycle!Next
<1> QED BY <1>1, <1>2, <1>3, <1>4, <1>5, <1>6, <1>7, LifecycleSteps

\* Where all compositors share the server's runtime directory, connections,
\* listings, crashes and the file registry together implement the life cycle:
\* a session is published at most once, withdrawn for good, and never while
\* its compositor runs unless the server has given up on ending it.
THEOREM RegistryRefinesLifecycle ==
    ASSUME SharedRuntimeDir PROVE Spec => ImplementsLifecycle
<1>1. Init => Lifecycle!Init
    BY ConstantsAssumption DEF Init, Lifecycle!Init
<1>2. RInv /\ [Next]_vars => [Lifecycle!Next]_(Lifecycle!lifecycleVars)
    BY LifecycleStep
<1> QED BY <1>1, <1>2, RunningInvariance, PTL DEF Spec, ImplementsLifecycle, Lifecycle!Spec
============================================================================
