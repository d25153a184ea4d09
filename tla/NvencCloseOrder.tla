-------------------------- MODULE NvencCloseOrder --------------------------
(***************************************************************************)
(* The order in which the NVENC encoders of one server process are closed  *)
(* (termland-codec/src/encoder.rs, CloseOrder and OpenedEncoder).  A       *)
(* server with several sessions (--port) has one capture thread for each,  *)
(* and every thread opens and drops encoders of its own; what they share   *)
(* is the driver and NVENC_CLOSE_ORDER, behind a mutex.                    *)
(*                                                                         *)
(* Opening an encoder and recording it are two steps: open_with runs       *)
(* without the mutex.  Dropping one takes the mutex once the encoder is    *)
(* old enough, and keeps it while the driver closes what may be closed.    *)
(* Encoders that are not NVENC take part in none of this.                  *)
(***************************************************************************)
EXTENDS Integers, Sequences

CONSTANTS
    Encoder,       \* encoders, one for each successful open_with
    NoEncoder      \* nobody holds the mutex

ASSUME EncoderAssumption == NoEncoder \notin Encoder

VARIABLES
    stage,         \* how far each encoder is
    young,         \* encoders that are younger than NVENC_MIN_LIFETIME
    nvenc_seq,     \* its place in the order
    open, next,    \* the CloseOrder
    lock,          \* the encoder whose drop holds the mutex
    close,         \* what that drop has still to close
    driver         \* history: the order in which the driver opened them

vars == <<stage, young, nvenc_seq, open, next, lock, close, driver>>

\* unopened; opened, but not recorded; used; dropping: the drop sleeps, or waits
\* for the mutex; dropped: its fate is up to the order; closed.
Stages == {"unopened", "opened", "used", "dropping", "dropped", "closed"}

\* An entry of the order; `waiting` is the Some of its option.
Entry == [seq : Nat, encoder : Encoder, waiting : BOOLEAN]

Init ==
    /\ stage = [e \in Encoder |-> "unopened"]
    /\ young = {}
    /\ nvenc_seq = [e \in Encoder |-> 0]
    /\ open = <<>> /\ next = 0
    /\ lock = NoEncoder /\ close = <<>>
    /\ driver = <<>>

----------------------------------------------------------------------------
\* open_with: the driver opens an encoder.
OpenWith(e) ==
    /\ stage[e] = "unopened"
    /\ stage' = [stage EXCEPT ![e] = "opened"]
    /\ driver' = Append(driver, e)
    /\ young' = young \cup {e}
    /\ UNCHANGED <<nvenc_seq, open, next, lock, close>>

\* Mutant of Opened: the counter is not advanced.
OpenedReuses(e) ==
    /\ stage[e] = "opened" /\ lock = NoEncoder
    /\ stage' = [stage EXCEPT ![e] = "used"]
    /\ open' = Append(open, [seq |-> next, encoder |-> e, waiting |-> FALSE])
    /\ nvenc_seq' = [nvenc_seq EXCEPT ![e] = next]
    /\ UNCHANGED <<young, next, lock, close, driver>>

\* OpenedEncoder::new records it.
Opened(e) ==
    /\ stage[e] = "opened" /\ lock = NoEncoder
    /\ stage' = [stage EXCEPT ![e] = "used"]
    /\ open' = Append(open, [seq |-> next, encoder |-> e, waiting |-> FALSE])
    /\ nvenc_seq' = [nvenc_seq EXCEPT ![e] = next]
    /\ next' = next + 1
    /\ UNCHANGED <<young, lock, close, driver>>

\* NVENC_MIN_LIFETIME passes, counted from when it was recorded.
Ages(e) ==
    /\ e \in young /\ stage[e] # "opened"
    /\ young' = young \ {e}
    /\ UNCHANGED <<stage, nvenc_seq, open, next, lock, close, driver>>

\* The thread is done with the encoder: the session ends, or replaces it.
BeginDrop(e) ==
    /\ stage[e] = "used"
    /\ stage' = [stage EXCEPT ![e] = "dropping"]
    /\ UNCHANGED <<young, nvenc_seq, open, next, lock, close, driver>>

\* The order with encoder e marked as waiting.
Marked(e) ==
    [i \in 1..Len(open) |->
        IF open[i].seq = nvenc_seq[e] THEN [open[i] EXCEPT !.waiting = TRUE] ELSE open[i]]

\* How much of an order is kept: everything up to the last one in use.
IsKept(order, n) ==
    /\ \A i \in n + 1 .. Len(order) : order[i].waiting
    /\ n > 0 => ~order[n].waiting

\* Mutant of Dropped: an encoder is closed as soon as it is dropped.
DroppedAtOnce(e) ==
    /\ stage[e] = "dropping" /\ e \notin young /\ lock = NoEncoder
    /\ stage' = [stage EXCEPT ![e] = "dropped"]
    /\ lock' = e
    /\ open' = SelectSeq(open, LAMBDA x : x.seq # nvenc_seq[e])
    /\ close' = <<e>>
    /\ UNCHANGED <<young, nvenc_seq, next, driver>>

\* Mutant of Dropped: only the newest is closed, not the older ones that wait.
DroppedNewestOnly(e) ==
    /\ stage[e] = "dropping" /\ e \notin young /\ lock = NoEncoder
    /\ stage' = [stage EXCEPT ![e] = "dropped"]
    /\ lock' = e
    /\ LET last == Len(open) IN
       IF Marked(e)[last].waiting
       THEN open' = SubSeq(open, 1, last - 1) /\ close' = <<open[last].encoder>>
       ELSE open' = Marked(e) /\ close' = <<>>
    /\ UNCHANGED <<young, nvenc_seq, next, driver>>

\* Mutant of Dropped: the drop waits for the newer ones to be closed.
DroppedWaits(e) ==
    /\ stage[e] = "dropping" /\ e \notin young /\ lock = NoEncoder
    /\ open[Len(open)].seq = nvenc_seq[e]
    /\ stage' = [stage EXCEPT ![e] = "dropped"]
    /\ lock' = e
    /\ open' = SubSeq(open, 1, Len(open) - 1) /\ close' = <<e>>
    /\ UNCHANGED <<young, nvenc_seq, next, driver>>

\* Mutant of Dropped: no waiting for the encoder to grow old enough.
DroppedYoung(e) ==
    /\ stage[e] = "dropping" /\ lock = NoEncoder
    /\ stage' = [stage EXCEPT ![e] = "dropped"]
    /\ lock' = e
    /\ \E n \in 0..Len(open) :
        /\ IsKept(Marked(e), n)
        /\ open' = SubSeq(Marked(e), 1, n)
        /\ close' = [i \in 1 .. Len(open) - n |-> open[Len(open) + 1 - i].encoder]
    /\ UNCHANGED <<young, nvenc_seq, next, driver>>

\* Old enough, it is marked; the newest ones, as far as they wait, are taken off
\* the order to be closed, newest first.
Dropped(e) ==
    /\ stage[e] = "dropping" /\ e \notin young /\ lock = NoEncoder
    /\ stage' = [stage EXCEPT ![e] = "dropped"]
    /\ lock' = e
    /\ \E n \in 0..Len(open) :
        /\ IsKept(Marked(e), n)
        /\ open' = SubSeq(Marked(e), 1, n)
        /\ close' = [i \in 1 .. Len(open) - n |-> open[Len(open) + 1 - i].encoder]
    /\ UNCHANGED <<young, nvenc_seq, next, driver>>

\* The driver closes one.
CloseNext(e) ==
    /\ lock = e /\ close # <<>>
    /\ stage' = [stage EXCEPT ![Head(close)] = "closed"]
    /\ close' = Tail(close)
    /\ UNCHANGED <<young, nvenc_seq, open, next, lock, driver>>

\* The drop returns.
Unlock(e) ==
    /\ lock = e /\ close = <<>>
    /\ lock' = NoEncoder
    /\ UNCHANGED <<stage, young, nvenc_seq, open, next, close, driver>>

DropStep(e) == Dropped(e) \/ CloseNext(e) \/ Unlock(e)

Next == \E e \in Encoder :
    OpenWith(e) \/ Opened(e) \/ Ages(e) \/ BeginDrop(e) \/ DropStep(e)

Spec == Init /\ [][Next]_vars

\* Time passes, and a thread in the middle of a drop goes on.  Nothing makes a
\* thread open an encoder, or drop the one it uses.
FairSpec == Spec /\ \A e \in Encoder : WF_vars(Ages(e)) /\ WF_vars(DropStep(e))

----------------------------------------------------------------------------
\* Every variable keeps its type, and the order is one: places go up.
TypeOK ==
    /\ stage \in [Encoder -> Stages]
    /\ young \subseteq Encoder
    /\ nvenc_seq \in [Encoder -> Nat]
    /\ open \in Seq(Entry) /\ next \in Nat
    /\ \A i \in 1..Len(open) : open[i].seq < next
    /\ \A i, j \in 1..Len(open) : i < j => open[i].seq < open[j].seq
    /\ lock \in Encoder \cup {NoEncoder}
    /\ close \in Seq(Encoder) /\ driver \in Seq(Encoder)

\* Open as far as the order knows.
Recorded(e) == stage[e] \in {"used", "dropping", "dropped"}

\* An encoder is closed only when every one that was recorded after it has been
\* closed ("kept open, unused, until every newer one has been closed").
ClosedNewestFirst ==
    [][\A e, f \in Encoder :
        stage[e] # "closed" /\ stage'[e] = "closed" /\ Recorded(f) /\ f # e =>
            nvenc_seq[f] < nvenc_seq[e]]_vars

\* No encoder is closed within NVENC_MIN_LIFETIME, not even as one of those that
\* waited for another.
NeverClosedYoung ==
    [][\A e \in young : stage'[e] = "closed" => stage[e] = "closed"]_vars

\* An encoder that is no longer used stays open only while a newer one is used:
\* none is left behind when the last drop returns.
NoneLeftBehind ==
    lock = NoEncoder =>
        \A e \in Encoder : stage[e] = "dropped" =>
            \E f \in Encoder : /\ stage[f] \in {"used", "dropping"}
                               /\ nvenc_seq[f] > nvenc_seq[e]

\* Types and what is left open, in one invariant; when encoders are closed, in one
\* property of steps.
OrderSafety == TypeOK /\ NoneLeftBehind
ClosesInTurn == ClosedNewestFirst /\ NeverClosedYoung

\* Every drop returns.
DropReturns == \A e \in Encoder :
    stage[e] = "dropping" ~> stage[e] \in {"dropped", "closed"} /\ lock # e

\* No encoder is closed while one that the driver opened after it is still open
\* (what the driver cannot take, in the comment on CloseOrder).
DriverNewestFirst ==
    [][\A i, j \in 1..Len(driver) :
        i < j /\ stage[driver[i]] # "closed" /\ stage'[driver[i]] = "closed" =>
            stage[driver[j]] = "closed"]_vars
============================================================================
