----------------------------- MODULE SessionInput -----------------------------
(***************************************************************************)
(* The client's keys and text on their way into a session's desktop        *)
(* (transport.rs run_session and input_thread, input.rs), and the list of  *)
(* the session's windows on its way out (toplevels.rs).                    *)
(*                                                                         *)
(* The control loop turns each message into a command for a thread that    *)
(* drives a virtual keyboard of the compositor.  Right Ctrl is renamed for *)
(* a desktop that is a nested KWin, which the loop recognises by the       *)
(* record of the desktop's script and looks at again when the list of      *)
(* windows changes: the two sides of this module meet in that flag, and    *)
(* the module runs beside DesktopSession, which keeps the record and the   *)
(* programs that have windows.                                             *)
(***************************************************************************)
EXTENDS DesktopSession, Sequences, SequencesExt

CONSTANTS
    Keys,                   \* keys a user presses
    Texts,                  \* texts a client may commit
    MAX_KEYS_PER_KEYMAP,    \* distinct characters of one synthesized keymap
    MaxMessages             \* bound: messages of the client

Key == {"rctrl", "lctrl", "lshift", "a"}

ASSUME InputAssumption ==
    /\ Keys \subseteq Key /\ Texts \subseteq Seq(STRING)
    /\ MAX_KEYS_PER_KEYMAP \in Nat \ {0} /\ MaxMessages \in Nat

Control == "control"        \* a character that cannot be typed
None == "none"

VARIABLES
    stream,         \* the control loop of a connection: "none", "on"
    watcher,        \* the watcher of windows: "none", "on" or "lost"
    windows,        \* programs that have a window in labwc
    last_windows,   \* what the client was last told
    kwin_desktop,   \* the loop takes the desktop for a nested KWin
    sent_as,        \* what a held Right Ctrl was sent as
    held,           \* keys the user holds
    messages,       \* messages so far
    input,          \* the queue of the input thread
    injector,       \* "none", "on" or "failed"
    down,           \* keys down on the virtual keyboard
    mods,           \* its mask
    keymap,         \* "static", or the "text" of a synthesized keymap
    text            \* the last text, what was typed of it, and how it went

windowVars == <<watcher, windows, last_windows, kwin_desktop>>
keyboardVars == <<down, mods, keymap>>
inputVars == <<stream, windowVars, sent_as, held, messages, input, injector, keyboardVars, text>>
vars == <<desktopVars, inputVars>>
-----------------------------------------------------------------------------
InitInput ==
    /\ stream = "none" /\ watcher = "none" /\ windows = {} /\ last_windows = {}
    /\ kwin_desktop = FALSE /\ sent_as = None /\ held = {} /\ messages = 0 /\ input = <<>>
    /\ injector = "none" /\ down = {} /\ mods = {} /\ keymap = "static"
    /\ text = [asked |-> <<>>, typed |-> <<>>, whole |-> TRUE, restored |-> TRUE]
-----------------------------------------------------------------------------
(* Windows. *)

\* KWin and the terminal have a window of labwc's, plasmashell has one in labwc only when
\* it runs there; a window goes with its program.
WindowMaps(p) ==
    /\ p \in up \ windows /\ "labwc" \in up
    /\ p \in {"kwin", "terminal"} \cup (IF desktop = "labwc" THEN {"shell"} ELSE {})
    /\ windows' = windows \cup {p}
    /\ UNCHANGED <<desktopVars, stream, watcher, last_windows, kwin_desktop, sent_as, held,
                   messages, input, injector, keyboardVars, text>>

\* InputInjector::connect, once, by a thread of its own; without it the thread is gone and
\* commands go nowhere.
ConnectInjector == {"on", "failed"}

\* Up to the streaming loop: the watcher connects or is done without.  The injector's
\* connection touches nothing that anyone else reads, and commands wait for it.
StreamStarts ==
    /\ stream = "none" /\ launch = "running" /\ "labwc" \in up /\ stream' = "on"
    /\ watcher' \in {"on", "lost"} /\ kwin_desktop' = pidfile
    /\ injector' \in ConnectInjector
    /\ UNCHANGED <<desktopVars, windows, last_windows, sent_as, held, messages, input,
                   keyboardVars, text>>

Mapped == windows \cap up

\* poll, twice a second.  A list that differs is sent, and the desktop looked at again;
\* a watcher that fails is dropped for good.  The list and the record are read in one step:
\* what could come between is the record's removal, with the session about to end.
Poll ==
    /\ stream = "on" /\ watcher = "on"
    /\ IF "labwc" \notin up
       THEN watcher' = "lost" /\ UNCHANGED <<last_windows, kwin_desktop>>
       ELSE /\ Mapped # last_windows /\ last_windows' = Mapped
            /\ kwin_desktop' = pidfile /\ UNCHANGED watcher
    /\ UNCHANGED <<desktopVars, stream, windows, sent_as, held, messages, input, injector,
                   keyboardVars, text>>
-----------------------------------------------------------------------------
(* The control loop. *)

\* Mutant: a release is renamed as the desktop is taken now.
MapNow(key, pressed) ==
    IF key = "rctrl" /\ kwin_desktop THEN "lctrl" ELSE key

\* RightCtrl::map: a release goes out as its press did.
Map(key, pressed) ==
    IF key # "rctrl" THEN key
    ELSE IF pressed THEN IF kwin_desktop THEN "lctrl" ELSE "rctrl"
    ELSE IF sent_as = None THEN "rctrl" ELSE sent_as

Send(command) == input' = Append(input, command)

\* A client presses what is up and releases what it holds.
KeyEvent(key) ==
    LET pressed == key \notin held
    IN  /\ stream = "on" /\ messages < MaxMessages /\ messages' = messages + 1
        /\ held' = IF pressed THEN held \cup {key} ELSE held \ {key}
        /\ Send([is |-> "key", key |-> Map(key, pressed), pressed |-> pressed])
        /\ sent_as' = IF key # "rctrl" THEN sent_as
                      ELSE IF pressed THEN Map(key, TRUE) ELSE None
        /\ UNCHANGED <<desktopVars, stream, windowVars, injector, keyboardVars, text>>

TextInput(t) ==
    /\ stream = "on" /\ messages < MaxMessages /\ messages' = messages + 1
    /\ Send([is |-> "text", text |-> t])
    /\ UNCHANGED <<desktopVars, stream, windowVars, sent_as, held, injector, keyboardVars, text>>
-----------------------------------------------------------------------------
(* The input thread. *)

injectorUnchanged == UNCHANGED <<desktopVars, stream, windowVars, sent_as, held, messages>>

ModifierOf(key) ==
    IF key \in {"lctrl", "rctrl"} THEN "ctrl" ELSE IF key = "lshift" THEN "shift" ELSE None

\* key: the mask follows the modifiers, one bit for both of a pair.
InjectKey ==
    /\ injector = "on" /\ input # <<>> /\ Head(input).is = "key" /\ input' = Tail(input)
    /\ LET key == Head(input).key
           pressed == Head(input).pressed
           mod == {ModifierOf(key)} \ {None}
       IN  /\ down' = IF pressed THEN down \cup {key} ELSE down \ {key}
           /\ mods' = IF pressed THEN mods \cup mod ELSE mods \ mod
    /\ UNCHANGED <<injector, keymap, text>> /\ injectorUnchanged

Typable(c) == c # Control

\* A chunk of one more character, and a chunk that takes one more.
Begun(chunks, c) == Append(chunks, <<c>>)
Longer(chunks, c) == Append(Front(chunks), Append(Last(chunks), c))
Fits(chunk, c) == c \in ToSet(chunk) \/ Cardinality(ToSet(chunk)) < MAX_KEYS_PER_KEYMAP

\* Mutant: a chunk is cut at its length, and the character that does not fit is lost.
PutLossy(chunks, c) ==
    IF ~Typable(c) THEN chunks
    ELSE IF chunks = <<>> THEN Begun(chunks, c)
    ELSE IF Fits(Last(chunks), c) THEN Longer(chunks, c)
    ELSE Append(chunks, <<>>)

\* The loop of text: a character joins the chunk begun last, unless a keymap cannot hold
\* the distinct characters of both.
Put(chunks, c) ==
    IF ~Typable(c) THEN chunks
    ELSE IF chunks # <<>> /\ Fits(Last(chunks), c) THEN Longer(chunks, c)
    ELSE Begun(chunks, c)

\* text: cut into runs that a keymap can hold the distinct characters of.
Chunks(t) ==
    LET after[i \in 0 .. Len(t)] == IF i = 0 THEN <<>> ELSE Put(after[i - 1], t[i])
    IN  after[Len(t)]

\* type_chunk for each, key by key, up to the first that fails.
Typed(t, n) == SubSeq(FlattenSeq(Chunks(t)), 1, n)

\* Mutant: the static keymap is put back only after a text that went well.
KeymapAfterWhole(whole, restored) == IF whole /\ restored THEN "static" ELSE "text"
\* It is put back on the error path too; putting it back may fail as well.
KeymapAfter(whole, restored) == IF restored THEN "static" ELSE "text"

\* The mask is dropped for the text and asserted again after it.
InjectText ==
    /\ injector = "on" /\ input # <<>> /\ Head(input).is = "text" /\ input' = Tail(input)
    /\ LET t == Head(input).text
           n == Len(FlattenSeq(Chunks(t)))
           nothing == n = 0
       IN  \E typed \in 0 .. n, restored \in BOOLEAN :
               /\ nothing => typed = n /\ restored = text.restored
               /\ text' = [asked |-> t, typed |-> Typed(t, typed), whole |-> typed = n,
                           restored |-> restored]
               /\ keymap' = IF nothing THEN keymap ELSE KeymapAfter(typed = n, restored)
    /\ UNCHANGED <<injector, down, mods>> /\ injectorUnchanged
-----------------------------------------------------------------------------
InputStep ==
    \/ StreamStarts \/ Poll \/ InjectKey \/ InjectText
    \/ \E p \in Program : WindowMaps(p)
    \/ \E k \in Keys : KeyEvent(k)
    \/ \E t \in Texts : TextInput(t)

InitSession == Init /\ InitInput

NextSession == (DesktopStep /\ UNCHANGED inputVars) \/ InputStep

Spec == InitSession /\ [][NextSession]_vars /\ DesktopFairness
-----------------------------------------------------------------------------
\* What a key held by the user may be on the virtual keyboard.
SentFor(k) == IF k = "rctrl" THEN sent_as ELSE k

\* With nothing under way, every key down is one the user holds, and the mask names only
\* modifiers that are down.
NoStuckKey ==
    (injector = "on" /\ input = <<>>) => /\ down \subseteq {SentFor(k) : k \in held}
                                         /\ mods \subseteq {ModifierOf(k) : k \in down}

\* The client is told of KWin's window only by a loop that takes the desktop for one.
Recognised == "kwin" \in last_windows => kwin_desktop

\* All that can be typed of a text is typed, once and in order, or the failure is known;
\* and every keymap it takes can be had.
TypableOf(t) ==
    LET of[i \in 0 .. Len(t)] ==
            IF i = 0 THEN <<>> ELSE IF Typable(t[i]) THEN Append(of[i - 1], t[i]) ELSE of[i - 1]
    IN  of[Len(t)]
TextWhole ==
    /\ IsPrefix(text.typed, TypableOf(text.asked))
    /\ text.whole => text.typed = TypableOf(text.asked)
    /\ \A t \in Texts : \A i \in DOMAIN Chunks(t) :
           Cardinality(ToSet(Chunks(t)[i])) =< MAX_KEYS_PER_KEYMAP

\* A text that failed leaves the keymap of the keys in place, unless putting it back
\* failed as well.
KeymapKept == keymap = "static" <=> text.restored

InputTypeOK ==
    /\ watcher \in {"none", "on", "lost"} /\ kwin_desktop \in BOOLEAN /\ held \subseteq Key
    /\ down \subseteq Key /\ mods \subseteq {"ctrl", "shift"} /\ keymap \in {"static", "text"}

(***************************************************************************)
(* No key stays down that the user has let go, whenever the desktop is    *)
(* recognised; a nested KWin is recognised by the time the client hears   *)
(* of its window; and a text arrives whole, and leaves the keyboard as it *)
(* found it (transport.rs RightCtrl, nested_kwin; input.rs key, text).    *)
(***************************************************************************)
InputSafety == InputTypeOK /\ NoStuckKey /\ Recognised /\ TextWhole /\ KeymapKept
=============================================================================
