------------------------------- MODULE Keyboard -------------------------------
(***************************************************************************)
(* The keyboard and its driver, kernel/keyboard.c.  The keyboard sends     *)
(* bytes as keys go down and up, whether or not the program is listening;  *)
(* keyboard_get_key takes them one by one, keeps track of the modifiers    *)
(* and returns the next key that means something.                          *)
(***************************************************************************)
EXTENDS Naturals, Sequences

CONSTANTS
    Keys,       \* the keys of this keyboard, out of AllKeys
    QueueMax    \* bytes that wait in keyboard and controller

AllKeys ==
    {"lshift", "rshift", "lctrl", "rctrl", "caps", "letter", "slash", "up",
     "kpslash", "kp8", "pause"}
Shifts == {"lshift", "rshift"}
Ctrls  == {"lctrl", "rctrl"}

\* The keys keyboard_get_key returns; "/" on the keypad is not among them.
Meaningful == {"letter", "slash", "up"}

ASSUME KeyboardAssumption == Keys \subseteq AllKeys /\ QueueMax \in Nat

VARIABLES
    held,        \* the keys that are down
    queue,       \* bytes sent and not yet read
    shift,       \* shift_pressed
    ctrl,        \* ctrl_pressed
    caps,        \* caps_lock
    ext,         \* g_ext
    listening,   \* the program is in keyboard_get_key
    answer,      \* what it returned last
    typed,       \* meaningful presses whose key has not been returned yet
    overrun      \* what a key sent has been lost for want of room

driver == <<shift, ctrl, caps, ext, listening, answer>>
keyboardVars ==
    <<held, queue, shift, ctrl, caps, ext, listening, answer, typed, overrun>>

NoKey == [key |-> "none", shift |-> FALSE, ctrl |-> FALSE, caps |-> FALSE]

KeyboardAtRest ==
    /\ held = {}
    /\ queue = <<>>
    /\ shift = FALSE /\ ctrl = FALSE /\ caps = FALSE /\ ext = FALSE
    /\ listening = FALSE
    /\ answer = NoKey
    /\ typed = <<>>
    /\ overrun = FALSE

-------------------------------------------------------------------------------
(* The keyboard: scan code set 1                                            *)

Down(code) == [code |-> code, up |-> FALSE]
Up(code)   == [code |-> code, up |-> TRUE]
E0 == Up("e0")          \* prefixes are above 0x80, as releases are
E1 == Up("e1")

\* Keys of the right control, the arrows and the keypad share their codes with
\* others, told apart by the prefix.
Code(key) ==
    CASE key = "lctrl"   -> "ctrl"
      [] key = "rctrl"   -> "ctrl"
      [] key = "kpslash" -> "slash"
      [] key = "kp8"     -> "up"
      [] OTHER           -> key
Prefix(key) == IF key \in {"rctrl", "kpslash", "up"} THEN <<E0>> ELSE <<>>

\* Around an arrow the keyboard pretends that shift is released, if it is held and
\* NumLock is off, or pressed, if it is not held and NumLock is on.
FakeBefore(key, numlock) ==
    CASE key = "up" /\ held \cap Shifts # {} /\ ~numlock -> <<E0, Up("lshift")>>
      [] key = "up" /\ held \cap Shifts = {} /\ numlock  -> <<E0, Down("lshift")>>
      [] OTHER                                           -> <<>>
FakeAfter(key, numlock) ==
    CASE key = "up" /\ held \cap Shifts # {} /\ ~numlock -> <<E0, Down("lshift")>>
      [] key = "up" /\ held \cap Shifts = {} /\ numlock  -> <<E0, Up("lshift")>>
      [] OTHER                                           -> <<>>

\* Pause goes down and up at once, as a control key with a prefix of its own and
\* NumLock, whose code means nothing to the driver and is left out.
PauseBytes == <<E1, Down("ctrl"), E1, Up("ctrl")>>

\* The bytes of one event are queued together or lost together.
Send(bytes, presses) ==
    IF Len(queue) + Len(bytes) <= QueueMax
    THEN queue' = queue \o bytes /\ typed' = typed \o presses /\ UNCHANGED overrun
    ELSE overrun' = TRUE /\ UNCHANGED <<queue, typed>>

\* A key goes down, or repeats because it is held.
Press(key, numlock) ==
    /\ Send(IF key = "pause" THEN PauseBytes
            ELSE FakeBefore(key, numlock) \o Prefix(key) \o <<Down(Code(key))>>,
            IF key \in Meaningful
            THEN <<[key |-> key, shift |-> held \cap Shifts # {},
                    ctrl |-> held \cap Ctrls # {}]>>
            ELSE <<>>)
    /\ held' = IF key = "pause" THEN held ELSE held \cup {key}
    /\ UNCHANGED driver

Release(key, numlock) ==
    /\ key \in held
    /\ Send(Prefix(key) \o <<Up(Code(key))>> \o FakeAfter(key, numlock), <<>>)
    /\ held' = held \ {key}
    /\ UNCHANGED driver

-------------------------------------------------------------------------------
(* The driver                                                               *)

\* keyboard_init, at the start of the installer and of each terminal session.
KeyboardInit ==
    /\ ~listening
    /\ shift' = FALSE /\ ctrl' = FALSE /\ caps' = FALSE /\ ext' = FALSE
    /\ UNCHANGED <<held, queue, listening, answer, typed, overrun>>

\* keyboard_get_key is called.
GetKey ==
    /\ ~listening
    /\ listening' = TRUE
    /\ answer' = NoKey
    /\ UNCHANGED <<held, queue, shift, ctrl, caps, ext, typed, overrun>>

Returned(key) ==
    /\ answer' = [key |-> key, shift |-> shift, ctrl |-> ctrl, caps |-> caps]
    /\ listening' = FALSE
    /\ typed' = IF typed = <<>> THEN typed ELSE Tail(typed)

Ignored == UNCHANGED <<listening, answer, typed>>

\* Mutant of TakeRelease: a release leaves the prefix pending.
TakeReleaseKeepExt(byte) ==
    /\ shift' = IF byte.code \in Shifts THEN FALSE ELSE shift
    /\ ctrl' = IF byte.code = "ctrl" THEN FALSE ELSE ctrl
    /\ UNCHANGED <<caps, ext>>
    /\ Ignored

TakeRelease(byte) ==
    /\ shift' = IF byte.code \in Shifts THEN FALSE ELSE shift
    /\ ctrl' = IF byte.code = "ctrl" THEN FALSE ELSE ctrl
    /\ ext' = FALSE
    /\ UNCHANGED caps
    /\ Ignored

\* Mutant of TakeExtended: looks at the modifiers before the prefix.
TakeExtendedAsPlain(byte) ==
    /\ shift' = (shift \/ byte.code \in Shifts)
    /\ ctrl' = (ctrl \/ byte.code = "ctrl")
    /\ ext' = FALSE
    /\ UNCHANGED caps
    /\ IF byte.code = "up" THEN Returned("up") ELSE Ignored

\* After a prefix only the arrows mean something.
TakeExtended(byte) ==
    /\ ext' = FALSE
    /\ UNCHANGED <<shift, ctrl, caps>>
    /\ IF byte.code = "up" THEN Returned("up") ELSE Ignored

\* Mutant of TakePlain: a modifier is returned as a key.
TakePlainAny(byte) ==
    /\ shift' = (shift \/ byte.code \in Shifts)
    /\ ctrl' = (ctrl \/ byte.code = "ctrl")
    /\ caps' = IF byte.code = "caps" THEN ~caps ELSE caps
    /\ ext' = FALSE
    /\ Returned(byte.code)

TakePlain(byte) ==
    /\ shift' = (shift \/ byte.code \in Shifts)
    /\ ctrl' = (ctrl \/ byte.code = "ctrl")
    /\ caps' = IF byte.code = "caps" THEN ~caps ELSE caps
    /\ ext' = FALSE
    /\ IF byte.code \in {"letter", "slash"} THEN Returned(byte.code) ELSE Ignored

\* One round of the loop of keyboard_get_key.
TakeByte ==
    /\ listening
    /\ queue # <<>>
    /\ queue' = Tail(queue)
    /\ UNCHANGED <<held, overrun>>
    /\ LET byte == Head(queue)
       IN \/ /\ byte = E0
             /\ ext' = TRUE
             /\ UNCHANGED <<shift, ctrl, caps>>
             /\ Ignored
          \/ byte # E0 /\ byte.up /\ TakeRelease(byte)
          \/ ~byte.up /\ ext /\ TakeExtended(byte)
          \/ ~byte.up /\ ~ext /\ TakePlain(byte)

KeyboardNext ==
    \/ \E key \in Keys, numlock \in BOOLEAN : Press(key, numlock) \/ Release(key, numlock)
    \/ KeyboardInit \/ GetKey \/ TakeByte

KeyboardSpec == KeyboardAtRest /\ [][KeyboardNext]_keyboardVars

-------------------------------------------------------------------------------
(* Properties                                                               *)

\* The codes of the bytes that are sent.
Codes == {"lshift", "rshift", "ctrl", "caps", "letter", "slash", "up", "e0", "e1"}

\* Types.
KeyboardTypeOK ==
    /\ held \subseteq Keys
    /\ \A i \in DOMAIN queue : queue[i] \in [code : Codes, up : BOOLEAN]
    /\ shift \in BOOLEAN /\ ctrl \in BOOLEAN /\ caps \in BOOLEAN
    /\ ext \in BOOLEAN /\ listening \in BOOLEAN
    /\ answer.key \in Meaningful \cup {"none"}
    /\ \A i \in DOMAIN typed : typed[i].key \in Meaningful
    /\ overrun \in BOOLEAN

\* Each key returned is the next one that was pressed, and it comes back with
\* shift or control only if that key was down at the press: bytes of other keys,
\* prefixes and pretended shifts in between do not turn one key into another.
\* (A release that is lost leaves its modifier set.)
KeysAsTyped ==
    [][listening /\ ~listening' =>
          /\ typed # <<>>
          /\ answer'.key = Head(typed).key
          /\ answer'.shift => Head(typed).shift \/ overrun
          /\ answer'.ctrl => Head(typed).ctrl \/ overrun]_keyboardVars

\* When every byte has been read, every key pressed that means something has been
\* returned and no prefix waits for the next key; when no key is down either, the
\* driver knows of no modifier, unless a release was lost.
NothingLeftOver ==
    queue = <<>> =>
        /\ typed = <<>>
        /\ ~ext
        /\ held = {} => (~shift /\ ~ctrl) \/ overrun
===============================================================================
