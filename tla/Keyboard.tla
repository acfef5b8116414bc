------------------------------- MODULE Keyboard -------------------------------
(***************************************************************************)
(* The keyboard driver of B22CS052/Helpful (kbd.c): kbdgetc, one byte of   *)
(* the controller at a time, and the keyboard it listens to, with keys     *)
(* that are held, repeated and released while bytes wait in the            *)
(* controller.                                                             *)
(*                                                                         *)
(* A character is its kind ("lower", "upper", "ctl", "space", ...): which  *)
(* letter it is matters only to the chords and to the Dvorak table.  Left  *)
(* out: NumLock and ScrollLock, which nothing reads, the Hindi map, which  *)
(* nothing uses, and up_key_used, which changes only on byte 0xE2, the     *)
(* release of a key no keyboard has.                                       *)
(***************************************************************************)
EXTENDS Integers, Sequences, FiniteSets

CONSTANTS
    Keys,           \* bound: the keys that are pressed
    MaxHeld,        \* bound: the keys that are down at once
    MaxBytes,       \* bound: how many bytes the controller holds
    MaxTicks,       \* bound: how long the clock runs
    DOUBLE_PRESS,   \* ticks between the two presses of a double Shift
    SK_tq           \* ticks sticky keys stay enabled

Letters   == {"A", "C", "D", "E", "H", "P", "S"}
Modifiers == {"LSHIFT", "RSHIFT", "LCTL", "RCTL", "ALT", "CAPS"}
AllKeys   == Letters \cup Modifiers \cup {"SPACE", "ENTER", "TAB", "BKSP", "KP8", "UP"}
Bits      == {"SHIFT", "CTL", "ALT", "CAPSLOCK", "E0ESC"}
Kinds     == {"none", "lower", "upper", "ctl", "greek", "space", "under", "brace", "newline",
              "return", "tab", "backspace", "digit", "punct", "up"}

ASSUME KeysAssumption == Keys \subseteq AllKeys
ASSUME TimeAssumption == {MaxHeld, MaxBytes, MaxTicks, DOUBLE_PRESS, SK_tq} \subseteq Nat

(* The keys whose code is another key's after an 0xE0.                     *)
Base(k)     == CASE k = "RCTL" -> "LCTL" [] k = "UP" -> "KP8" [] OTHER -> k
Extended(k) == CASE k = "LCTL" -> "RCTL" [] k = "KP8" -> "UP" [] OTHER -> k
E0          == [code |-> "E0", up |-> FALSE]
Bytes(k, up) ==
    (IF Base(k) = k THEN <<>> ELSE <<E0>>) \o << [code |-> Base(k), up |-> up] >>

VARIABLES
    held,           \* the keys that are down
    bytes,          \* what the controller has sent and the driver not read
    ticks,          \* the clock
    shift,          \* the modifiers the driver believes in
    pascal_case, camel_case, snake_case, encryption_mode,
    devil_mode, A_mode, is_dvorak, sk_enabled, capsActive,
    space_pressed, new_line_pressed, last_shift_press,
    out             \* what kbdgetc returned last

outside == <<held, ticks>>
cases   == <<pascal_case, camel_case, snake_case>>
sticky  == <<sk_enabled, capsActive, last_shift_press>>
modes   == <<encryption_mode, devil_mode, A_mode, is_dvorak>>
marks   == <<space_pressed, new_line_pressed>>
vars    == <<outside, bytes, shift, cases, sticky, modes, marks, out>>

Nothing == [class |-> "char", c |-> "none"]       \* return 0

Init ==
    /\ held = {} /\ bytes = <<>> /\ ticks = 0 /\ shift = {}
    /\ pascal_case = FALSE /\ camel_case = FALSE /\ snake_case = FALSE
    /\ sk_enabled = FALSE /\ capsActive = FALSE /\ last_shift_press = 0
    /\ encryption_mode = FALSE /\ devil_mode = FALSE /\ A_mode = FALSE /\ is_dvorak = FALSE
    /\ space_pressed = FALSE /\ new_line_pressed = FALSE
    /\ out = Nothing

-----------------------------------------------------------------------------
(* The typist, the keyboard's own repeat, and the clock.                   *)

Press(k) ==
    /\ Len(bytes) < MaxBytes
    /\ Cardinality(held \cup {k}) <= MaxHeld
    /\ held' = held \cup {k}
    /\ bytes' = bytes \o Bytes(k, FALSE)
    /\ UNCHANGED <<ticks, shift, cases, sticky, modes, marks, out>>

Release(k) ==
    /\ k \in held
    /\ Len(bytes) < MaxBytes
    /\ held' = held \ {k}
    /\ bytes' = bytes \o Bytes(k, TRUE)
    /\ UNCHANGED <<ticks, shift, cases, sticky, modes, marks, out>>

Tick ==
    /\ ticks < MaxTicks
    /\ ticks' = ticks + 1
    /\ UNCHANGED <<held, bytes, shift, cases, sticky, modes, marks, out>>

-----------------------------------------------------------------------------
(* kbd.h's shiftcode                                                       *)
shiftcode(k) ==
    CASE k \in {"LCTL", "RCTL"} -> {"CTL"}
      [] k \in {"LSHIFT", "RSHIFT"} -> {"SHIFT"}
      [] k = "ALT" -> {"ALT"}
      [] OTHER -> {}

(* charcode[shift & (CTL | SHIFT)][k]: normalmap, shiftmap and ctlmap.     *)
charcode(bits, k) ==
    CASE k = "H" /\ "CTL" \in bits -> "backspace"
      [] k \in Letters /\ ~(k = "H" /\ "CTL" \in bits) -> (IF "CTL" \in bits THEN "ctl" ELSE IF "SHIFT" \in bits THEN "upper" ELSE "lower")
      [] k = "ENTER" -> (IF "CTL" \in bits THEN "return" ELSE "newline")
      [] k = "UP" -> "up"
      [] k \in Modifiers \/ "CTL" \in bits -> "none"
      [] k = "SPACE" -> "space"
      [] k = "TAB" -> "tab"
      [] k = "BKSP" -> "backspace"
      [] k = "KP8" -> "digit"

Swap(c)  == CASE c = "lower" -> "upper" [] c = "upper" -> "lower" [] OTHER -> c
Upper(c) == IF c = "lower" THEN "upper" ELSE c

(* Pascal and camel case look at the character before; Caps Lock applies   *)
(* when neither is on.                                                     *)
Cased(c) ==
    CASE pascal_case' -> (IF space_pressed \/ new_line_pressed THEN Swap(c) ELSE IF c = "upper" THEN "lower" ELSE c)
      [] camel_case' /\ ~pascal_case' -> (IF space_pressed THEN Swap(c) ELSE IF c = "upper" THEN "lower" ELSE c)
      [] OTHER -> IF "CAPSLOCK" \in shift' THEN Swap(c) ELSE c

(* The Dvorak table: letters map to letters of the same case but for some, *)
(* here 'e', which are punctuation; '_' maps to '{'.                       *)
Dvorak(c, k) ==
    CASE c = "under" -> "brace"
      [] c \in {"lower", "upper"} /\ k = "E" -> "punct"
      [] OTHER -> c

Layout(c, k) == IF is_dvorak' THEN Dvorak(c, k) ELSE c
RegularCaps(c) == IF ~sk_enabled' /\ "CAPSLOCK" \in shift' THEN Swap(c) ELSE c
StickyCaps(c) == IF sk_enabled' /\ capsActive' THEN Upper(c) ELSE c
Snake(c) == IF c = "space" /\ snake_case' THEN "under" ELSE c

(* A key in devil mode: four keys swapped, the others with their case      *)
(* reversed or, with Ctrl, moved past the letters.                         *)
Anomaly(k) ==
    LET c == charcode({}, k)
        swapped == [SPACE |-> "tab", TAB |-> "space", BKSP |-> "newline", ENTER |-> "backspace"]
    IN  IF A_mode' /\ k \in DOMAIN swapped
        THEN [class |-> "char", c |-> swapped[k]]
        ELSE [class |-> "devil",
              c |-> IF "CTL" \in shift' /\ c = "lower" THEN "greek"
                    ELSE IF A_mode' THEN Swap(c) ELSE c]

(* Mutant of Enciphers: pascal case is tested before the cipher mode.      *)
CasesBeforeCipher == ~devil_mode' /\ encryption_mode' /\ ~pascal_case'

Enciphers == ~devil_mode' /\ encryption_mode'

(* The second half of kbdgetc, from "shift |= shiftcode[data]" on.  The    *)
(* modes it reads are those the first half has left, hence the primes.     *)
Translate(k) ==
    LET mods == (shift \ {"E0ESC"}) \cup shiftcode(k)
        c    == Cased(charcode(shift', k))
    IN  /\ shift' = IF k # "CAPS" THEN mods
                    ELSE IF "CAPSLOCK" \in mods THEN mods \ {"CAPSLOCK"}
                    ELSE mods \cup {"CAPSLOCK"}
        /\ \/ devil_mode' /\ out' = Anomaly(k) /\ UNCHANGED marks
           \/ /\ Enciphers
              /\ out' = [class |-> "cipher", c |-> charcode(shift', k)]
              /\ UNCHANGED marks
           \/ /\ ~devil_mode' /\ ~Enciphers
              /\ space_pressed' = (c = "space")
              /\ new_line_pressed' = (c = "newline")
              /\ out' = [class |-> "char",
                         c |-> StickyCaps(RegularCaps(Layout(Snake(c), k)))]

-----------------------------------------------------------------------------
(* The first half: one disjunct per branch of its else-if chain.           *)

Read(b) == bytes # <<>> /\ b = Head(bytes) /\ bytes' = Tail(bytes) /\ UNCHANGED outside

CasesOff == pascal_case' = FALSE /\ camel_case' = FALSE /\ snake_case' = FALSE

Returns(class) == out' = [class |-> class, c |-> "none"]

Escape ==
    /\ Read(E0)
    /\ shift' = shift \cup {"E0ESC"}
    /\ out' = Nothing
    /\ UNCHANGED <<cases, sticky, modes, marks>>

(* Mutant of KeyUp: the bits are toggled, not cleared.                     *)
KeyUpToggles(k) ==
    LET code == shiftcode(IF "E0ESC" \in shift THEN Extended(k) ELSE k) IN
    /\ Read([code |-> k, up |-> TRUE])
    /\ shift' = ((shift \cup code) \ (shift \cap code)) \ {"E0ESC"}
    /\ out' = Nothing
    /\ UNCHANGED <<cases, sticky, modes, marks>>

KeyUp(k) ==
    /\ Read([code |-> k, up |-> TRUE])
    /\ shift' = shift \ (shiftcode(IF "E0ESC" \in shift THEN Extended(k) ELSE k) \cup {"E0ESC"})
    /\ out' = Nothing
    /\ UNCHANGED <<cases, sticky, modes, marks>>

ExtendedKey(k) ==
    /\ Read([code |-> k, up |-> FALSE])
    /\ "E0ESC" \in shift
    /\ UNCHANGED <<cases, sticky, modes>>
    /\ Translate(Extended(k))

(* A key on its own code, with the modifiers a chord needs.                *)
Chord(k, mods) ==
    /\ Read([code |-> k, up |-> FALSE])
    /\ "E0ESC" \notin shift
    /\ mods \subseteq shift

Guide ==
    /\ Chord("H", {"CTL", "SHIFT"})
    /\ Returns("guide")
    /\ UNCHANGED <<shift, cases, sticky, modes, marks>>

(* Mutant of PascalCase: camel case stays on.                              *)
PascalKeepsCamel ==
    /\ Chord("P", {"CTL", "SHIFT"})
    /\ pascal_case' = ~pascal_case
    /\ snake_case' = FALSE
    /\ new_line_pressed' = TRUE
    /\ out' = Nothing
    /\ UNCHANGED <<shift, sticky, modes, space_pressed, camel_case>>

PascalCase ==
    /\ Chord("P", {"CTL", "SHIFT"})
    /\ pascal_case' = ~pascal_case
    /\ camel_case' = FALSE /\ snake_case' = FALSE
    /\ new_line_pressed' = TRUE
    /\ out' = Nothing
    /\ UNCHANGED <<shift, sticky, modes, space_pressed>>

CamelCase ==
    /\ Chord("C", {"CTL", "SHIFT"})
    /\ camel_case' = ~camel_case
    /\ pascal_case' = FALSE /\ snake_case' = FALSE
    /\ out' = Nothing
    /\ UNCHANGED <<shift, sticky, modes, marks>>

SnakeCase ==
    /\ Chord("S", {"CTL", "SHIFT"})
    /\ snake_case' = ~snake_case
    /\ pascal_case' = FALSE /\ camel_case' = FALSE
    /\ out' = Nothing
    /\ UNCHANGED <<shift, sticky, modes, marks>>

DevilMode ==
    /\ Chord("D", {"CTL", "SHIFT"})
    /\ CasesOff
    /\ encryption_mode' = FALSE
    /\ devil_mode' = ~devil_mode
    /\ A_mode' = ~A_mode
    /\ Returns("devil")
    /\ UNCHANGED <<shift, sticky, is_dvorak, marks>>

(* Ctrl-E goes on to be translated as a key in the mode it has just set.   *)
Enigma ==
    /\ Chord("E", {"CTL"})
    /\ CasesOff
    /\ encryption_mode' = ~encryption_mode
    /\ UNCHANGED <<devil_mode, A_mode, is_dvorak, sticky>>
    /\ Translate("E")

(* Mutant of Reset: A_mode is forgotten.                                   *)
ResetKeepsAnomaly ==
    /\ Chord("SPACE", {"CTL", "SHIFT", "ALT"})
    /\ CasesOff
    /\ encryption_mode' = FALSE /\ devil_mode' = FALSE /\ is_dvorak' = FALSE
    /\ sk_enabled' = FALSE
    /\ new_line_pressed' = FALSE
    /\ out' = [class |-> "char", c |-> "newline"]
    /\ UNCHANGED <<shift, capsActive, last_shift_press, space_pressed, A_mode>>

Reset ==
    /\ Chord("SPACE", {"CTL", "SHIFT", "ALT"})
    /\ CasesOff
    /\ encryption_mode' = FALSE /\ devil_mode' = FALSE /\ A_mode' = FALSE /\ is_dvorak' = FALSE
    /\ sk_enabled' = FALSE
    /\ new_line_pressed' = FALSE
    /\ out' = [class |-> "char", c |-> "newline"]
    /\ UNCHANGED <<shift, capsActive, last_shift_press, space_pressed>>

(* sk_time = ticks stands after a return: sk_time keeps its initial 0.     *)
StickyKeys ==
    /\ Chord("S", {"CTL"}) /\ "SHIFT" \notin shift
    /\ sk_enabled' = ~sk_enabled
    /\ Returns("sticky")
    /\ UNCHANGED <<shift, cases, modes, marks, capsActive, last_shift_press>>

DvorakMode ==
    /\ Chord("D", {"CTL"}) /\ "SHIFT" \notin shift
    /\ is_dvorak' = ~is_dvorak
    /\ Returns("layout")
    /\ UNCHANGED <<shift, cases, sticky, encryption_mode, devil_mode, A_mode, marks>>

TimedOut == ticks >= SK_tq

(* Any other key: the timeout of the sticky keys or, before it, their      *)
(* double Shift.                                                           *)
IsChord(k) ==
    \/ {"CTL", "SHIFT"} \subseteq shift /\ k \in {"H", "P", "C"}
    \/ "CTL" \in shift /\ k \in {"S", "D", "E"}
    \/ {"CTL", "SHIFT", "ALT"} \subseteq shift /\ k = "SPACE"

OtherKey(k) ==
    LET double == sk_enabled /\ ~TimedOut /\ k \in {"LSHIFT", "RSHIFT"} IN
    /\ Chord(k, {}) /\ ~IsChord(k)
    /\ sk_enabled' = (sk_enabled /\ ~TimedOut)
    /\ capsActive' = IF double /\ last_shift_press # 0 /\ ticks - last_shift_press < DOUBLE_PRESS
                     THEN ~capsActive ELSE capsActive
    /\ last_shift_press' = IF double THEN ticks ELSE last_shift_press
    /\ UNCHANGED <<cases, modes>>
    /\ Translate(k)

-----------------------------------------------------------------------------
Codes == {Base(k) : k \in Keys}

Kbdgetc ==
    \/ Escape \/ Guide \/ PascalCase \/ CamelCase \/ SnakeCase \/ DevilMode \/ Enigma
    \/ Reset \/ StickyKeys \/ DvorakMode
    \/ \E k \in Codes : KeyUp(k) \/ ExtendedKey(k) \/ OtherKey(k)

Next == Tick \/ Kbdgetc \/ \E k \in Keys : Press(k) \/ Release(k)

Spec == Init /\ [][Next]_vars
-----------------------------------------------------------------------------
TypeOK ==
    /\ held \subseteq Keys
    /\ bytes \in Seq([code : Codes \cup {"E0"}, up : BOOLEAN])
    /\ ticks \in 0 .. MaxTicks /\ last_shift_press \in 0 .. MaxTicks
    /\ shift \subseteq Bits
    /\ <<cases, modes, marks>> \in (BOOLEAN \X BOOLEAN \X BOOLEAN)
         \X (BOOLEAN \X BOOLEAN \X BOOLEAN \X BOOLEAN) \X (BOOLEAN \X BOOLEAN)
    /\ sk_enabled \in BOOLEAN /\ capsActive \in BOOLEAN
    /\ out \in [class : {"char", "cipher", "devil", "guide", "sticky", "layout"}, c : Kinds]

(* Once every byte is read, a modifier the driver believes in is held      *)
(* down: no order of presses, releases, repeats and chords, and no 0xE0    *)
(* prefix, leaves one stuck.                                               *)
NoStuckModifier ==
    bytes = <<>> =>
      /\ "SHIFT" \in shift => held \cap {"LSHIFT", "RSHIFT"} # {}
      /\ "CTL" \in shift => held \cap {"LCTL", "RCTL"} # {}
      /\ "ALT" \in shift => "ALT" \in held
      /\ "E0ESC" \notin shift

(* Why: a modifier is in force, or about to be because its press waits at  *)
(* the controller, only if one of its keys is down or a release of one     *)
(* waits further back; and an 0xE0 never waits without its code.           *)
HeldBits == {"SHIFT", "CTL", "ALT"}
Owners   == [SHIFT |-> {"LSHIFT", "RSHIFT"}, CTL |-> {"LCTL", "RCTL"}, ALT |-> {"ALT"}]

Sets(b, bit)   == ~b.up /\ bit \in shiftcode(b.code)
Clears(b, bit) == b.up /\ bit \in shiftcode(b.code)

Owned(bit, i) ==
    \/ held \cap Owners[bit] # {}
    \/ \E j \in i .. Len(bytes) : Clears(bytes[j], bit)

ModifierInv ==
    /\ bytes \in Seq([code : Codes \cup {"E0"}, up : BOOLEAN])
    /\ held \subseteq Keys
    /\ \A bit \in HeldBits :
         /\ bit \in shift => Owned(bit, 1)
         /\ \A i \in 1 .. Len(bytes) : Sets(bytes[i], bit) => Owned(bit, i + 1)
    /\ bytes # <<>> => bytes[Len(bytes)] # E0
    /\ "E0ESC" \in shift => bytes # <<>>

(* One case mode at a time, whatever chords follow one another.            *)
OneCaseMode ==
    /\ ~(pascal_case /\ camel_case)
    /\ ~(camel_case /\ snake_case)
    /\ ~(snake_case /\ pascal_case)

(* The anomalies of devil mode are on exactly in devil mode.               *)
AnomalyIsDevil == A_mode = devil_mode

(* From the moment the cipher mode is on, and until it is off again or the *)
(* devil takes over, no character reaches the line in clear.               *)
CipherHidesKeys ==
    [][ (encryption_mode /\ encryption_mode' /\ ~devil_mode /\ bytes' # bytes
         /\ out'.class = "char") => out'.c = "none" ]_vars

(* "Devil Mode entered----No way to exit!!!" (console.c).                  *)
DevilHasNoExit == [][devil_mode => devil_mode']_vars

(* "Handle regular CAPSLOCK": with Caps Lock on and no mode or modifier, a *)
(* letter is a capital.                                                    *)
CapsLockCapitalises ==
    [][ ( /\ bytes # <<>> /\ bytes' = Tail(bytes)
          /\ Head(bytes) \in [code : Letters \ {"E"}, up : {FALSE}]
          /\ shift = {"CAPSLOCK"}
          /\ ~pascal_case /\ ~camel_case /\ ~encryption_mode /\ ~devil_mode /\ ~sk_enabled )
        => out'.c = "upper" ]_vars

(* "Snale Case Mode {hello_world_for_example}" (guide): in snake case a    *)
(* space is an underscore, whatever the layout.                            *)
SnakeUnderscores ==
    [][ ( /\ bytes # <<>> /\ bytes' = Tail(bytes)
          /\ Head(bytes) = [code |-> "SPACE", up |-> FALSE]
          /\ shift = {} /\ snake_case /\ ~encryption_mode /\ ~devil_mode )
        => out'.c = "under" ]_vars
=============================================================================
