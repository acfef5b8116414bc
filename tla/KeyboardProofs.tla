----------------------------- MODULE KeyboardProofs -----------------------------
(***************************************************************************)
(* For any set of keys, however many bytes the controller holds and        *)
(* however long the clock runs: no modifier is stuck, and the cipher mode  *)
(* lets no character through in clear.                                     *)
(***************************************************************************)
EXTENDS Keyboard, SequenceTheorems, TLAPS

(* A key and the one that shares its code set the same modifier.           *)
LEMMA SameModifier ==
    /\ \A k \in AllKeys : shiftcode(Extended(k)) = shiftcode(k) /\ shiftcode(Base(k)) = shiftcode(k)
    /\ shiftcode("E0") = {}
  BY DEF AllKeys, Letters, Modifiers, shiftcode, Extended, Base

(* Every code on the wire is a key.                                        *)
LEMMA CodesAreKeys == Codes \subseteq AllKeys
  BY KeysAssumption DEF Codes, AllKeys, Letters, Modifiers, Base

(* The bits a key sets are owned by it.                                    *)
LEMMA OwnerSets ==
    \A k \in AllKeys : \A bit \in HeldBits : bit \in shiftcode(k) => k \in Owners[bit]
  BY DEF AllKeys, Letters, Modifiers, shiftcode, HeldBits, Owners

(* What translating a key can do to the modifiers.                         *)
LEMMA TranslateShift ==
    ASSUME NEW k, Translate(k)
    PROVE  /\ "E0ESC" \notin shift'
           /\ \A bit \in HeldBits : bit \in shift' => bit \in shift \/ bit \in shiftcode(k)
<1> DEFINE mods == (shift \ {"E0ESC"}) \cup shiftcode(k)
<1>1. "E0ESC" \notin mods
  BY DEF shiftcode
<1>2. shift' = mods \/ shift' = mods \ {"CAPSLOCK"} \/ shift' = mods \cup {"CAPSLOCK"}
  BY DEF Translate
<1>3. QED
  BY <1>1, <1>2 DEF HeldBits

(* What reading a byte does to the modifiers: only the press of an owner   *)
(* sets one, its release clears it, only 0xE0 leaves an escape.            *)
ShiftFollows ==
    /\ bytes # <<>> /\ bytes' = Tail(bytes) /\ held' = held
    /\ "E0ESC" \in shift' => Head(bytes) = E0
    /\ \A bit \in HeldBits :
         bit \in shift' => Sets(Head(bytes), bit) \/ (bit \in shift /\ ~Clears(Head(bytes), bit))

(* A key that is not a release: what it may set is its own bit.            *)
LEMMA MakeShift ==
    ASSUME NEW k, Read([code |-> k, up |-> FALSE]),
           "E0ESC" \notin shift',
           \A bit \in HeldBits : bit \in shift' => bit \in shift \/ bit \in shiftcode(k)
    PROVE  ShiftFollows
  BY DEF ShiftFollows, Read, outside, Sets, Clears

LEMMA KeyUpShift ==
    ASSUME NEW k \in Codes, KeyUp(k) PROVE ShiftFollows
<1>1. shift' = shift \ (shiftcode(k) \cup {"E0ESC"})
  BY SameModifier, CodesAreKeys DEF KeyUp
<1>2. Read([code |-> k, up |-> TRUE])
  BY DEF KeyUp
<1>3. QED
  BY <1>1, <1>2 DEF ShiftFollows, Read, outside, Clears

LEMMA ChordShift ==
    ASSUME NEW k, NEW mods, Chord(k, mods), shift' = shift PROVE ShiftFollows
  BY MakeShift DEF Chord

LEMMA ReadShift ==
    ASSUME Kbdgetc PROVE ShiftFollows
<1>1. CASE Escape
  <2>1. Read(E0) /\ shift' = shift \cup {"E0ESC"}
    BY <1>1 DEF Escape
  <2>2. QED
    BY <2>1 DEF ShiftFollows, Read, outside, HeldBits, Clears, E0
<1>2. CASE Guide
  BY <1>2, ChordShift DEF Guide
<1>3. CASE PascalCase \/ CamelCase \/ SnakeCase
  BY <1>3, ChordShift DEF PascalCase, CamelCase, SnakeCase
<1>4. CASE DevilMode \/ Reset \/ StickyKeys \/ DvorakMode
  BY <1>4, ChordShift DEF DevilMode, Reset, StickyKeys, DvorakMode
<1>5. CASE Enigma
  BY <1>5, TranslateShift, MakeShift DEF Enigma, Chord
<1>6. ASSUME NEW k \in Codes, KeyUp(k) PROVE ShiftFollows
  BY <1>6, KeyUpShift
<1>7. ASSUME NEW k \in Codes, ExtendedKey(k) PROVE ShiftFollows
  <2>1. shiftcode(Extended(k)) = shiftcode(k)
    BY SameModifier, CodesAreKeys
  <2>2. QED
    BY <1>7, <2>1, TranslateShift, MakeShift DEF ExtendedKey
<1>8. ASSUME NEW k \in Codes, OtherKey(k) PROVE ShiftFollows
  BY <1>8, TranslateShift, MakeShift DEF OtherKey, Chord
<1>9. QED
  BY <1>1, <1>2, <1>3, <1>4, <1>5, <1>6, <1>7, <1>8 DEF Kbdgetc

-----------------------------------------------------------------------------
(* The driver reads a byte.                                                *)
LEMMA ReadStep ==
    ASSUME ModifierInv, Kbdgetc PROVE ModifierInv'
<1> DEFINE B == [code : Codes \cup {"E0"}, up : BOOLEAN]
<1>1. ShiftFollows
  BY ReadShift
<1>2. bytes \in Seq(B) /\ bytes # <<>> /\ bytes' = Tail(bytes) /\ held' = held
  BY <1>1 DEF ShiftFollows, ModifierInv
<1>3. /\ bytes' \in Seq(B) /\ Len(bytes') = Len(bytes) - 1
      /\ \A i \in 1 .. Len(bytes') : bytes'[i] = bytes[i + 1]
      /\ Len(bytes) \in Nat \ {0} /\ Head(bytes) = bytes[1]
  BY <1>2
<1>4. ASSUME NEW bit \in HeldBits, NEW i \in 2 .. Len(bytes) + 1, Owned(bit, i)
      PROVE  Owned(bit, i - 1)'
  <2>1. CASE held \cap Owners[bit] # {}
    BY <2>1, <1>2 DEF Owned
  <2>2. CASE \E j \in i .. Len(bytes) : Clears(bytes[j], bit)
    <3>1. PICK j \in i .. Len(bytes) : Clears(bytes[j], bit)
      BY <2>2
    <3>2. j - 1 \in i - 1 .. Len(bytes') /\ bytes'[j - 1] = bytes[j]
      BY <3>1, <1>3
    <3>3. QED
      BY <3>1, <3>2 DEF Owned, Clears
  <2>3. QED
    BY <1>4, <2>1, <2>2 DEF Owned
<1>5. ASSUME NEW bit \in HeldBits, bit \in shift' PROVE Owned(bit, 1)'
  <2>1. CASE Sets(bytes[1], bit)
    BY <2>1, <1>3, <1>4 DEF ModifierInv
  <2>2. CASE bit \in shift /\ ~Clears(bytes[1], bit)
    <3>1. Owned(bit, 1)
      BY <2>2 DEF ModifierInv
    <3>2. Owned(bit, 2)
      BY <3>1, <2>2, <1>3 DEF Owned
    <3>3. QED
      BY <3>2, <1>3, <1>4
  <2>3. QED
    BY <1>1, <1>3, <1>5, <2>1, <2>2 DEF ShiftFollows
<1>6. ASSUME NEW bit \in HeldBits, NEW i \in 1 .. Len(bytes'), Sets(bytes'[i], bit)
      PROVE  Owned(bit, i + 1)'
  <2>1. i + 1 \in 1 .. Len(bytes) /\ Sets(bytes[i + 1], bit)
    BY <1>3, <1>6
  <2>2. Owned(bit, i + 2)
    BY <2>1 DEF ModifierInv
  <2>3. QED
    BY <2>1, <2>2, <1>3, <1>4
<1>7. bytes' # <<>> => bytes'[Len(bytes')] # E0
  BY <1>2, <1>3 DEF ModifierInv
<1>8. "E0ESC" \in shift' => bytes' # <<>>
  <2> SUFFICES ASSUME "E0ESC" \in shift', bytes' = <<>> PROVE FALSE
    OBVIOUS
  <2>1. bytes[1] = E0 /\ Len(bytes) = 1
    BY <1>1, <1>3 DEF ShiftFollows
  <2>2. QED
    BY <2>1, <1>2 DEF ModifierInv
<1>9. QED
  BY <1>2, <1>3, <1>5, <1>6, <1>7, <1>8 DEF ModifierInv, Sets

(* One byte after another makes two.                                       *)
LEMMA PairConcat ==
    ASSUME NEW x, NEW y PROVE <<x>> \o <<y>> = <<x, y>>
<1> DEFINE S == {x, y}
           s == <<x>>
           t == <<y>>
           u == <<x, y>>
<1>1. s \in Seq(S) /\ t \in Seq(S) /\ u \in Seq(S) /\ Len(s) = 1 /\ Len(t) = 1 /\ Len(u) = 2
  OBVIOUS
<1>2. s[1] = x /\ t[1] = y /\ u[1] = x /\ u[2] = y
  OBVIOUS
<1> HIDE DEF S, s, t, u
<1>3. s \o t \in Seq(S) /\ Len(s \o t) = 2 /\ (s \o t)[1] = x /\ (s \o t)[2] = y
  BY <1>1, <1>2, ConcatProperties
<1>4. \A i \in 1 .. Len(s \o t) : (s \o t)[i] = u[i]
  BY <1>2, <1>3
<1>5. s \o t = u
  BY <1>1, <1>3, <1>4, SeqEqual
<1>6. QED
  BY <1>5 DEF s, t, u

(* What a key puts on the wire: its code, after 0xE0 if it is extended.    *)
LEMMA WireBytes ==
    ASSUME NEW k \in Keys, NEW up \in BOOLEAN
    PROVE  LET b == [code |-> Base(k), up |-> up]
           IN  /\ Bytes(k, up) = <<b>> \/ Bytes(k, up) = <<E0, b>>
               /\ b \in [code : Codes \cup {"E0"}, up : BOOLEAN] /\ b # E0
               /\ E0 \in [code : Codes \cup {"E0"}, up : BOOLEAN]
<1>1. Base(k) \in Codes /\ Base(k) # "E0"
  BY KeysAssumption DEF Codes, Base, AllKeys, Letters, Modifiers
<1>2. Bytes(k, up) = <<[code |-> Base(k), up |-> up]>>
      \/ Bytes(k, up) = <<E0, [code |-> Base(k), up |-> up]>>
  <2>1. CASE Base(k) = k
    BY <2>1 DEF Bytes
  <2>2. CASE Base(k) # k
    <3>1. Bytes(k, up) = <<E0>> \o << [code |-> Base(k), up |-> up] >>
      BY <2>2 DEF Bytes
    <3>2. QED
      BY <3>1, PairConcat
  <2>3. QED
    BY <2>1, <2>2
<1>3. QED
  BY <1>1, <1>2 DEF E0

(* The typist presses a key, or the keyboard repeats it, or it is released *)
(* and the release joins the queue: what is owned stays owned.             *)
LEMMA TypistStep ==
    ASSUME ModifierInv, NEW k \in Keys, Press(k) \/ Release(k) PROVE ModifierInv'
<1> DEFINE B == [code : Codes \cup {"E0"}, up : BOOLEAN]
<1>1. PICK up \in BOOLEAN :
        /\ bytes' = bytes \o Bytes(k, up)
        /\ held' = IF up THEN held \ {k} ELSE held \cup {k}
  BY DEF Press, Release
<1> DEFINE b == [code |-> Base(k), up |-> up]
<1>2. shift' = shift
  BY DEF Press, Release
<1>3. /\ bytes \in Seq(B) /\ held \subseteq Keys /\ k \in AllKeys
      /\ b \in B /\ b # E0 /\ E0 \in B
      /\ Bytes(k, up) = <<b>> \/ Bytes(k, up) = <<E0, b>>
  BY WireBytes, KeysAssumption DEF ModifierInv
<1>4. /\ bytes' \in Seq(B) /\ Len(bytes) \in Nat /\ Len(bytes') \in Nat /\ Len(bytes') > Len(bytes)
      /\ \A i \in 1 .. Len(bytes) : bytes'[i] = bytes[i]
      /\ \A i \in Len(bytes) + 1 .. Len(bytes') - 1 : bytes'[i] = E0
      /\ bytes'[Len(bytes')] = b
  <2>1. CASE Bytes(k, up) = <<b>>
    BY <2>1, <1>1, <1>3
  <2>2. CASE Bytes(k, up) = <<E0, b>>
    BY <2>2, <1>1, <1>3
  <2>3. QED
    BY <2>1, <2>2, <1>3
<1>5. \A bit \in HeldBits : bit \in shiftcode(b.code) <=> bit \in shiftcode(k)
  BY <1>3, SameModifier
<1>6. ASSUME NEW bit \in HeldBits, NEW i \in 1 .. Len(bytes) + 1, Owned(bit, i)
      PROVE  Owned(bit, i)'
  <2>1. CASE \E j \in i .. Len(bytes) : Clears(bytes[j], bit)
    <3>1. PICK j \in i .. Len(bytes) : Clears(bytes[j], bit)
      BY <2>1
    <3>2. j \in i .. Len(bytes') /\ bytes'[j] = bytes[j]
      BY <3>1, <1>4
    <3>3. QED
      BY <3>1, <3>2 DEF Owned, Clears
  <2>2. CASE held' \cap Owners[bit] # {}
    BY <2>2 DEF Owned
  <2>3. CASE held \cap Owners[bit] # {} /\ held' \cap Owners[bit] = {}
    <3>1. up = TRUE /\ k \in Owners[bit]
      BY <2>3, <1>1
    <3>2. bit \in shiftcode(k)
      BY <3>1, <1>3 DEF Owners, HeldBits, shiftcode
    <3>3. Clears(bytes'[Len(bytes')], bit)
      BY <3>1, <3>2, <1>4, <1>5 DEF Clears
    <3>4. QED
      BY <3>3, <1>4 DEF Owned, Clears
  <2>4. QED
    BY <1>6, <2>1, <2>2, <2>3 DEF Owned
<1>7. ASSUME NEW bit \in HeldBits, NEW i \in 1 .. Len(bytes'), Sets(bytes'[i], bit)
      PROVE  Owned(bit, i + 1)'
  <2>1. CASE i \in 1 .. Len(bytes)
    <3>1. Owned(bit, i + 1)
      BY <2>1, <1>4, <1>7 DEF ModifierInv, Sets
    <3>2. QED
      BY <3>1, <2>1, <1>4, <1>6
  <2>2. CASE i \in Len(bytes) + 1 .. Len(bytes') - 1
    BY <2>2, <1>4, <1>7, SameModifier DEF Sets, E0
  <2>3. CASE i = Len(bytes')
    <3>1. up = FALSE /\ k \in Owners[bit]
      BY <2>3, <1>3, <1>4, <1>5, <1>7, OwnerSets DEF Sets
    <3>2. held' \cap Owners[bit] # {}
      BY <3>1, <1>1
    <3>3. QED
      BY <3>2 DEF Owned
  <2>4. QED
    BY <2>1, <2>2, <2>3, <1>4
<1>8. \A bit \in HeldBits : bit \in shift' => Owned(bit, 1)'
  BY <1>2, <1>4, <1>6 DEF ModifierInv
<1>9. /\ held' \subseteq Keys
      /\ bytes' # <<>> => bytes'[Len(bytes')] # E0
      /\ "E0ESC" \in shift' => bytes' # <<>>
  <2>1. held' \subseteq Keys
    BY <1>1, <1>3
  <2>2. bytes' # <<>>
    BY <1>4
  <2>3. QED
    BY <2>1, <2>2, <1>3, <1>4
<1>10. QED
  BY <1>4, <1>7, <1>8, <1>9 DEF ModifierInv, Sets

(* Every step preserves the invariant.                                     *)
LEMMA StepModifier == ModifierInv /\ [Next]_vars => ModifierInv'
<1> SUFFICES ASSUME ModifierInv, [Next]_vars PROVE ModifierInv'
  OBVIOUS
<1>1. CASE Tick \/ UNCHANGED vars
  <2>1. UNCHANGED <<bytes, held, shift>>
    BY <1>1 DEF Tick, vars, outside
  <2>2. QED
    BY <2>1 DEF ModifierInv, Owned, Sets, Clears
<1>2. QED
  BY <1>1, ReadStep, TypistStep DEF Next

(* ... and it holds when the machine starts.                               *)
LEMMA InitModifier == Init => ModifierInv
  BY DEF Init, ModifierInv

-----------------------------------------------------------------------------
(* The reason why modifiers do not stick, for any queue and any keys.      *)
THEOREM ModifierInvariant == Spec => []ModifierInv
<1>1. QED
  BY InitModifier, StepModifier, PTL DEF Spec

(* When every byte is read, a modifier in force is held down.              *)
THEOREM ModifiersHeld == Spec => []NoStuckModifier
<1>1. ModifierInv => NoStuckModifier
  <2> SUFFICES ASSUME ModifierInv, bytes = <<>>
               PROVE  /\ "SHIFT" \in shift => held \cap {"LSHIFT", "RSHIFT"} # {}
                      /\ "CTL" \in shift => held \cap {"LCTL", "RCTL"} # {}
                      /\ "ALT" \in shift => "ALT" \in held
                      /\ "E0ESC" \notin shift
    BY DEF NoStuckModifier
  <2>1. ASSUME NEW bit \in HeldBits, bit \in shift PROVE held \cap Owners[bit] # {}
    BY <2>1 DEF ModifierInv, Owned
  <2>2. QED
    BY <2>1 DEF HeldBits, Owners, ModifierInv
<1>2. QED
  BY <1>1, ModifierInvariant, PTL

-----------------------------------------------------------------------------
(* In the cipher mode what kbdgetc returned last is no character in clear, *)
(* and the mode does not slip into devil mode.                             *)
Quiet == encryption_mode /\ ~devil_mode /\ out.class = "char" => out.c = "none"

QuietStep ==
    /\ Quiet'
    /\ encryption_mode /\ encryption_mode' /\ ~devil_mode => ~devil_mode'

(* A translated key is enciphered, or the cipher mode is off, or it is     *)
(* devil mode.                                                             *)
LEMMA TranslateQuiet ==
    ASSUME NEW k, Translate(k), devil_mode' = devil_mode PROVE QuietStep
<1>1. CASE devil_mode'
  BY <1>1 DEF QuietStep, Quiet
<1>2. CASE Enciphers
  <2>1. out'.class = "cipher"
    BY <1>2 DEF Translate, Enciphers
  <2>2. QED
    BY <2>1 DEF QuietStep, Quiet
<1>3. CASE ~devil_mode' /\ ~Enciphers
  BY <1>3 DEF QuietStep, Quiet, Enciphers
<1>4. QED
  BY <1>1, <1>2, <1>3

LEMMA StepQuiet ==
    ASSUME Quiet, [Next]_vars PROVE QuietStep
<1>1. CASE UNCHANGED <<modes, out>>
  BY <1>1 DEF QuietStep, Quiet, modes
<1>2. ASSUME UNCHANGED modes, out'.class # "char" \/ out'.c = "none" PROVE QuietStep
  BY <1>2 DEF QuietStep, Quiet, modes
<1>3. ASSUME NEW k \in Keys, Press(k) \/ Release(k) PROVE QuietStep
  BY <1>1, <1>3 DEF Press, Release
<1>4. CASE Tick \/ UNCHANGED vars
  BY <1>1, <1>4 DEF Tick, vars
<1>5. CASE Escape \/ PascalCase \/ CamelCase \/ SnakeCase
  BY <1>2, <1>5 DEF Escape, PascalCase, CamelCase, SnakeCase, Nothing
<1>6. ASSUME NEW k \in Codes, KeyUp(k) PROVE QuietStep
  BY <1>2, <1>6 DEF KeyUp, Nothing
<1>7. CASE Guide \/ StickyKeys
  BY <1>2, <1>7 DEF Guide, StickyKeys, Returns
<1>8. CASE DvorakMode
  BY <1>8 DEF DvorakMode, Returns, QuietStep, Quiet
<1>9. CASE DevilMode \/ Reset
  BY <1>9 DEF DevilMode, Reset, QuietStep, Quiet
<1>10. CASE Enigma
  BY <1>10, TranslateQuiet DEF Enigma
<1>11. ASSUME NEW k \in Codes, ExtendedKey(k) \/ OtherKey(k) PROVE QuietStep
  BY <1>11, TranslateQuiet DEF ExtendedKey, OtherKey, modes
<1>12. QED
  BY <1>3, <1>4, <1>5, <1>6, <1>7, <1>8, <1>9, <1>10, <1>11 DEF Next, Kbdgetc

(* From the moment the cipher mode is on no key reaches the line in clear, *)
(* until it is off again or the devil takes over.                          *)
THEOREM CipherHides == Spec => CipherHidesKeys
<1> DEFINE Hidden == (encryption_mode /\ encryption_mode' /\ ~devil_mode /\ bytes' # bytes
                       /\ out'.class = "char") => out'.c = "none"
<1>1. Init => Quiet
  BY DEF Init, Quiet
<1>2. Quiet /\ [Next]_vars => Quiet'
  BY StepQuiet DEF QuietStep
<1>3. Quiet /\ [Next]_vars => [Hidden]_vars
  BY StepQuiet DEF QuietStep, Quiet
<1>4. QED
  BY <1>1, <1>2, <1>3, PTL DEF Spec, CipherHidesKeys

-----------------------------------------------------------------------------
(* The chords for a case mode turn the other two off (kbdgetc).            *)
THEOREM CasesExclude == Spec => []OneCaseMode
<1>1. Init => OneCaseMode
  BY DEF Init, OneCaseMode
<1>2. OneCaseMode /\ [Next]_vars => OneCaseMode'
  <2> SUFFICES ASSUME OneCaseMode, [Next]_vars PROVE OneCaseMode'
    OBVIOUS
  <2>1. CASE UNCHANGED cases
    BY <2>1 DEF OneCaseMode, cases
  <2>2. CASE CasesOff
    BY <2>2 DEF OneCaseMode, CasesOff
  <2>3. CASE PascalCase \/ CamelCase \/ SnakeCase
    BY <2>3 DEF OneCaseMode, PascalCase, CamelCase, SnakeCase
  <2>4. ASSUME NEW k \in Keys, Press(k) \/ Release(k) PROVE UNCHANGED cases
    BY <2>4 DEF Press, Release
  <2>5. CASE Tick \/ UNCHANGED vars
    BY <2>1, <2>5 DEF Tick, vars
  <2>6. CASE Escape \/ Guide \/ StickyKeys \/ DvorakMode
    BY <2>1, <2>6 DEF Escape, Guide, StickyKeys, DvorakMode
  <2>7. CASE DevilMode \/ Enigma \/ Reset
    BY <2>2, <2>7 DEF DevilMode, Enigma, Reset
  <2>8. ASSUME NEW k \in Codes, KeyUp(k) \/ ExtendedKey(k) \/ OtherKey(k) PROVE UNCHANGED cases
    BY <2>8 DEF KeyUp, ExtendedKey, OtherKey
  <2>9. QED
    BY <2>1, <2>3, <2>4, <2>5, <2>6, <2>7, <2>8 DEF Next, Kbdgetc
<1>3. QED
  BY <1>1, <1>2, PTL DEF Spec

(* No order of chords, the reset included, leaves A_mode on without        *)
(* devil_mode or off in it (kbdgetc).                                      *)
THEOREM AnomaliesWithDevil == Spec => []AnomalyIsDevil
<1>1. Init => AnomalyIsDevil
  BY DEF Init, AnomalyIsDevil
<1>2. AnomalyIsDevil /\ [Next]_vars => AnomalyIsDevil'
  <2> SUFFICES ASSUME AnomalyIsDevil, [Next]_vars PROVE AnomalyIsDevil'
    OBVIOUS
  <2>1. CASE UNCHANGED <<devil_mode, A_mode>>
    BY <2>1 DEF AnomalyIsDevil
  <2>2. CASE DevilMode \/ Reset
    <3>1. CASE DevilMode
      <4>1. devil_mode' = ~devil_mode /\ A_mode' = ~A_mode
        BY <3>1 DEF DevilMode
      <4>2. QED
        BY <4>1, Zenon DEF AnomalyIsDevil
    <3>2. CASE Reset
      BY <3>2 DEF Reset, AnomalyIsDevil
    <3>3. QED
      BY <2>2, <3>1, <3>2
  <2>3. ASSUME NEW k \in Keys, Press(k) \/ Release(k) PROVE UNCHANGED modes
    BY <2>3 DEF Press, Release
  <2>4. CASE Tick \/ UNCHANGED vars
    BY <2>1, <2>4 DEF Tick, vars, modes
  <2>5. CASE Escape \/ Guide \/ PascalCase \/ CamelCase \/ SnakeCase \/ StickyKeys
    BY <2>1, <2>5 DEF Escape, Guide, PascalCase, CamelCase, SnakeCase, StickyKeys, modes
  <2>6. CASE Enigma \/ DvorakMode
    BY <2>1, <2>6 DEF Enigma, DvorakMode
  <2>7. ASSUME NEW k \in Codes, KeyUp(k) \/ ExtendedKey(k) \/ OtherKey(k) PROVE UNCHANGED modes
    BY <2>7 DEF KeyUp, ExtendedKey, OtherKey
  <2>8. QED
    BY <2>1, <2>2, <2>3, <2>4, <2>5, <2>6, <2>7 DEF Next, Kbdgetc, modes
<1>3. QED
  BY <1>1, <1>2, PTL DEF Spec
=============================================================================
