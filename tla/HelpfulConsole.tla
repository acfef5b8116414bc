---------------------------- MODULE HelpfulConsole ----------------------------
(***************************************************************************)
(* The console of B22CS052/Helpful: the ring and the readers of LineInput  *)
(* under a handler with a clipboard, a recall of the previous line, word   *)
(* completion and a cipher mode.                                           *)
(*                                                                         *)
(* The handler drains the device under cons.lock and only notes the keys   *)
(* Tab, Up, Ctrl-L, ...; once it has released the lock it serves ONE of    *)
(* the keys it noted, and completion and recall then edit the ring without *)
(* the lock.  Interrupts are off and the keyboard and the serial line both *)
(* interrupt CPU 0, so there is one handler at a time; the readers run on  *)
(* the other CPUs.  A step of this part is at most one read or write of    *)
(* what a reader may change (input.r), or of what a reader waits for       *)
(* (input.w): the handler alone writes the other variables.                *)
(*                                                                         *)
(* clipboard and previous_line have the size of the ring.  Where the code  *)
(* reads past an array the model takes any bytes of Junk, at most Spill of *)
(* them in a row.  Left out: the screen, the substitution the cipher       *)
(* prints, and the reset that three keys of the devil mode trigger.        *)
(***************************************************************************)
EXTENDS LineInput, SequencesExt

CONSTANTS
    SP,         \* ' '
    Words,      \* autocomplete_words, in order
    Keys,       \* bound: the special keys that are pressed
    Junk,       \* the bytes that may lie outside the arrays
    Spill       \* bound: how many of those are looked at in a row

ASSUME JunkAssumption == Junk \subseteq Char \cup {NUL} /\ Spill \in Nat
ASSUME WordsAssumption == Words \in Seq(Seq(Plain \ {SP}))

VARIABLES
    stage,      \* where the handler is
    flags,      \* the keys it noted under the lock
    c_,         \* the last key of the cipher or devil mode
    todo,       \* what completion has collected, or it or recall has still to insert
    clipboard,
    previous_line,
    track_enigma

special == <<stage, flags, c_, todo, clipboard, previous_line, track_enigma>>
hvars   == <<vars, special>>

Blank == [i \in 0 .. N - 1 |-> NUL]

(* The characters of an array of N bytes, up to its first zero.            *)
Text(array) ==
    LET n == CHOOSE n \in 0 .. N :
               /\ n = N \/ array[n] = NUL
               /\ \A i \in 0 .. n - 1 : array[i] # NUL
    IN  [i \in 1 .. n |-> array[i - 1]]

(* What may follow, or precede, an array that has no zero where one is     *)
(* looked for.                                                             *)
Stray == UNION {[1 .. n -> Junk \ {NUL, NL}] : n \in 0 .. Spill}

HelpfulInit ==
    /\ Init
    /\ stage = "off" /\ flags = {} /\ c_ = NUL /\ todo = <<>>
    /\ clipboard = Blank /\ previous_line = Blank /\ track_enigma = 0

-----------------------------------------------------------------------------
(* Under the lock: the switch of consoleintr.                              *)

Begin ==
    /\ stage = "off"
    /\ IntrAcquire
    /\ stage' = "loop" /\ flags' = {}
    /\ UNCHANGED <<c_, todo, clipboard, previous_line, track_enigma>>

(* What the handler copies to previous_line as a line ends: the bytes      *)
(* before the new one, last first, down to a newline or to the one before  *)
(* input.r.  The index is not reduced to the ring.                         *)
Backwards(bytes, old) ==
    LET stop == CHOOSE j \in r - 2 .. e - 1 :
                  /\ j = r - 2 \/ bytes[j] = NL
                  /\ \A k \in j + 1 .. e - 1 : bytes[k] # NL
    IN  [q \in 0 .. N - 1 |-> IF q < e - 1 - stop THEN bytes[e - 1 - q] ELSE old[q]]

SaveLine ==
    \E outside \in [{j \in r - 1 .. e - 1 : j \notin 0 .. N - 1} -> Junk] :
      LET bytes == [j \in r - 1 .. e - 1 |-> IF j \in 0 .. N - 1 THEN buf[j] ELSE outside[j]]
      IN  previous_line' = Backwards(bytes, previous_line)

Type(c) ==
    /\ PutChar(c)
    /\ IF Ends(Stored(c)) THEN SaveLine ELSE UNCHANGED previous_line
    /\ UNCHANGED <<stage, flags, c_, todo, clipboard, track_enigma>>

Erase ==
    /\ Backspace \/ KillLine
    /\ UNCHANGED special

Pressed(key) == holder = Intr /\ key \in Keys /\ e < MaxTyped

Copy ==
    /\ Pressed("copy")
    /\ clipboard' = [i \in 0 .. N - 1 |->
                       IF \A j \in 0 .. i : buf[j] # NUL THEN buf[i] ELSE NUL]
    /\ UNCHANGED <<vars, stage, flags, c_, todo, previous_line, track_enigma>>

(* Mutant of Paste: no test for room.                                      *)
PasteAll ==
    LET text == Text(clipboard)
        n    == Len(text)
    IN  /\ Pressed("paste")
        /\ buf' = [s \in 0 .. N - 1 |->
                     IF \E i \in 1 .. n : (e + i - 1) % N = s
                     THEN text[CHOOSE i \in 1 .. n : (e + i - 1) % N = s]
                     ELSE buf[s]]
        /\ e' = e + n
        /\ UNCHANGED <<r, w, holder, readers, special>>

(* As much of the clipboard as there is room for, and no commit.           *)
Paste ==
    LET text == Text(clipboard)
        n    == IF Room THEN Min({Len(text), r + N - e}) ELSE 0
    IN  /\ Pressed("paste")
        /\ buf' = [s \in 0 .. N - 1 |->
                     IF \E i \in 1 .. n : (e + i - 1) % N = s
                     THEN text[CHOOSE i \in 1 .. n : (e + i - 1) % N = s]
                     ELSE buf[s]]
        /\ e' = e + n
        /\ UNCHANGED <<r, w, holder, readers, special>>

(* A key of the cipher mode.  track_enigma is not checked by the code; the *)
(* model stops at the end of previous_line.                                *)
Cipher(c) ==
    /\ Pressed("cipher")
    /\ track_enigma < N
    /\ previous_line' = [previous_line EXCEPT ![track_enigma] = c]
    /\ track_enigma' = track_enigma + 1
    /\ c_' = c
    /\ flags' = flags \cup {"cipher"}
    /\ UNCHANGED <<vars, stage, todo, clipboard>>

Devil(c) ==
    /\ Pressed("devil")
    /\ c_' = c
    /\ flags' = flags \cup {"devil"}
    /\ UNCHANGED <<vars, stage, todo, clipboard, previous_line, track_enigma>>

(* Tab, Ctrl-L, Up, the guide, and the keys that switch the layout or the  *)
(* sticky keys are noted and nothing else.                                 *)
Note(key) ==
    /\ Pressed(key)
    /\ flags' = flags \cup {key}
    /\ UNCHANGED <<vars, stage, c_, todo, clipboard, previous_line, track_enigma>>

(* release(&cons.lock), and the choice among the keys that were noted,     *)
(* which are of no account from then on.                                   *)
Chosen ==
    LET order == <<"tab", "clear", "up", "guide", "cipher", "devil", "layout">>
        first == {i \in 1 .. Len(order) : order[i] \in flags}
    IN  IF first = {} THEN "off" ELSE order[Min(first)]

End ==
    /\ IntrRelease
    /\ stage' = IF Chosen \in {"guide", "devil"} THEN "off" ELSE Chosen
    /\ flags' = {}
    /\ c_' = IF Chosen = "cipher" THEN c_ ELSE NUL
    /\ UNCHANGED <<todo, clipboard, previous_line, track_enigma>>

-----------------------------------------------------------------------------
(* Without the lock.                                                       *)

(* wakeup() after clear_screen, a new layout or a change of sticky keys.   *)
WakeAll ==
    /\ stage \in {"clear", "layout"}
    /\ stage' = "off"
    /\ pc' = Wakeup
    /\ UNCHANGED <<ring, holder, target, got, killed, flags, c_, todo, clipboard,
                   previous_line, track_enigma>>

(* A cipher line ends: handle_new_line_enigma and wakeup.                  *)
EndCipher ==
    /\ stage = "cipher"
    /\ stage' = "off"
    /\ IF c_ = NL
       THEN /\ track_enigma' = 0
            /\ previous_line' = Blank
            /\ pc' = Wakeup
       ELSE UNCHANGED <<track_enigma, previous_line, pc>>
    /\ c_' = NUL
    /\ UNCHANGED <<ring, holder, target, got, killed, flags, todo, clipboard>>

(* auto_complete collects the word before the edit index, last byte first, *)
(* as far back as a space or input.r, which it reads anew for each byte;   *)
(* it then takes the first of Words that begins with it.  The index is not *)
(* reduced to the ring: past its end anything may be found.                *)
Collected == e - Len(todo) - 1

MoreToCollect ==
    Collected >= r /\ Collected < N /\ buf[Collected] # SP

Collect ==
    /\ stage = "tab"
    /\ MoreToCollect
    /\ todo' = <<buf[Collected]>> \o todo
    /\ UNCHANGED <<vars, stage, flags, c_, clipboard, previous_line, track_enigma>>

Matches ==
    LET begins == {i \in 1 .. Len(Words) : IsPrefix(todo, Words[i])} IN
    IF Collected >= r /\ Collected >= N THEN {<<>>} \cup Range(Words)
    ELSE IF todo = <<>> \/ begins = {} THEN {<<>>}
    ELSE {Words[Min(begins)]}

(* The characters it takes back before it inserts the word in full.        *)
EraseTo ==
    CHOOSE k \in w .. e :
      /\ k = w \/ Slot(k - 1) \in {NL, SP}
      /\ \A i \in k .. e - 1 : Slot(i) \notin {NL, SP}

Complete ==
    /\ stage = "tab"
    /\ ~MoreToCollect
    /\ \E word \in Matches :
         /\ todo' = word
         /\ IF word = <<>>
            THEN stage' = "off" /\ UNCHANGED e
            ELSE stage' = "fill" /\ e' = EraseTo
    /\ UNCHANGED <<buf, r, w, holder, readers, flags, c_, clipboard, previous_line,
                   track_enigma>>

(* get_prev_line: from the last character of previous_line to the first,   *)
(* and on before the array if it finds neither a newline nor a zero.       *)
Recall ==
    LET text == Reverse(Text(previous_line)) IN
    /\ stage = "up"
    /\ stage' = "recall"
    /\ \E after \in (IF Len(text) = N THEN Stray ELSE {<<>>}), before \in Stray :
         LET found == after \o text \o before
             n     == CHOOSE n \in 0 .. Len(found) :
                        /\ n = Len(found) \/ found[n + 1] = NL
                        /\ \A i \in 1 .. n : found[i] # NL
         IN  todo' = SubSeq(found, 1, n)
    /\ UNCHANGED <<vars, flags, c_, clipboard, previous_line, track_enigma>>

(* One character of a completion or a recall: there seems to be room, ...  *)
Storing == [fill |-> "filling", recall |-> "recalling"]

(* Mutant of RoomSeen: no test for room.                                   *)
RoomTaken == TRUE

RoomSeen == Room

Insert ==
    /\ stage \in DOMAIN Storing
    /\ todo # <<>> /\ RoomSeen
    /\ stage' = Storing[stage]
    /\ UNCHANGED <<vars, flags, c_, todo, clipboard, previous_line, track_enigma>>

(* ... and it is stored, wherever a reader has moved input.r since.        *)
Store ==
    /\ stage \in {"filling", "recalling"}
    /\ buf' = [buf EXCEPT ![e % N] = Head(todo)]
    /\ e' = e + 1
    /\ todo' = Tail(todo)
    /\ stage' = IF stage = "filling" THEN "commit" ELSE "recall"
    /\ UNCHANGED <<r, w, holder, readers, flags, c_, clipboard, previous_line, track_enigma>>

(* A completion that fills the ring commits it and wakes the readers; a    *)
(* recall does not.                                                        *)
TestFull ==
    /\ stage = "commit"
    /\ stage' = IF e = r + N THEN "full" ELSE "fill"
    /\ UNCHANGED <<vars, flags, c_, todo, clipboard, previous_line, track_enigma>>

CommitFull ==
    /\ stage = "full"
    /\ stage' = "wake"
    /\ w' = e
    /\ UNCHANGED <<buf, r, e, holder, readers, flags, c_, todo, clipboard, previous_line,
                   track_enigma>>

WakeFull ==
    /\ stage = "wake"
    /\ stage' = "fill"
    /\ pc' = Wakeup
    /\ UNCHANGED <<ring, holder, target, got, killed, flags, c_, todo, clipboard,
                   previous_line, track_enigma>>

(* Mutant of Done: a full ring is waited for, not given up on.             *)
DoneWhenEmpty ==
    /\ stage \in {"fill", "recall"}
    /\ todo = <<>>
    /\ stage' = "off"
    /\ previous_line' = IF stage = "recall" THEN Blank ELSE previous_line
    /\ UNCHANGED <<vars, flags, c_, todo, clipboard, track_enigma>>

Done ==
    /\ stage \in {"fill", "recall"}
    /\ todo = <<>> \/ ~Room
    /\ stage' = "off" /\ todo' = <<>>
    /\ previous_line' = IF stage = "recall" THEN Blank ELSE previous_line
    /\ UNCHANGED <<vars, flags, c_, clipboard, track_enigma>>

-----------------------------------------------------------------------------
Unlocked ==
    \/ WakeAll \/ EndCipher \/ Collect \/ Complete \/ Recall
    \/ Insert \/ Store \/ TestFull \/ CommitFull \/ WakeFull \/ Done

HelpfulHandler ==
    \/ Begin \/ End \/ Unlocked \/ Erase \/ Copy \/ Paste
    \/ \E c \in Char \cup {CR} : Type(c)
    \/ \E c \in Plain \cup {NL, NUL} : Cipher(c) \/ Devil(c)
    \/ \E key \in {"tab", "clear", "up", "guide", "layout"} : Note(key)

HelpfulNext ==
    \/ HelpfulHandler
    \/ \E p \in Readers : Reader(p) /\ UNCHANGED special

HelpfulSpec == HelpfulInit /\ [][HelpfulNext]_hvars

(* The handler goes on until it returns: it runs with interrupts off.      *)
HelpfulFairSpec == HelpfulSpec /\ WF_hvars(End \/ Unlocked)
-----------------------------------------------------------------------------
HelpfulTypeOK ==
    /\ TypeOK
    /\ stage \in {"off", "loop", "tab", "clear", "up", "cipher", "layout",
                  "fill", "filling", "commit", "full", "wake", "recall", "recalling"}
    /\ flags \subseteq Keys
    /\ c_ \in Plain \cup {NL, NUL}
    /\ todo \in Seq(Char)
    /\ clipboard \in [0 .. N - 1 -> Char \cup {NUL}]
    /\ previous_line \in [0 .. N - 1 -> Char \cup {NUL}]
    /\ track_enigma \in 0 .. N

(* Editing without the lock may overrun the ring, by the one slot that a   *)
(* reader has moved input.r past too early, and never by more.             *)
Overrun ==
    /\ R <= w /\ w <= e /\ e - R <= N + 1
    /\ stage \in {"filling", "recalling"} => e - R <= N

(* The inductive invariant: of the types only what the steps depend on.    *)
RingShape ==
    /\ buf = [i \in 0 .. N - 1 |-> buf[i]]
    /\ r \in Nat /\ w \in Nat /\ e \in Nat
    /\ holder \in Readers \cup {Intr, Nobody}
    /\ pc \in [Readers -> Places]

HelpfulInv ==
    /\ RingShape /\ LockInv /\ R >= 0 /\ r <= w /\ Overrun
    /\ stage = "loop" <=> holder = Intr

(* A reader gives back a ^D, unless the handler has just stored over it;   *)
(* and a handler about to store over the next character to be read saw     *)
(* room that a ^D has taken back since.                                    *)
EofInv ==
    /\ \A p \in Readers : pc[p] = "unread" =>
         Slot(r - 1) = EOT \/ (e - r = N /\ stage \notin {"tab", "up"})
    /\ stage \in {"filling", "recalling"} /\ e = r + N => Passed \/ Slot(r) = EOT

(* ... and what it then overwrites is that character, while the reader is  *)
(* about to load it or give it back, or a ^D that was given back: every    *)
(* other committed character stays until it is read.                       *)
AtRisk(i) == i = R /\ (Passed \/ Slot(i) = EOT)

OnlyPassedAtRisk ==
    [][ /\ w' >= w
        /\ \A i \in R .. w - 1 : i >= R' => AtRisk(i) \/ buf'[i % N] = buf[i % N] ]_hvars

(* Serving a key ends, however the readers move the room it looks for.     *)
HandlerReturns == stage # "off" ~> stage = "off"

(* "Save ^D for next time, to make sure caller gets a 0-byte result"       *)
(* (consoleread): the byte a reader is giving back is still a ^D.          *)
EofPreserved == \A p \in Readers : pc[p] = "unread" => Slot(r - 1) = EOT

(* "Press CTRL + C to Copy last 128 characters" (guide): once the ring has *)
(* been round, the clipboard holds the last N characters entered, in order.*)
CopiesTheLast ==
    [][ clipboard' # clipboard /\ e > N =>
          Text(clipboard') = [i \in 1 .. N |-> Slot(e - N + i - 1)] ]_hvars

(* "Press Up Arrow to get previous line" (guide): when a line that is not  *)
(* empty and began at a line's end is ended, what Up would insert is it.   *)
UpIsThePreviousLine ==
    [][ (w' = e + 1 /\ e' = w' /\ buf'[e % N] = NL /\ e > w /\ (w = 0 \/ Slot(w - 1) = NL)) =>
          Reverse(Text(previous_line')) = [i \in 1 .. e - w |-> Slot(w + i - 1)] ]_hvars
=============================================================================
