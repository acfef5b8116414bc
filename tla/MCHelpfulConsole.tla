--------------------------- MODULE MCHelpfulConsole ---------------------------
(***************************************************************************)
(* HelpfulConsole on small instances: a dictionary of one word, and a user *)
(* who presses the special keys of one of several kits only.               *)
(***************************************************************************)
EXTENDS HelpfulConsole

CONSTANTS x, Kits

VARIABLE kit

DoubleX == << <<x, x>> >>

WithinKit ==
    /\ flags' \subseteq kit
    /\ "copy" \notin kit => UNCHANGED clipboard
    /\ UNCHANGED kit

KitInit == HelpfulInit /\ kit \in Kits

KitNext == HelpfulNext /\ WithinKit

KitSpec ==
    /\ KitInit
    /\ [][KitNext]_<<hvars, kit>>
    /\ WF_hvars(End \/ Unlocked)
=============================================================================
