------------------------------ MODULE MCLedSettings ------------------------------
(* Small instances of LedSettings for TLC. *)
EXTENDS LedSettings

\* Two builds, compiled for different pins; "older" lacks the palette "q".
TwoPins     == [f \in {"older", "newer"} |-> IF f = "older" THEN 4 ELSE 5]
TwoPalettes == [f \in {"older", "newer"} |-> IF f = "older" THEN {} ELSE {"q"}]

=============================================================================
