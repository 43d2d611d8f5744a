------------------------------ MODULE MCLedScene ------------------------------
(* Small instances of LedScene for TLC. *)
EXTENDS LedScene

\* One build; "future" is an effect id it does not know.
OneRegistry == [f \in {"current"} |-> {"off", "rainbow"}]

\* The same build with a registry of one effect, for the instance with most
\* senders: every state it leaves out differs in the effect id only.
TinyRegistry == [f \in {"current"} |-> {"rainbow"}]

\* An update that appended the effect "future", and the build before it.
TwoRegistries ==
    [f \in {"current", "newer"} |->
        IF f = "newer" THEN {"off", "rainbow", "future"} ELSE {"off", "rainbow"}]

Rainbow == [effect |-> "rainbow", colour |-> 1, seq |-> 0, start |-> 0]
Zeroes  == [effect |-> "off", colour |-> 1, seq |-> 0, start |-> 0]

\* The console sends all eight tags.
AllTags == {Fields}

\* Another sender changes one knob and leaves effect and start as they are.
KnobTags == {Fields, Fields \ {"effect", "start"}}

=============================================================================
