----------------------------- MODULE ScenePromise -----------------------------
(***************************************************************************)
(* What a node promises about scenes, without its threads, locks and flash *)
(* records: there is always one active scene, at most one waits for its    *)
(* start, and what a power-up restores was the active scene once it was     *)
(* stored.                                                                  *)
(***************************************************************************)
CONSTANTS Scenes, DefaultScene

VARIABLES
    active,     \* the scene on the strip
    waiting,    \* {} or the one scheduled scene
    stored      \* the scene a power-up restores

vars == <<active, waiting, stored>>

Init == active = DefaultScene /\ waiting = {} /\ stored = DefaultScene

\* An immediate scene takes over and cancels the one that waits.
Show(s) ==
    /\ s.start = 0
    /\ active' = s /\ waiting' = {}
    /\ UNCHANGED stored

\* A scheduled scene waits, replacing the one that waited; the show goes on.
Stage(s) ==
    /\ s.start # 0
    /\ waiting' = {s}
    /\ UNCHANGED <<active, stored>>

\* The waiting scene takes over.
Flip ==
    /\ waiting # {}
    /\ waiting = {active'} /\ waiting' = {}
    /\ UNCHANGED stored

\* Only the active scene is ever stored, and only if it is not scheduled.
Store ==
    /\ active.start = 0
    /\ stored' = active
    /\ UNCHANGED <<active, waiting>>

\* A power-up shows what was stored, or falls back to the default (the store
\* may be unreadable, or found unusable and reset); nothing waits any more.
PowerUp ==
    /\ stored' \in {stored, DefaultScene}
    /\ active' \in {stored', DefaultScene}
    /\ waiting' = {}

Next ==
    \/ \E s \in Scenes : Show(s) \/ Stage(s)
    \/ Flip \/ Store \/ PowerUp

Spec == Init /\ [][Next]_vars

=============================================================================
