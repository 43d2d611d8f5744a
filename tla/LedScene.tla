------------------------------ MODULE LedScene ------------------------------
(***************************************************************************)
(* The scene pipeline of one LED node.                                      *)
(*                                                                         *)
(* Two threads share the renderer's globals, each access under the lock    *)
(* g_lock: the Matter thread runs one SetScene or SyncClock handler at a    *)
(* time (handle_set_scene, led_orchestra_set_scene), and the render task   *)
(* snapshots the globals, promotes a due scheduled scene and draws.  A      *)
(* critical section is one step; everything between two critical sections  *)
(* is a step of its own, so the threads interleave where the code lets      *)
(* them.  Power may fail in any state; what survives is the NVS record.     *)
(*                                                                         *)
(* Colours, speed and brightness are one field, "colour".  Payloads that   *)
(* fail to decode change nothing and are not modelled.                      *)
(***************************************************************************)
EXTENDS Integers

CONSTANTS
    Effects,        \* effect ids a command or an NVS record can carry
    Firmwares,      \* firmware builds the node may boot (OTA update, rollback)
    Registry,       \* Registry[f]: the effect ids firmware f knows
    Scrolls,        \* the effects whose metadata says they are animated
    Colours,        \* the remaining payload of a scene
    MaxSeq,         \* bound: largest sequence number a command carries
    MaxTime,        \* bound: largest controller time / scheduled start
    MaxClock,       \* bound: largest uptime of the node
    MaxBoots,       \* bound: number of power losses
    Requests,       \* the sets of TLV tags a SetScene payload carries
    FreshSequence,  \* TRUE: no two commands carry the same sequence number
    DefaultScene,   \* compiled initial scene (effect 2, sequence 0)
    ZeroScene,      \* an all-zero scene structure
    Absent          \* no scene record in NVS

Fields == {"effect", "colour", "seq", "start"}

Scenes == [effect : Effects, colour : Colours, seq : 0..MaxSeq, start : 0..MaxTime]

Boots  == {"ok", "unreadable", "erased"}   \* what a boot finds in NVS

ASSUME BoundsAssumption ==
    /\ MaxSeq \in Nat /\ MaxTime \in Nat /\ MaxClock \in Nat /\ MaxBoots \in Nat
ASSUME RegistryAssumption ==
    /\ Scrolls \subseteq Effects
    /\ Registry \in [Firmwares -> SUBSET Effects]
ASSUME RequestAssumption ==
    /\ Requests \subseteq SUBSET Fields
    /\ FreshSequence \in BOOLEAN
    /\ FreshSequence => \A tags \in Requests : "seq" \in tags
ASSUME SceneAssumption ==
    /\ DefaultScene \in Scenes /\ DefaultScene.start = 0
    /\ \A f \in Firmwares : DefaultScene.effect \in Registry[f]
    /\ ZeroScene \in Scenes
    /\ Absent \notin Scenes

VARIABLES
    \* The renderer's globals, lost at power-off
    g_scene, g_pending, g_has_pending, g_clock_offset_ms,
    clock,          \* monotonic_ms(): uptime of the node
    fw,             \* the running firmware
    nvs_scene,      \* the scene record in NVS, or Absent
    attr,           \* attributes CurrentScene and LastSequence
    \* Matter thread: program counter and the handler's local scene
    hPc, hScene,
    \* Render task: program counter, this iteration's locals, drawn frame
    rPc, rScene, rHas, rPending, rOffset, rNow,
    last_scene, have_rendered_frame,
    boots,          \* bound: power losses so far
    \* History variables, read by properties and by the choice of a sequence
    used,           \* sequence numbers carried by commands so far
    accepted,       \* the scene accepted last (or loaded at boot)
    resume,         \* "same": a power-up would restore the active scene;
                    \* else why it may not
    asked,          \* the tags of the SetScene being decoded, and the scene
                    \* (if any) that was waiting when the command was read
    synced          \* a SyncClock came after the pass copied the offset

globals == <<g_scene, g_pending, g_has_pending, g_clock_offset_ms>>
handler == <<hPc, hScene>>
locals  == <<rScene, rHas, rPending, rOffset, rNow>>
render  == <<rPc, locals, last_scene, have_rendered_frame>>
env     == <<clock, fw, boots>>
history == <<used, accepted, resume, asked, synced>>
vars    == <<globals, env, nvs_scene, attr, handler, render, history>>

-----------------------------------------------------------------------------
(* Helpers *)

Known(s) == s.effect \in Registry[fw]

\* The fields whose tags are present replace those of the base scene.
Merge(base, tags, v) ==
    [effect |-> IF "effect" \in tags THEN v.effect ELSE base.effect,
     colour |-> IF "colour" \in tags THEN v.colour ELSE base.colour,
     seq    |-> IF "seq"    \in tags THEN v.seq    ELSE base.seq,
     start  |-> IF "start"  \in tags THEN v.start  ELSE base.start]

\* What the record layout keeps of a scene: no scheduled start.
Record(s) == [s EXCEPT !.start = 0]

Load(record) == IF record = Absent THEN DefaultScene ELSE Record(record)

\* Mutated form: the sequence number expected next is reported.
Reports_Next(s) == [current_scene |-> s.effect, last_sequence |-> s.seq + 1]

Reports(s) == [current_scene |-> s.effect, last_sequence |-> s.seq]

scenes_equal(a, b) ==
    /\ a.effect = b.effect /\ a.colour = b.colour
    /\ a.seq = b.seq       /\ a.start = b.start

Nothing == [tags |-> {}, waiting |-> {}]

Waiting == IF g_has_pending THEN {g_pending} ELSE {}

-----------------------------------------------------------------------------
Init ==
    /\ g_scene = DefaultScene /\ g_pending = ZeroScene /\ g_has_pending = FALSE
    /\ g_clock_offset_ms = 0 /\ clock = 0 /\ boots = 0
    /\ fw \in Firmwares
    /\ nvs_scene = Absent
    /\ attr = Reports(DefaultScene)
    /\ hPc = "idle" /\ hScene = ZeroScene
    /\ rPc = "snapshot" /\ rScene = ZeroScene /\ rHas = FALSE
    /\ rPending = ZeroScene /\ rOffset = 0 /\ rNow = 0
    /\ last_scene = ZeroScene /\ have_rendered_frame = FALSE
    /\ used = {} /\ accepted = DefaultScene /\ resume = "same"
    /\ asked = Nothing /\ synced = FALSE

-----------------------------------------------------------------------------
(* Matter thread: handle_set_scene and led_orchestra_set_scene *)

\* Mutated form: the tags are laid over the scene accepted last.
DecodeSetScene_OverAccepted ==
    /\ hPc = "idle"
    /\ \E tags \in Requests, v \in Scenes :
          /\ FreshSequence => v.seq \notin used \cup {0}
          /\ used' = IF FreshSequence THEN used \cup {v.seq} ELSE used
          /\ hScene' = Merge(accepted, tags, v)
          /\ asked' = [tags |-> tags, waiting |-> Waiting]
    /\ hPc' = "decoded"
    /\ UNCHANGED <<globals, env, nvs_scene, attr, render, accepted, resume, synced>>

\* Read the active scene, then lay the tags of the payload over it.
DecodeSetScene ==
    /\ hPc = "idle"
    /\ \E tags \in Requests, v \in Scenes :
          /\ FreshSequence => v.seq \notin used \cup {0}
          /\ used' = IF FreshSequence THEN used \cup {v.seq} ELSE used
          /\ hScene' = Merge(g_scene, tags, v)
          /\ asked' = [tags |-> tags, waiting |-> Waiting]
    /\ hPc' = "decoded"
    /\ UNCHANGED <<globals, env, nvs_scene, attr, render, accepted, resume, synced>>

RejectUnknownEffect ==
    /\ hPc = "decoded" /\ ~Known(hScene)
    /\ hPc' = "idle" /\ hScene' = ZeroScene /\ asked' = Nothing
    /\ UNCHANGED <<globals, env, nvs_scene, attr, render, used, accepted, resume,
                   synced>>

\* Mutated form: the pending scene is left in place.
ApplyNow_KeepsPending ==
    /\ hPc = "decoded" /\ Known(hScene) /\ hScene.start = 0
    /\ g_scene' = hScene
    /\ hPc' = "save"
    /\ accepted' = hScene /\ resume' = "unsaved" /\ asked' = Nothing
    /\ UNCHANGED <<g_pending, g_has_pending, g_clock_offset_ms, env, nvs_scene,
                   attr, hScene, render, used, synced>>

ApplyNow ==
    /\ hPc = "decoded" /\ Known(hScene) /\ hScene.start = 0
    /\ g_scene' = hScene
    /\ g_has_pending' = FALSE
    /\ hPc' = "save"
    /\ accepted' = hScene /\ resume' = "unsaved" /\ asked' = Nothing
    /\ UNCHANGED <<g_pending, g_clock_offset_ms, env, nvs_scene, attr, hScene,
                   render, used, synced>>

\* Mutated form: a scheduled scene is saved when it is accepted.
StagePending_Saves ==
    /\ hPc = "decoded" /\ Known(hScene) /\ hScene.start # 0
    /\ g_pending' = hScene
    /\ g_has_pending' = TRUE
    /\ hPc' = "save"
    /\ accepted' = hScene /\ asked' = Nothing
    /\ UNCHANGED <<g_scene, g_clock_offset_ms, env, nvs_scene, attr, hScene,
                   render, used, resume, synced>>

StagePending ==
    /\ hPc = "decoded" /\ Known(hScene) /\ hScene.start # 0
    /\ g_pending' = hScene
    /\ g_has_pending' = TRUE
    /\ hPc' = "report"
    /\ accepted' = hScene /\ asked' = Nothing
    /\ UNCHANGED <<g_scene, g_clock_offset_ms, env, nvs_scene, attr, hScene,
                   render, used, resume, synced>>

\* led_orchestra_scene_save.  When nvs_open or nvs_set_blob fails the record
\* keeps its value; when only nvs_commit fails the new one may be there.
SaveScene ==
    /\ hPc = "save"
    /\ \/ nvs_scene' = Record(hScene) /\ resume' = "same"
       \/ nvs_scene' \in {nvs_scene, Record(hScene)} /\ resume' = "unsaved"
    /\ hPc' = "report"
    /\ UNCHANGED <<globals, env, attr, hScene, render, used, accepted, asked, synced>>

\* Mutated form: the attributes are filled from the active scene.
UpdateAttributes_Active ==
    /\ hPc = "report"
    /\ attr' = Reports(g_scene)
    /\ hPc' = "idle" /\ hScene' = ZeroScene
    /\ UNCHANGED <<globals, env, nvs_scene, render, history>>

UpdateAttributes ==
    /\ hPc = "report"
    /\ attr' = Reports(hScene)
    /\ hPc' = "idle" /\ hScene' = ZeroScene
    /\ UNCHANGED <<globals, env, nvs_scene, render, history>>

\* Mutated form: the operands of the offset swapped.
SyncClock_Swapped ==
    /\ hPc = "idle"
    /\ \E t \in 0..MaxTime : g_clock_offset_ms' = clock - t
    /\ synced' = (rPc # "snapshot")
    /\ UNCHANGED <<g_scene, g_pending, g_has_pending, env, nvs_scene, attr,
                   handler, render, used, accepted, resume, asked>>

SyncClock ==
    /\ hPc = "idle"
    /\ \E t \in 0..MaxTime : g_clock_offset_ms' = t - clock
    /\ synced' = (rPc # "snapshot")
    /\ UNCHANGED <<g_scene, g_pending, g_has_pending, env, nvs_scene, attr,
                   handler, render, used, accepted, resume, asked>>

-----------------------------------------------------------------------------
(* Render task: one iteration of render_task *)

Snapshot ==
    /\ rPc = "snapshot"
    /\ rScene' = g_scene /\ rHas' = g_has_pending /\ rPending' = g_pending
    /\ rOffset' = g_clock_offset_ms
    /\ rPc' = "decide"
    /\ UNCHANGED <<globals, env, nvs_scene, attr, handler, rNow, last_scene,
                   have_rendered_frame, history>>

\* Mutated form: scheduled starts are compared with the node's own uptime.
Decide_Uptime ==
    /\ rPc = "decide"
    /\ rNow' = clock
    /\ rPc' = IF rHas /\ rNow' >= rPending.start THEN "promote" ELSE "draw"
    /\ UNCHANGED <<globals, env, nvs_scene, attr, handler, rScene, rHas,
                   rPending, rOffset, last_scene, have_rendered_frame, history>>

\* Compute synchronized time, and see whether the scene snapshotted is due.
Decide ==
    /\ rPc = "decide"
    /\ rNow' = clock + rOffset
    /\ rPc' = IF rHas /\ rNow' >= rPending.start THEN "promote" ELSE "draw"
    /\ UNCHANGED <<globals, env, nvs_scene, attr, handler, rScene, rHas,
                   rPending, rOffset, last_scene, have_rendered_frame, history>>

\* Mutated form: no re-check at all.
StillPending_Always == TRUE

\* Mutated form: any pending scene passes the re-check.
StillPending_Any == g_has_pending

\* The re-check under the lock of the pending scene seen in the snapshot.
StillPending == g_has_pending /\ g_pending.seq = rPending.seq

Promote ==
    /\ rPc = "promote"
    /\ \/ /\ StillPending
          /\ g_scene' = g_pending
          /\ g_has_pending' = FALSE
          /\ resume' = "promoted"
       \/ /\ ~StillPending
          /\ UNCHANGED <<g_scene, g_has_pending, resume>>
    /\ rScene' = g_scene'
    /\ rPc' = "draw"
    /\ UNCHANGED <<g_pending, g_clock_offset_ms, env, nvs_scene, attr, handler,
                   rHas, rPending, rOffset, rNow, last_scene,
                   have_rendered_frame, used, accepted, asked, synced>>

\* Mutated form: a later static scene is not noticed.
RenderNeeded_FirstOnly ==
    \/ rScene.effect \in Scrolls \cap Registry[fw]
    \/ ~have_rendered_frame

RenderNeeded ==
    \/ rScene.effect \in Scrolls \cap Registry[fw]
    \/ ~have_rendered_frame
    \/ ~scenes_equal(rScene, last_scene)

\* Draw the segment or hold the latched frame; the locals leave their scope.
Draw ==
    /\ rPc = "draw"
    /\ \/ RenderNeeded /\ last_scene' = rScene /\ have_rendered_frame' = TRUE
       \/ ~RenderNeeded /\ UNCHANGED <<last_scene, have_rendered_frame>>
    /\ rPc' = "snapshot" /\ rScene' = ZeroScene /\ rHas' = FALSE
    /\ rPending' = ZeroScene /\ rOffset' = 0 /\ rNow' = 0 /\ synced' = FALSE
    /\ UNCHANGED <<globals, env, nvs_scene, attr, handler, used, accepted, resume,
                   asked>>

-----------------------------------------------------------------------------
(* Environment *)

Tick ==
    /\ clock < MaxClock
    /\ clock' = clock + 1
    /\ UNCHANGED <<globals, fw, boots, nvs_scene, attr, handler, render, history>>

\* Power loss in any state, and the boot that follows: app_main may find NVS
\* unusable and erase it, renderer_start loads the record or falls back to the
\* default, cluster_create seeds the attributes from the active scene.
Reboot ==
    /\ boots < MaxBoots /\ boots' = boots + 1
    /\ fw' \in Firmwares
    /\ \E b \in Boots :
          /\ nvs_scene' = IF b = "erased" THEN Absent ELSE nvs_scene
          /\ g_scene' = IF b = "unreadable" THEN DefaultScene ELSE Load(nvs_scene')
          /\ resume' = IF b = "unreadable" THEN "unsaved" ELSE "same"
    /\ accepted' = g_scene' /\ attr' = Reports(g_scene')
    /\ g_pending' = ZeroScene /\ g_has_pending' = FALSE
    /\ g_clock_offset_ms' = 0 /\ clock' = 0
    /\ hPc' = "idle" /\ hScene' = ZeroScene
    /\ rPc' = "snapshot" /\ rScene' = ZeroScene /\ rHas' = FALSE
    /\ rPending' = ZeroScene /\ rOffset' = 0 /\ rNow' = 0
    /\ last_scene' = ZeroScene /\ have_rendered_frame' = FALSE
    /\ asked' = Nothing /\ synced' = FALSE
    /\ UNCHANGED used

RenderTask == Snapshot \/ Decide \/ Promote \/ Draw

SetScene == \/ DecodeSetScene \/ RejectUnknownEffect \/ ApplyNow
            \/ StagePending \/ SaveScene \/ UpdateAttributes

Next == SetScene \/ SyncClock \/ RenderTask \/ Tick \/ Reboot

Spec == Init /\ [][Next]_vars

\* FreeRTOS keeps scheduling the render task: it runs at priority 5, loops for
\* ever and only ever waits for its own delay.
FairSpec == Spec /\ WF_vars(RenderTask)

-----------------------------------------------------------------------------
(* Properties *)

\* Every variable of the node keeps its type, in every thread and across reboots.
TypeOK ==
    /\ g_scene \in Scenes /\ g_pending \in Scenes /\ g_has_pending \in BOOLEAN
    /\ g_clock_offset_ms \in Int /\ clock \in Nat /\ fw \in Firmwares
    /\ nvs_scene \in Scenes \cup {Absent}
    /\ attr \in [current_scene : Effects, last_sequence : 0..MaxSeq]
    /\ hPc \in {"idle", "decoded", "save", "report"} /\ hScene \in Scenes
    /\ rPc \in {"snapshot", "decide", "promote", "draw"}
    /\ rScene \in Scenes /\ rHas \in BOOLEAN /\ rPending \in Scenes
    /\ rOffset \in Int /\ rNow \in Int
    /\ last_scene \in Scenes /\ have_rendered_frame \in BOOLEAN
    /\ boots \in Nat /\ used \subseteq 0..MaxSeq /\ accepted \in Scenes
    /\ resume \in {"same", "unsaved", "promoted"}
    /\ asked \in [tags : SUBSET Fields, waiting : SUBSET Scenes]
    /\ synced \in BOOLEAN

\* The command accepted last decides the show: it is the scene waiting for its
\* start if one waits, and otherwise the active scene.  A promotion that raced
\* a newer SetScene (renderer.cpp, the re-check under g_lock) would break it,
\* and so would an immediate scene that left an older pending one behind.
LastAcceptedWins ==
    IF g_has_pending THEN g_pending = accepted ELSE g_scene = accepted

\* A scheduled scene becomes active.
Flips ==
    /\ g_has_pending /\ ~g_has_pending'
    /\ g_scene' = g_pending /\ boots' = boots

\* A scheduled scene becomes active only when the synchronized time the render
\* task computed in this pass has reached that scene's own start, also when the
\* pending scene was replaced after the snapshot; and unless a SyncClock came
\* after the pass copied the offset, the node's clock has reached it too.  So a
\* clock set back keeps a scene back from the next pass on.
NoEarlyFlip ==
    [][Flips => /\ rNow >= g_pending.start
                /\ synced \/ clock + g_clock_offset_ms >= g_pending.start]_vars

\* now_ms is computed in uint64: the sum of uptime and clock offset must never
\* be negative, or a scene hours away would be due at once.
SyncedTimeNeverWraps == rPc \in {"promote", "draw"} => rNow >= 0

\* A field that a SetScene leaves out has the value it has in the active scene,
\* except if the scene that was waiting when the command was read has flipped
\* since: only that can make the scene read in handle_set_scene a stale base.
InheritsActiveScene ==
    hPc = "decoded" =>
        \/ hScene = Merge(g_scene, asked.tags, hScene)
        \/ asked.waiting = {g_scene} /\ ~g_has_pending

\* What an operator reads back between commands: last_sequence is that of the
\* scene accepted last, and current_scene is the effect of the active scene as
\* soon as none waits, although promotion writes no attribute.
ReadBackSettles ==
    hPc \in {"idle", "decoded"} =>
        /\ attr.last_sequence = accepted.seq
        /\ ~g_has_pending => attr.current_scene = g_scene.effect

\* Once an immediate scene is saved, a power-up restores exactly the scene that
\* is active, until another scene is accepted or a scheduled one takes over: no
\* promotion slips in between the two halves (apply, save) of a SetScene.
ResumesShownScene == resume = "same" => Load(nvs_scene) = g_scene

\* Keep-last-valid: no command and no reboot makes an effect active or pending
\* that the running firmware does not know.
OnlyKnownEffects ==
    /\ Known(g_scene)
    /\ g_has_pending => Known(g_pending)

\* A pending scene that is due is activated, replaced or moved out of reach by
\* a clock sync: again and again there is none, so none waits for ever.
DueSceneFlips ==
    []<>(g_has_pending => clock + g_clock_offset_ms < g_pending.start)

\* The strip keeps catching up with the active scene: a frame that is held
\* because nothing seemed to change is never the wrong one for good.
StripCatchesUp ==
    []<>(/\ have_rendered_frame
         /\ last_scene.effect = g_scene.effect
         /\ last_scene.colour = g_scene.colour)

\* Claim of led_orchestra_config_store.h: the record reflects the last scene
\* concretely activated (no save failed; both threads between operations).
PersistedIsLastActivated ==
    hPc = "idle" /\ rPc = "snapshot" /\ resume # "unsaved"
        => Load(nvs_scene) = Record(g_scene)

\* The abstract promise, with the scene waiting (if any) as a set.
Promise == INSTANCE ScenePromise WITH
    active  <- g_scene,
    waiting <- IF g_has_pending THEN {g_pending} ELSE {},
    stored  <- Load(nvs_scene)

\* The node implements the abstract promise, refusing nothing of it.
KeepsPromise == Promise!Spec

=============================================================================
