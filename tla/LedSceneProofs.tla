---------------------------- MODULE LedSceneProofs ----------------------------
(***************************************************************************)
(* Theorems about the scene pipeline of one node, for every registry, every *)
(* bound and every set of payloads.                                         *)
(***************************************************************************)
EXTENDS LedScene, TLAPS

-----------------------------------------------------------------------------
(* The inductive invariant, by theme *)

\* Between the two halves of an immediate SetScene the scene applied is active
\* and nothing waits, so the render task cannot replace it before it is saved.
SaveWindow ==
    /\ hPc = "save" => /\ hScene.start = 0 /\ hScene = g_scene
                       /\ ~g_has_pending /\ resume = "unsaved"
    /\ hPc \in {"save", "report"} => hScene = accepted

\* Only scheduled scenes wait.
OnlyScheduledWaits == g_has_pending => g_pending.start # 0

\* Uptime plus clock offset is a controller time, in the globals and in the
\* copy the render task works with.
SyncedTime ==
    /\ clock + g_clock_offset_ms >= 0
    /\ rPc # "snapshot" => clock + rOffset >= 0
    /\ rPc \in {"promote", "draw"} => rNow >= 0

\* A sequence number names one scene among the pending one, the one the render
\* task saw pending and the one the handler is about to stage.
SequenceNames ==
    /\ g_has_pending => g_pending.seq \in used
    /\ rHas => rPending.seq \in used
    /\ hPc = "decoded" => hScene.seq \in used
    /\ hPc = "decoded" /\ g_has_pending => g_pending.seq # hScene.seq
    /\ hPc = "decoded" /\ rHas => rPending.seq # hScene.seq
    /\ rHas /\ g_has_pending /\ g_pending.seq = rPending.seq
          => g_pending = rPending

\* The task reaches the re-check only with a scene that was due.
DueAtPromote == rPc = "promote" => rHas /\ rNow >= rPending.start

\* The offset in the pass is the node's until a SyncClock comes, and the time
\* computed from it is not ahead of the clock.
OffsetFollows ==
    /\ rPc \in {"decide", "promote"} /\ ~synced => rOffset = g_clock_offset_ms
    /\ rPc = "promote" => rNow <= clock + rOffset

\* While a SetScene is decoded only the scene that waited at its start can wait:
\* only the handler stages scenes.
WaitsAsRead == hPc = "decoded" /\ g_has_pending => asked.waiting = {g_pending}

\* Between commands both attributes are those of the scene accepted last.
AttributesFollow == hPc \in {"idle", "decoded"} => attr = Reports(accepted)

IInv ==
    /\ LastAcceptedWins /\ AttributesFollow
    /\ ResumesShownScene /\ SaveWindow /\ OnlyScheduledWaits

-----------------------------------------------------------------------------
(* Lemmas about the helpers *)

\* The compiled scenes are scenes, and the default is not a scheduled one.
LEMMA Compiled ==
    DefaultScene \in Scenes /\ DefaultScene.start = 0 /\ ZeroScene \in Scenes
BY SceneAssumption

\* Saving keeps everything of a scene but its scheduled start, and an immediate
\* scene is saved as it is (scene_save copies every other field).
LEMMA RecordKeeps ==
    ASSUME NEW s \in Scenes
    PROVE  /\ Record(s) \in Scenes
           /\ Record(s).start = 0
           /\ s.start = 0 => Record(s) = s
BY BoundsAssumption DEF Record, Scenes

\* A boot always comes up with a scene, and with an immediate one.
LEMMA LoadGives ==
    ASSUME NEW r \in Scenes \cup {Absent}
    PROVE  Load(r) \in Scenes /\ Load(r).start = 0
BY RecordKeeps, Compiled DEF Load

\* What handle_set_scene decodes is a scene whatever tags are present.
LEMMA MergeGives ==
    ASSUME NEW b \in Scenes, NEW v \in Scenes, NEW tags
    PROVE  Merge(b, tags, v) \in Scenes
BY DEF Merge, Scenes

-----------------------------------------------------------------------------
(* Types *)

\* The attributes that report a scene have the attribute types.
LEMMA ReportsGives ==
    ASSUME NEW s \in Scenes
    PROVE  Reports(s) \in [current_scene : Effects, last_sequence : 0..MaxSeq]
BY DEF Reports, Scenes

\* No SetScene is being decoded.
LEMMA NothingGives == Nothing \in [tags : SUBSET Fields, waiting : SUBSET Scenes]
BY DEF Nothing

LEMMA TypeInit == Init => TypeOK
<1> SUFFICES ASSUME Init PROVE TypeOK
    OBVIOUS
<1>1. /\ g_scene \in Scenes /\ g_pending \in Scenes /\ hScene \in Scenes
      /\ rScene \in Scenes /\ rPending \in Scenes /\ last_scene \in Scenes
      /\ accepted \in Scenes
  BY Compiled DEF Init
<1>2. /\ g_clock_offset_ms \in Int /\ clock \in Nat /\ rOffset \in Int
      /\ rNow \in Int /\ boots \in Nat
  BY DEF Init
<1>3. /\ g_has_pending \in BOOLEAN /\ rHas \in BOOLEAN
      /\ have_rendered_frame \in BOOLEAN
  BY DEF Init
<1>4. attr \in [current_scene : Effects, last_sequence : 0..MaxSeq]
  BY Compiled, ReportsGives DEF Init
<1> QED BY <1>1, <1>2, <1>3, <1>4, NothingGives DEF Init, TypeOK

LEMMA TypeStep == TypeOK /\ [Next]_vars => TypeOK'
<1> SUFFICES ASSUME TypeOK, [Next]_vars PROVE TypeOK'
    OBVIOUS
<1> USE DEF TypeOK
<1>1. CASE DecodeSetScene
  <2>1. PICK tags \in Requests, v \in Scenes :
            /\ used' = IF FreshSequence THEN used \cup {v.seq} ELSE used
            /\ hScene' = Merge(g_scene, tags, v)
            /\ asked' = [tags |-> tags, waiting |-> Waiting]
    BY <1>1 DEF DecodeSetScene
  <2>2. hScene' \in Scenes
    BY <2>1, MergeGives
  <2>3. used' \subseteq 0..MaxSeq
    BY <2>1 DEF Scenes
  <2>4. asked' \in [tags : SUBSET Fields, waiting : SUBSET Scenes]
    BY <2>1, RequestAssumption DEF Waiting
  <2> QED BY <1>1, <2>2, <2>3, <2>4 DEF DecodeSetScene, globals, env, render, locals
<1>2. CASE RejectUnknownEffect
  BY <1>2, Compiled, NothingGives
     DEF RejectUnknownEffect, globals, env, render, locals, history
<1>3. CASE ApplyNow
  BY <1>3, NothingGives DEF ApplyNow, env, render, locals
<1>4. CASE StagePending
  BY <1>4, NothingGives DEF StagePending, env, render, locals
<1>5. CASE SaveScene
  BY <1>5, RecordKeeps DEF SaveScene, globals, env, render, locals
<1>6. CASE UpdateAttributes
  BY <1>6, ReportsGives, Compiled
     DEF UpdateAttributes, globals, env, render, locals, history
<1>7. CASE SyncClock
  BY <1>7 DEF SyncClock, env, handler, render, locals, history
<1>8. CASE RenderTask
  <2>1. CASE Snapshot
    BY <2>1 DEF Snapshot, globals, env, handler, history
  <2>2. CASE Decide
    BY <2>2 DEF Decide, globals, env, handler, history
  <2>3. CASE Promote
    BY <2>3 DEF Promote, env, handler
  <2>4. CASE Draw
    <3>1. rScene' \in Scenes /\ rPending' \in Scenes /\ rHas' \in BOOLEAN
      BY <2>4, Compiled DEF Draw
    <3>2. rOffset' \in Int /\ rNow' \in Int
      BY <2>4 DEF Draw
    <3>3. last_scene' \in Scenes /\ have_rendered_frame' \in BOOLEAN
      BY <2>4 DEF Draw
    <3> QED BY <2>4, <3>1, <3>2, <3>3 DEF Draw, globals, env, handler, history
  <2> QED BY <1>8, <2>1, <2>2, <2>3, <2>4 DEF RenderTask
<1>9. CASE Tick
  BY <1>9 DEF Tick, globals, handler, render, locals, history
<1>10. CASE Reboot
  <2>1. PICK b \in Boots :
          /\ nvs_scene' = IF b = "erased" THEN Absent ELSE nvs_scene
          /\ g_scene' = IF b = "unreadable" THEN DefaultScene ELSE Load(nvs_scene')
          /\ resume' = IF b = "unreadable" THEN "unsaved" ELSE "same"
    BY <1>10 DEF Reboot
  <2>2. nvs_scene' \in Scenes \cup {Absent}
    BY <2>1
  <2>3. g_scene' \in Scenes
    BY <2>1, <2>2, LoadGives, Compiled
  <2>4. attr' \in [current_scene : Effects, last_sequence : 0..MaxSeq]
    BY <2>3, <1>10, ReportsGives DEF Reboot
  <2>5. resume' \in {"same", "unsaved", "promoted"}
    BY <2>1
  <2>6. /\ g_pending' \in Scenes /\ hScene' \in Scenes /\ rScene' \in Scenes
        /\ rPending' \in Scenes /\ last_scene' \in Scenes
    BY <1>10, Compiled DEF Reboot
  <2>7. /\ g_clock_offset_ms' \in Int /\ clock' \in Nat /\ rOffset' \in Int
        /\ rNow' \in Int /\ boots' \in Nat
    BY <1>10 DEF Reboot
  <2>8. rHas' \in BOOLEAN /\ g_has_pending' \in BOOLEAN /\ have_rendered_frame' \in BOOLEAN
    BY <1>10 DEF Reboot
  <2> QED BY <1>10, <2>2, <2>3, <2>4, <2>5, <2>6, <2>7, <2>8,
             NothingGives DEF Reboot
<1>11. CASE UNCHANGED vars
  BY <1>11 DEF vars, globals, env, handler, render, locals, history
<1> QED BY <1>1, <1>2, <1>3, <1>4, <1>5, <1>6, <1>7, <1>8, <1>9, <1>10, <1>11
           DEF Next, SetScene

\* Every variable of the node keeps its type across both threads and reboots.
THEOREM TypeCorrect == Spec => []TypeOK
<1>1. Init => TypeOK
  BY TypeInit
<1>2. TypeOK /\ [Next]_vars => TypeOK'
  BY TypeStep
<1> QED BY <1>1, <1>2, PTL DEF Spec

-----------------------------------------------------------------------------
(* The scene invariant: the newest command wins, and saving is exact *)

LEMMA InvInit == Init => IInv
BY DEF Init, IInv, LastAcceptedWins, AttributesFollow,
       ResumesShownScene, SaveWindow, OnlyScheduledWaits, Load

LEMMA InvStep == TypeOK /\ IInv /\ [Next]_vars => IInv'
<1> SUFFICES ASSUME TypeOK, IInv, [Next]_vars PROVE IInv'
    OBVIOUS
<1> USE DEF IInv, LastAcceptedWins, AttributesFollow,
            ResumesShownScene, SaveWindow, OnlyScheduledWaits
<1>1. CASE DecodeSetScene
  BY <1>1 DEF DecodeSetScene, globals, env, render, Load
<1>2. CASE RejectUnknownEffect
  BY <1>2 DEF RejectUnknownEffect, globals, env, render, history, Load
<1>3. CASE ApplyNow
  BY <1>3 DEF ApplyNow, env, render, Load
<1>4. CASE StagePending
  BY <1>4 DEF StagePending, env, render, Load
<1>5. CASE SaveScene
  <2>1. hScene \in Scenes /\ hScene.start = 0 /\ hScene = g_scene
    BY <1>5 DEF SaveScene, TypeOK
  <2>2. nvs_scene' = Record(hScene) => Load(nvs_scene') = g_scene
    BY <2>1, RecordKeeps, SceneAssumption DEF Load
  <2>3. ResumesShownScene'
    BY <1>5, <2>2 DEF SaveScene, globals
  <2> QED BY <1>5, <2>3 DEF SaveScene, globals, env, render
<1>6. CASE UpdateAttributes
  BY <1>6 DEF UpdateAttributes, globals, env, render, history, Load
<1>7. CASE SyncClock
  BY <1>7 DEF SyncClock, env, handler, render, history, Load
<1>8. CASE RenderTask
  <2>1. CASE Snapshot
    BY <2>1 DEF Snapshot, globals, env, handler, history, Load
  <2>2. CASE Decide
    BY <2>2 DEF Decide, globals, env, handler, history, Load
  <2>3. CASE Promote
    <3>1. CASE StillPending
      BY <2>3, <3>1 DEF Promote, StillPending, env, handler
    <3>2. CASE ~StillPending
      BY <2>3, <3>2 DEF Promote, env, handler, Load
    <3> QED BY <3>1, <3>2
  <2>4. CASE Draw
    BY <2>4 DEF Draw, globals, env, handler, history, Load
  <2> QED BY <1>8, <2>1, <2>2, <2>3, <2>4 DEF RenderTask
<1>9. CASE Tick
  BY <1>9 DEF Tick, globals, handler, render, history, Load
<1>10. CASE Reboot
  <2>1. PICK b \in Boots :
          /\ g_scene' = IF b = "unreadable" THEN DefaultScene ELSE Load(nvs_scene')
          /\ resume' = IF b = "unreadable" THEN "unsaved" ELSE "same"
    BY <1>10 DEF Reboot
  <2>2. ResumesShownScene'
    BY <2>1
  <2> QED BY <1>10, <2>2 DEF Reboot
<1>11. CASE UNCHANGED vars
  BY <1>11 DEF vars, globals, env, handler, render, history, Load
<1> QED BY <1>1, <1>2, <1>3, <1>4, <1>5, <1>6, <1>7, <1>8, <1>9, <1>10, <1>11
           DEF Next, SetScene

LEMMA Invariant == Spec => []IInv
<1>1. Init => IInv
  BY InvInit
<1>2. TypeOK /\ IInv /\ [Next]_vars => IInv'
  BY InvStep
<1> QED BY <1>1, <1>2, TypeCorrect, PTL DEF Spec

\* The command accepted last is the scene that waits or the scene that is
\* active, whatever the render task does between the handler's steps.
THEOREM NewestCommandWins == Spec => []LastAcceptedWins
<1>1. IInv => LastAcceptedWins
  BY DEF IInv
<1> QED BY <1>1, Invariant, PTL

\* A saved immediate scene is restored exactly by the next power-up.
THEOREM PowerUpResumes == Spec => []ResumesShownScene
<1>1. IInv => ResumesShownScene
  BY DEF IInv
<1> QED BY <1>1, Invariant, PTL

\* Between commands last_sequence is that of the scene accepted last, and once
\* nothing waits current_scene is the effect of the active scene.
THEOREM AttributesAgree == Spec => []ReadBackSettles
<1>1. IInv => ReadBackSettles
  BY DEF IInv, LastAcceptedWins, AttributesFollow, Reports, ReadBackSettles
<1> QED BY <1>1, Invariant, PTL

-----------------------------------------------------------------------------
(* The base of a partial SetScene *)

\* Laying the tags over the base gives a scene that differs from it in the
\* fields named only.
LEMMA MergeKeeps ==
    ASSUME NEW b \in Scenes, NEW v \in Scenes, NEW tags
    PROVE  Merge(b, tags, v) = Merge(b, tags, Merge(b, tags, v))
BY DEF Merge, Scenes

BaseInv == InheritsActiveScene /\ WaitsAsRead

LEMMA BaseStep == TypeOK /\ BaseInv /\ [Next]_vars => BaseInv'
<1> SUFFICES ASSUME TypeOK, BaseInv, [Next]_vars PROVE BaseInv'
    OBVIOUS
<1> USE DEF BaseInv, InheritsActiveScene, WaitsAsRead
<1>1. CASE DecodeSetScene
  <2>1. PICK tags \in Requests, v \in Scenes :
            /\ hScene' = Merge(g_scene, tags, v)
            /\ asked' = [tags |-> tags, waiting |-> Waiting]
    BY <1>1 DEF DecodeSetScene
  <2>2. hScene' = Merge(g_scene, tags, hScene')
    BY <2>1, MergeKeeps DEF TypeOK
  <2>3. g_has_pending => asked'.waiting = {g_pending}
    BY <2>1 DEF Waiting
  <2> QED BY <1>1, <2>1, <2>2, <2>3 DEF DecodeSetScene, globals
<1>2. CASE RejectUnknownEffect \/ ApplyNow \/ StagePending \/ SaveScene \/ UpdateAttributes
  BY <1>2 DEF RejectUnknownEffect, ApplyNow, StagePending, SaveScene, UpdateAttributes
<1>3. CASE Promote
  <2>1. CASE StillPending /\ g_scene' = g_pending /\ g_has_pending' = FALSE
    BY <1>3, <2>1 DEF Promote, StillPending, handler
  <2>2. CASE UNCHANGED <<g_scene, g_has_pending>>
    BY <1>3, <2>2 DEF Promote, handler
  <2> QED BY <1>3, <2>1, <2>2 DEF Promote
<1>4. CASE SyncClock \/ Snapshot \/ Decide \/ Draw \/ Tick
  BY <1>4 DEF SyncClock, Snapshot, Decide, Draw, Tick, globals, handler, history
<1>5. CASE Reboot
  BY <1>5 DEF Reboot
<1>6. CASE UNCHANGED vars
  BY <1>6 DEF vars, globals, handler, history
<1> QED BY <1>1, <1>2, <1>3, <1>4, <1>5, <1>6 DEF Next, SetScene, RenderTask

\* A field left out of a SetScene is that of the active scene, unless the scene
\* that waited when the command was read has flipped since.
THEOREM BaseIsActive == Spec => []InheritsActiveScene
<1>1. Init => BaseInv
  BY DEF Init, BaseInv, InheritsActiveScene, WaitsAsRead
<1>2. TypeOK /\ BaseInv /\ [Next]_vars => BaseInv'
  BY BaseStep
<1>3. BaseInv => InheritsActiveScene
  BY DEF BaseInv
<1> QED BY <1>1, <1>2, <1>3, TypeCorrect, PTL DEF Spec

-----------------------------------------------------------------------------
(* Synchronized time *)

LEMMA TimeStep == TypeOK /\ SyncedTime /\ [Next]_vars => SyncedTime'
<1> SUFFICES ASSUME TypeOK, SyncedTime, [Next]_vars PROVE SyncedTime'
    OBVIOUS
<1> USE DEF TypeOK, SyncedTime
<1>1. CASE DecodeSetScene \/ RejectUnknownEffect \/ ApplyNow \/ StagePending
             \/ SaveScene \/ UpdateAttributes
  BY <1>1 DEF DecodeSetScene, RejectUnknownEffect, ApplyNow, StagePending,
              SaveScene, UpdateAttributes, globals, env, render, locals
<1>2. CASE SyncClock
  <2>1. PICK t \in 0..MaxTime : g_clock_offset_ms' = t - clock
    BY <1>2 DEF SyncClock
  <2>2. t \in Int /\ t >= 0
    BY BoundsAssumption
  <2>3. clock + (t - clock) >= 0
    BY <2>2
  <2> QED BY <1>2, <2>1, <2>3 DEF SyncClock, env, render, locals
<1>3. CASE RenderTask
  <2>1. CASE Snapshot
    BY <2>1 DEF Snapshot, globals, env
  <2>2. CASE Decide
    BY <2>2 DEF Decide, globals, env
  <2>3. CASE Promote
    BY <2>3 DEF Promote, env
  <2>4. CASE Draw
    BY <2>4 DEF Draw, globals, env
  <2> QED BY <1>3, <2>1, <2>2, <2>3, <2>4 DEF RenderTask
<1>4. CASE Tick
  BY <1>4 DEF Tick, globals, render, locals
<1>5. CASE Reboot
  BY <1>5 DEF Reboot
<1>6. CASE UNCHANGED vars
  BY <1>6 DEF vars, globals, env, render, locals
<1> QED BY <1>1, <1>2, <1>3, <1>4, <1>5, <1>6 DEF Next, SetScene

\* The synchronized clock the render task computes is never negative, so the
\* conversion to uint64 never makes a far-away scene due.
THEOREM ClockNeverWraps == Spec => []SyncedTimeNeverWraps
<1>1. Init => SyncedTime
  BY DEF Init, SyncedTime
<1>2. TypeOK /\ SyncedTime /\ [Next]_vars => SyncedTime'
  BY TimeStep
<1>3. SyncedTime => SyncedTimeNeverWraps
  BY DEF SyncedTime, SyncedTimeNeverWraps
<1> QED BY <1>1, <1>2, <1>3, TypeCorrect, PTL DEF Spec

-----------------------------------------------------------------------------
(* No scheduled scene flips early *)

Names == SequenceNames /\ DueAtPromote

LEMMA NamesInit == Init => Names
BY DEF Init, Names, SequenceNames, DueAtPromote

LEMMA NamesStep ==
    FreshSequence /\ TypeOK /\ Names /\ [Next]_vars => Names'
<1> SUFFICES ASSUME FreshSequence, TypeOK, Names, [Next]_vars PROVE Names'
    OBVIOUS
<1> USE DEF Names, SequenceNames, DueAtPromote
<1>1. CASE DecodeSetScene
  <2>1. PICK tags \in Requests, v \in Scenes :
            v.seq \notin used /\ used' = used \cup {v.seq}
            /\ hScene' = Merge(g_scene, tags, v)
    BY <1>1 DEF DecodeSetScene
  <2>2. "seq" \in tags
    BY RequestAssumption
  <2>3. hScene'.seq = v.seq
    BY <2>1, <2>2 DEF Merge
  <2> QED BY <1>1, <2>1, <2>3 DEF DecodeSetScene, globals, render, locals
<1>2. CASE RejectUnknownEffect
  BY <1>2 DEF RejectUnknownEffect, globals, render, locals, history
<1>3. CASE ApplyNow
  BY <1>3 DEF ApplyNow, render, locals
<1>4. CASE StagePending
  BY <1>4 DEF StagePending, render, locals
<1>5. CASE SaveScene
  BY <1>5 DEF SaveScene, globals, render, locals
<1>6. CASE UpdateAttributes
  BY <1>6 DEF UpdateAttributes, globals, render, locals, history
<1>7. CASE SyncClock
  BY <1>7 DEF SyncClock, handler, render, locals, history
<1>8. CASE RenderTask
  <2>1. CASE Snapshot
    BY <2>1 DEF Snapshot, globals, handler, history
  <2>2. CASE Decide
    BY <2>2 DEF Decide, globals, handler, history
  <2>3. CASE Promote
    BY <2>3 DEF Promote, handler
  <2>4. CASE Draw
    BY <2>4 DEF Draw, globals, handler, history
  <2> QED BY <1>8, <2>1, <2>2, <2>3, <2>4 DEF RenderTask
<1>9. CASE Tick
  BY <1>9 DEF Tick, globals, handler, render, locals, history
<1>10. CASE Reboot
  BY <1>10 DEF Reboot
<1>11. CASE UNCHANGED vars
  BY <1>11 DEF vars, globals, handler, render, locals, history
<1> QED BY <1>1, <1>2, <1>3, <1>4, <1>5, <1>6, <1>7, <1>8, <1>9, <1>10, <1>11
           DEF Next, SetScene

LEMMA OffsetStep == TypeOK /\ OffsetFollows /\ [Next]_vars => OffsetFollows'
<1> SUFFICES ASSUME TypeOK, OffsetFollows, [Next]_vars PROVE OffsetFollows'
    OBVIOUS
<1> USE DEF TypeOK, OffsetFollows
<1>1. CASE DecodeSetScene \/ RejectUnknownEffect \/ ApplyNow
  BY <1>1 DEF DecodeSetScene, RejectUnknownEffect, ApplyNow, globals, env,
              render, locals, history
<1>8. CASE StagePending \/ SaveScene \/ UpdateAttributes
  BY <1>8 DEF StagePending, SaveScene, UpdateAttributes, globals, env,
              render, locals, history
<1>2. CASE SyncClock
  <2>1. rPc \in {"decide", "promote"} => synced'
    BY <1>2 DEF SyncClock
  <2> QED BY <1>2, <2>1 DEF SyncClock, env, render, locals
<1>3. CASE Snapshot \/ Promote \/ Draw
  BY <1>3 DEF Snapshot, Promote, Draw, globals, env
<1>4. CASE Decide
  BY <1>4 DEF Decide, globals, env, history
<1>5. CASE Tick
  BY <1>5 DEF Tick, globals, render, locals, history
<1>6. CASE Reboot
  BY <1>6 DEF Reboot
<1>7. CASE UNCHANGED vars
  BY <1>7 DEF vars, globals, env, render, locals, history
<1> QED BY <1>1, <1>2, <1>3, <1>4, <1>5, <1>6, <1>7, <1>8
           DEF Next, SetScene, RenderTask

\* The start of the pending scene is reached, by the time of the pass and, unless
\* it was set in between, by the clock of the node.
Due == /\ rNow >= g_pending.start
       /\ synced \/ clock + g_clock_offset_ms >= g_pending.start

\* Only the promotion flips, and it flips the scene whose start was reached.
LEMMA FlipIsDue ==
    TypeOK /\ IInv /\ Names /\ OffsetFollows /\ [Next]_vars => (Flips => Due)
<1> SUFFICES ASSUME TypeOK, IInv, Names, OffsetFollows, Next, Flips
             PROVE  Due
    BY DEF vars, globals, Flips, TypeOK
<1>1. CASE Promote
  <2>1. StillPending
    BY <1>1 DEF Promote, Flips
  <2>2. g_pending = rPending
    BY <1>1, <2>1 DEF Promote, StillPending, Names, SequenceNames, DueAtPromote
  <2>3. rNow >= g_pending.start /\ g_pending.start \in Int
    BY <1>1, <2>2, BoundsAssumption DEF Promote, Names, DueAtPromote, TypeOK, Scenes
  <2>4. ~synced => rNow <= clock + g_clock_offset_ms
    BY <1>1 DEF Promote, OffsetFollows, TypeOK
  <2> QED BY <2>3, <2>4 DEF Due, TypeOK
<1>2. CASE ApplyNow
  BY <1>2 DEF ApplyNow, Flips, IInv, OnlyScheduledWaits
<1>3. CASE Reboot
  BY <1>3 DEF Reboot, Flips, TypeOK
<1>4. CASE \/ DecodeSetScene \/ RejectUnknownEffect \/ StagePending
           \/ SaveScene \/ UpdateAttributes \/ SyncClock \/ Tick
           \/ Snapshot \/ Decide \/ Draw
  BY <1>4 DEF DecodeSetScene, RejectUnknownEffect, StagePending, SaveScene,
              UpdateAttributes, SyncClock, Tick, Snapshot, Decide, Draw,
              globals, Flips
<1> QED BY <1>1, <1>2, <1>3, <1>4 DEF Next, SetScene, RenderTask

\* When no two commands share a sequence number, the re-check by sequence is
\* enough: no scheduled scene takes over before its own start.
THEOREM NeverEarly == FreshSequence /\ Spec => NoEarlyFlip
<1>1. SUFFICES ASSUME FreshSequence PROVE Spec => NoEarlyFlip
  OBVIOUS
<1>2. Init => Names
  BY NamesInit
<1>3. TypeOK /\ Names /\ [Next]_vars => Names'
  BY <1>1, NamesStep
<1>4. Init => OffsetFollows
  BY DEF Init, OffsetFollows
<1>5. TypeOK /\ OffsetFollows /\ [Next]_vars => OffsetFollows'
  BY OffsetStep
<1>6. TypeOK /\ IInv /\ Names /\ OffsetFollows /\ [Next]_vars
        => [Flips => Due]_vars
  BY FlipIsDue
<1> QED BY <1>2, <1>3, <1>4, <1>5, <1>6, TypeCorrect, Invariant, PTL
        DEF Spec, NoEarlyFlip, Due

-----------------------------------------------------------------------------
(* The node implements the abstract promise *)

LEMMA PromiseInit == Init => Promise!Init
BY DEF Init, Promise!Init, Load

LEMMA PromiseStep ==
    TypeOK /\ IInv /\ [Next]_vars => [Promise!Next]_(Promise!vars)
<1> SUFFICES ASSUME TypeOK, IInv, [Next]_vars
             PROVE  Promise!Next \/ UNCHANGED Promise!vars
    OBVIOUS
<1> USE DEF Promise!vars
<1>1. CASE ApplyNow
  <2>1. hScene \in Scenes /\ Promise!Show(hScene)
    BY <1>1 DEF ApplyNow, Promise!Show, TypeOK, Load
  <2> QED BY <2>1 DEF Promise!Next
<1>2. CASE StagePending
  <2>1. hScene \in Scenes /\ Promise!Stage(hScene)
    BY <1>2 DEF StagePending, Promise!Stage, TypeOK, Load
  <2> QED BY <2>1 DEF Promise!Next
<1>3. CASE SaveScene
  <2>1. hScene \in Scenes /\ hScene.start = 0 /\ hScene = g_scene
    BY <1>3 DEF SaveScene, TypeOK, IInv, SaveWindow
  <2>2. Load(Record(hScene)) = g_scene
    BY <2>1, RecordKeeps, SceneAssumption DEF Load
  <2>3. UNCHANGED globals /\ nvs_scene' \in {nvs_scene, Record(hScene)}
    BY <1>3 DEF SaveScene
  <2>4. CASE nvs_scene' = nvs_scene
    BY <2>3, <2>4 DEF globals, Load
  <2>5. CASE nvs_scene' = Record(hScene)
    BY <2>1, <2>2, <2>3, <2>5 DEF globals, Promise!Store, Promise!Next
  <2> QED BY <2>3, <2>4, <2>5
<1>4. CASE Promote
  <2>1. CASE StillPending
    <3>1. Promise!Flip
      BY <1>4, <2>1 DEF Promote, StillPending, Promise!Flip, Load
    <3> QED BY <3>1 DEF Promise!Next
  <2>2. CASE ~StillPending
    BY <1>4, <2>2 DEF Promote, Load
  <2> QED BY <2>1, <2>2
<1>5. CASE Reboot
  <2>1. PICK b \in Boots :
          /\ nvs_scene' = IF b = "erased" THEN Absent ELSE nvs_scene
          /\ g_scene' = IF b = "unreadable" THEN DefaultScene ELSE Load(nvs_scene')
    BY <1>5 DEF Reboot
  <2>2. Load(nvs_scene') \in {Load(nvs_scene), DefaultScene}
    BY <2>1 DEF Load
  <2>3. Promise!PowerUp
    BY <1>5, <2>1, <2>2 DEF Reboot, Promise!PowerUp
  <2> QED BY <2>3 DEF Promise!Next
<1>6. CASE \/ DecodeSetScene \/ RejectUnknownEffect \/ UpdateAttributes
           \/ SyncClock \/ Tick \/ Snapshot \/ Decide \/ Draw
  BY <1>6 DEF DecodeSetScene, RejectUnknownEffect, UpdateAttributes, SyncClock,
              Tick, Snapshot, Decide, Draw, globals, Load
<1>7. CASE UNCHANGED vars
  BY <1>7 DEF vars, globals, Load
<1> QED BY <1>1, <1>2, <1>3, <1>4, <1>5, <1>6, <1>7
           DEF Next, SetScene, RenderTask

\* The two threads, the locks and the NVS record implement the promise: there
\* is one active scene, at most one waiting, and power-up restores a scene that
\* was active.
THEOREM Implements == Spec => KeepsPromise
<1>1. Init => Promise!Init
  BY PromiseInit
<1>2. TypeOK /\ IInv /\ [Next]_vars => [Promise!Next]_(Promise!vars)
  BY PromiseStep
<1> QED BY <1>1, <1>2, TypeCorrect, Invariant, PTL
        DEF Spec, KeepsPromise, Promise!Spec

=============================================================================
