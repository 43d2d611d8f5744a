------------------------------- MODULE LedStrip -------------------------------
(***************************************************************************)
(* The picture on the virtual strip: nodes that each draw their own segment *)
(* of it, on their own passes of the render loop.                           *)
(*                                                                         *)
(* All nodes have flipped to the same scene (Orchestra); a node's synced    *)
(* clock lags the controller's by a fixed part of the latency.  A pass      *)
(* takes the scene and the calibration, compares them with those of the     *)
(* last frame, draws if it must and sleeps for a frame or, when the scene   *)
(* is static, for a poll.  The tick of the clock jumps to the next pass, so *)
(* passes happen when they are due or late by as much as Late allows.       *)
(***************************************************************************)
EXTENDS LedEffects

CONSTANTS
    Nodes, Layout,  \* the nodes and their g_node
    LedCount,       \* CONFIG_LED_ORCHESTRA_LED_COUNT
    Lag,            \* Lag[n]: how far n's synced clock is behind
    Scenes,         \* scenes the nodes start from
    NextScenes,     \* scenes a command can bring
    Calibrations,   \* calibrations; Identity is the uncalibrated one
    Identity,
    Epochs,         \* controller uptimes at which the model starts
    Horizon,        \* bound: how long it then runs
    Late,           \* by how much a pass can be late
    MaxChanges,     \* bound: commands
    None

FrameDelay      == 16       \* kFrameDelay
StaticPollDelay == 100      \* kStaticPollDelay

\* What the C types and the checks of the handler allow.
CalibrationTyped(c) ==
    /\ c.time_offset_ms \in Int /\ c.brightness_cap \in Bytes
    /\ c.palette_override \in PaletteRefs \cup {NoPalette}
    /\ c.color_correction \in Pixels /\ c.color_temperature \in Pixels

ASSUME StripAssumption ==
    /\ Identity \in Calibrations /\ NextScenes \subseteq Scenes
    /\ Lag \in [Nodes -> Nat] /\ Epochs \subseteq Nat /\ Late \subseteq Nat
    /\ \A n \in Nodes, e \in Epochs : Lag[n] <= e
    /\ LedCount \in Nat /\ Horizon \in Nat /\ MaxChanges \in Nat
    /\ None \notin [scene : Scenes, calib : Calibrations, at : Nat]
    /\ \A s \in Scenes : SceneTyped(s)
    /\ \A n \in Nodes : LayoutTyped(Layout[n])
    /\ \A c \in Calibrations : CalibrationTyped(c)
    /\ Identity.brightness_cap = 255
    /\ Identity.color_correction = Grey(255) /\ Identity.color_temperature = Grey(255)

VARIABLES
    now, epoch,     \* the controller's clock, and where it started
    scene,          \* g_scene of every node
    calib,          \* g_calibration (and the output policy that follows it)
    wake,           \* when the render task's next pass is due
    drawn,          \* last_scene, last_calib and the time of the last frame
    strip,          \* the LEDs, by local index
    changes         \* bound: commands so far

commands == <<scene, calib, changes>>
time     == <<now, epoch>>
vars     == <<time, commands, wake, drawn, strip>>

-----------------------------------------------------------------------------
(* One frame *)

Animated(s) == s.effect \in ScrollingEffects

\* Unsigned: before the clock has passed the size of a negative offset it wraps.
effect_ms(at, c) == (at + c.time_offset_ms) % ClockWidth

\* The override of the node wins over the effect's palette.
palette_ref(s, c) ==
    CASE c.palette_override # NoPalette -> c.palette_override
      [] s.effect \in PaletteEffects    -> DefaultPalette[s.effect]
      [] OTHER                          -> NoPalette

PaletteFor(s, c) ==
    LET ref == palette_ref(s, c)
    IN  IF ref = NoPalette THEN [k \in 0..15 |-> Black] ELSE Palette[ref]

OutputPolicy(c) ==
    [color_correction  |-> c.color_correction, color_temperature |-> c.color_temperature,
     master_brightness |-> c.brightness_cap]

Lit(layout) == IF layout.segment_len < LedCount THEN layout.segment_len ELSE LedCount

\* The driver sends green before red, so red and green are swapped beforehand.
led_strip_set_pixel(red, green, blue) == <<green, red, blue>>

\* Mutated form: the effect gets the LED's place in its own segment.
Pixel_Local(layout, s, c, at, local) ==
    LET colour == apply_output_policy(
            led_orchestra_render_effect(s, layout, local, effect_ms(at, c), PaletteFor(s, c)),
            OutputPolicy(c))
    IN  led_strip_set_pixel(colour[2], colour[1], colour[3])

Pixel(layout, s, c, at, local) ==
    LET global == (layout.segment_start + local) % WordWidth
        colour == apply_output_policy(
            led_orchestra_render_effect(s, layout, global, effect_ms(at, c), PaletteFor(s, c)),
            OutputPolicy(c))
    IN  led_strip_set_pixel(colour[2], colour[1], colour[3])

\* Mutated form: the LEDs behind the segment are not written.
Frame_NoTail(layout, s, c, at) ==
    [local \in 0..Lit(layout) - 1 |-> Pixel(layout, s, c, at, local)]

\* The LEDs behind the segment are switched off.
Frame(layout, s, c, at) ==
    [local \in 0..LedCount - 1 |->
        IF local < Lit(layout) THEN Pixel(layout, s, c, at, local) ELSE Black]

-----------------------------------------------------------------------------
Init ==
    /\ now \in Epochs /\ epoch = now
    /\ scene \in Scenes /\ \E c \in Calibrations : calib = [n \in Nodes |-> c]
    /\ wake = [n \in Nodes |-> now]
    /\ drawn = [n \in Nodes |-> None]
    /\ strip = [n \in Nodes |-> [local \in 0..LedCount - 1 |-> Black]]
    /\ changes = 0

RenderNeeded(n) ==
    \/ Animated(scene) \/ drawn[n] = None
    \/ drawn[n].scene # scene \/ drawn[n].calib # calib[n]

Sleep(n, delay) == \E late \in Late : wake' = [wake EXCEPT ![n] = now + delay + late]

\* A pass of the render loop: draw, or hold the frame latched in the strip.
Pass(n) ==
    /\ now = wake[n]
    /\ LET at == now - Lag[n]
       IN  IF RenderNeeded(n)
           THEN /\ drawn' = [drawn EXCEPT ![n] =
                                [scene |-> scene, calib |-> calib[n], at |-> at]]
                /\ strip' = [strip EXCEPT ![n] = Frame(Layout[n], scene, calib[n], at)]
           ELSE UNCHANGED <<drawn, strip>>
    /\ Sleep(n, IF Animated(scene) THEN FrameDelay ELSE StaticPollDelay)
    /\ UNCHANGED <<time, commands>>

SetScene(s) ==
    /\ changes < MaxChanges /\ changes' = changes + 1
    /\ scene' = s
    /\ UNCHANGED <<time, calib, wake, drawn, strip>>

SetCalibration(n, c) ==
    /\ changes < MaxChanges /\ changes' = changes + 1
    /\ calib' = [calib EXCEPT ![n] = c]
    /\ UNCHANGED <<time, scene, wake, drawn, strip>>

\* Nothing happens until the next pass is due.
Tick ==
    /\ now - epoch < Horizon
    /\ \A n \in Nodes : now < wake[n]
    /\ \E n \in Nodes : now' = wake[n] /\ \A m \in Nodes : wake[n] <= wake[m]
    /\ UNCHANGED <<epoch, commands, wake, drawn, strip>>

Next ==
    \/ \E n \in Nodes : Pass(n)
    \/ \E s \in NextScenes : SetScene(s)
    \/ \E n \in Nodes, c \in Calibrations : SetCalibration(n, c)
    \/ Tick

Spec == Init /\ [][Next]_vars

-----------------------------------------------------------------------------
(* Properties *)

\* Every variable keeps its type; no channel leaves its byte.
TypeOK ==
    /\ epoch \in Epochs /\ now \in Nat /\ now >= epoch
    /\ scene \in Scenes /\ calib \in [Nodes -> Calibrations]
    /\ wake \in [Nodes -> Nat] /\ changes \in 0..MaxChanges
    /\ \A n \in Nodes : drawn[n] # None =>
          drawn[n].scene \in Scenes /\ drawn[n].calib \in Calibrations /\ drawn[n].at \in Nat
    /\ strip \in [Nodes -> [0..LedCount - 1 -> Pixels]]

\* No effect, however it mixes, blends and adds, makes a channel brighter than
\* the scene's brightness or than the cap of the node that shows it, and the
\* LEDs behind the segment stay dark.
NeverBrighter ==
    \A n \in Nodes : drawn[n] # None => \A local \in 0..LedCount - 1, k \in Channels :
        /\ strip[n][local][k] <= drawn[n].scene.brightness
        /\ strip[n][local][k] <= drawn[n].calib.brightness_cap
        /\ local >= Layout[n].segment_len => strip[n][local][k] = 0

\* The whole strip as the segment of a single node.
OneNode(total) ==
    [node_id |-> 0, segment_start |-> 0, segment_len |-> total, total_leds |-> total]

\* What a node shows is its window onto one picture, the one a single node
\* with all the LEDs would show: colours follow the global index, the synced
\* time and the calibration, and nothing else of the node.  Identify is the
\* exception, by design.
StripIsAWindow ==
    \A n \in Nodes : drawn[n] # None /\ drawn[n].scene.effect # "identify" =>
        \A local \in 0..Lit(Layout[n]) - 1 :
            strip[n][local] = Pixel(OneNode(Layout[n].total_leds), drawn[n].scene,
                                    drawn[n].calib, drawn[n].at,
                                    Layout[n].segment_start + local)

\* Nodes a and b lie side by side, perhaps across the end of the strip.
Adjacent(a, b) ==
    /\ Layout[a].total_leds = Layout[b].total_leds
    /\ (Layout[a].segment_start + Layout[a].segment_len) % Layout[a].total_leds
          = Layout[b].segment_start

\* n drew its frame before the clock had passed the size of a negative offset.
Wrapped(n) == drawn[n].at + drawn[n].calib.time_offset_ms < 0

\* Both show one comet at full brightness, a step of its head apart at most;
\* the effect clocks of both are wrapped, or of neither.
ShowOneComet(a, b) ==
    /\ drawn[a] # None /\ drawn[b] # None
    /\ drawn[a].scene = drawn[b].scene /\ drawn[a].calib = drawn[b].calib
    /\ drawn[a].scene.effect = "comet" /\ drawn[a].scene.brightness = 255
    /\ 255 \in {drawn[a].scene.red, drawn[a].scene.green, drawn[a].scene.blue}
    /\ drawn[a].calib.brightness_cap = 255
    /\ Wrapped(a) <=> Wrapped(b)
    /\ (drawn[a].at - drawn[b].at) * Speed(drawn[a].scene) <= 8000
    /\ (drawn[b].at - drawn[a].at) * Speed(drawn[a].scene) <= 8000

\* The comet crosses the seam between two nodes in one piece, although they
\* draw at different moments and with different clock lags, and although a
\* negative offset wraps their effect clocks after boot: no dark LED inside it
\* and, when all of it is in sight, a tail on either side of the head (one
\* LED may be missing at the seam, where the frames are a step apart).
CometIsWhole ==
    \A a, b \in Nodes : Adjacent(a, b) /\ ShowOneComet(a, b) =>
        LET size    == Lit(Layout[a]) + Lit(Layout[b])
            Seen(j) == IF j < Lit(Layout[a]) THEN strip[a][j] # Black
                       ELSE strip[b][j - Lit(Layout[a])] # Black
            comet   == {j \in 0..size - 1 : Seen(j)}
        IN  /\ \A i, k \in comet : i..k \subseteq comet
            /\ comet # {} /\ 0 \notin comet /\ size - 1 \notin comet =>
                  \E i \in comet : i..(i + 15) \subseteq comet

\* At full brightness the channels of every Fibonacci LED are consecutive
\* Fibonacci numbers modulo 256 in some rotation, also where the table of one
\* period starts over and where the strip does.
FibonacciConsecutive ==
    \A n \in Nodes, local \in 0..LedCount - 1 :
        /\ drawn[n] # None /\ drawn[n].scene.effect = "fibonacci"
        /\ drawn[n].scene.brightness = 255 /\ drawn[n].calib = Identity
        /\ local < Lit(Layout[n])
        => LET c == strip[n][local]
           IN  \/ c[3] = Byte(c[1] + c[2]) \/ c[1] = Byte(c[2] + c[3])
               \/ c[2] = Byte(c[3] + c[1])

=============================================================================
