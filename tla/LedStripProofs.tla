---------------------------- MODULE LedStripProofs ----------------------------
(***************************************************************************)
(* Proofs about LedStrip: for any nodes, layouts, scenes and calibrations   *)
(* the strip of a node is the frame of its last drawing, so what holds of   *)
(* every frame (EffectBounds, PolicyBounds, LayoutBlind, FibonacciRotates)  *)
(* holds of the strips at all times.                                        *)
(***************************************************************************)
EXTENDS LedStrip, LedEffectsProofs

-----------------------------------------------------------------------------
(* The invariant *)

Frames == [scene : Scenes, calib : Calibrations, at : Nat]

DarkFrame == [local \in 0..LedCount - 1 |-> Black]

DrawnTyped == drawn \in [Nodes -> Frames \cup {None}]

\* The strip shows what was drawn last, and nothing before that.
ShowsTheFrame ==
    \A n \in Nodes :
        strip[n] = IF drawn[n] = None THEN DarkFrame
                   ELSE Frame(Layout[n], drawn[n].scene, drawn[n].calib, drawn[n].at)

IInv == TypeOK /\ DrawnTyped /\ ShowsTheFrame

-----------------------------------------------------------------------------
(* One frame *)

\* The fields of a calibration.
LEMMA CalibrationFields ==
    ASSUME NEW c \in Calibrations
    PROVE  CalibrationTyped(c) /\ c.brightness_cap \in Bytes
BY StripAssumption DEF CalibrationTyped

\* The effect clock does not go below zero.
LEMMA ClockTyped ==
    ASSUME NEW c \in Calibrations, NEW at \in Nat
    PROVE  effect_ms(at, c) \in Nat
<1>1. c.time_offset_ms \in Int
  BY CalibrationFields DEF CalibrationTyped
<1>2. ClockWidth \in Nat \ {0}
  BY EffectsAssumption
<1> QED BY <1>1, <1>2 DEF effect_ms

\* There is a palette for every scene and calibration.
LEMMA PaletteTyped ==
    ASSUME NEW s, NEW c \in Calibrations
    PROVE  PaletteFor(s, c) \in Palettes16
<1>1. [k \in 0..15 |-> Black] \in Palettes16
  <2>1. Black \in Pixels
    BY BlackIsDark, BytesTyped
  <2> QED BY <2>1 DEF Palettes16
<1>2. palette_ref(s, c) \in PaletteRefs \cup {NoPalette}
  <2>1. c.palette_override \in PaletteRefs \cup {NoPalette}
    BY CalibrationFields DEF CalibrationTyped
  <2>2. s.effect \in PaletteEffects => DefaultPalette[s.effect] \in PaletteRefs
    BY EffectsAssumption
  <2> QED BY <2>1, <2>2 DEF palette_ref
<1>3. palette_ref(s, c) # NoPalette => Palette[palette_ref(s, c)] \in Palettes16
  BY <1>2, EffectsAssumption
<1> QED BY <1>1, <1>3 DEF PaletteFor

\* A triple is given by its three channels.
LEMMA TripleEta ==
    ASSUME NEW m \in Bytes, NEW c \in UpTo(m)
    PROVE  <<c[1], c[2], c[3]>> = c
BY DEF UpTo, Channels

\* A pixel is no brighter than its scene and no brighter than the cap.
LEMMA PixelBounds ==
    ASSUME NEW n \in Nodes, NEW s \in Scenes, NEW c \in Calibrations, NEW at \in Nat,
           NEW local \in Nat
    PROVE  Pixel(Layout[n], s, c, at, local) \in UpTo(s.brightness) \cap UpTo(c.brightness_cap)
<1> DEFINE global == (Layout[n].segment_start + local) % WordWidth
           drew   == led_orchestra_render_effect(s, Layout[n], global, effect_ms(at, c),
                                                 PaletteFor(s, c))
           colour == apply_output_policy(drew, OutputPolicy(c))
<1>1. SceneTyped(s) /\ LayoutTyped(Layout[n]) /\ s.brightness \in Bytes
  BY StripAssumption, SceneFields
<1>2. global \in Words
  <2>1. Layout[n].segment_start \in Nat
    BY <1>1, WordsTyped DEF LayoutTyped
  <2>2. Layout[n].segment_start + local \in Nat
    BY <2>1
  <2> QED BY <2>2, WordsTyped
<1> HIDE DEF global
<1>3. drew \in UpTo(s.brightness)
  BY <1>1, <1>2, ClockTyped, PaletteTyped, EffectBounds
<1> HIDE DEF drew
<1>4. /\ OutputPolicy(c).color_correction \in Pixels /\ OutputPolicy(c).color_temperature \in Pixels
      /\ OutputPolicy(c).master_brightness \in Bytes
      /\ OutputPolicy(c).master_brightness = c.brightness_cap
  BY CalibrationFields DEF CalibrationTyped, OutputPolicy
<1>5. colour \in UpTo(s.brightness) \cap UpTo(c.brightness_cap)
  BY <1>1, <1>3, <1>4, PolicyBounds
<1> HIDE DEF colour
<1>6. Pixel(Layout[n], s, c, at, local) = <<colour[1], colour[2], colour[3]>>
  BY DEF Pixel, led_strip_set_pixel, colour, drew, global
<1> QED BY <1>1, <1>5, <1>6, TripleEta

\* A frame has a pixel for every LED.
LEMMA FrameTyped ==
    ASSUME NEW n \in Nodes, NEW s \in Scenes, NEW c \in Calibrations, NEW at \in Nat
    PROVE  Frame(Layout[n], s, c, at) \in [0..LedCount - 1 -> Pixels]
<1>1. ASSUME NEW local \in 0..LedCount - 1
      PROVE  (IF local < Lit(Layout[n]) THEN Pixel(Layout[n], s, c, at, local) ELSE Black) \in Pixels
  <2>1. local \in Nat /\ s.brightness \in Bytes
    BY StripAssumption, SceneFields
  <2>2. s.brightness \in 0..255 /\ 255 \in Bytes
    BY <2>1 DEF Bytes
  <2>3. Pixel(Layout[n], s, c, at, local) \in Pixels
    BY <2>1, <2>2, PixelBounds, UpToGrows
  <2>4. Black \in Pixels
    BY <2>2, BlackIsDark
  <2> QED BY <2>3, <2>4
<1> QED BY <1>1 DEF Frame

-----------------------------------------------------------------------------
(* The invariant is inductive *)

LEMMA InitInv == Init => IInv
<1> SUFFICES ASSUME Init PROVE IInv
  OBVIOUS
<1> USE DEF Init
<1>1. epoch \in Epochs /\ now \in Nat /\ now >= epoch /\ epoch \in Nat
  BY StripAssumption
<1>2. scene \in Scenes /\ calib \in [Nodes -> Calibrations]
  OBVIOUS
<1>3. wake \in [Nodes -> Nat] /\ changes \in 0..MaxChanges
  BY <1>1, StripAssumption
<1>4. DrawnTyped /\ \A n \in Nodes : drawn[n] = None
  BY DEF DrawnTyped
<1>5. strip \in [Nodes -> [0..LedCount - 1 -> Pixels]]
  <2>1. 255 \in Bytes
    BY BytesTyped
  <2>2. Black \in Pixels
    BY <2>1, BlackIsDark
  <2> QED BY <2>2
<1>6. ShowsTheFrame
  BY <1>4 DEF ShowsTheFrame, DarkFrame
<1> QED BY <1>1, <1>2, <1>3, <1>4, <1>5, <1>6 DEF IInv, TypeOK

\* A pass draws a frame of the scene and calibration in force, or none.
LEMMA PassInv ==
    ASSUME IInv, NEW n \in Nodes, Pass(n)
    PROVE  IInv'
<1> USE DEF IInv
<1> DEFINE at    == now - Lag[n]
           frame == [scene |-> scene, calib |-> calib[n], at |-> at]
<1>1. UNCHANGED <<now, epoch, scene, calib, changes>>
  BY DEF Pass, time, commands
<1>2. at \in Nat
  <2>1. epoch \in Epochs /\ now \in Nat /\ now >= epoch
    BY DEF TypeOK
  <2>2. Lag[n] \in Nat /\ Lag[n] <= epoch /\ epoch \in Nat
    BY <2>1, StripAssumption
  <2> QED BY <2>1, <2>2
<1> HIDE DEF at
<1>3. frame \in Frames /\ frame # None
  <2>1. scene \in Scenes /\ calib[n] \in Calibrations
    BY DEF TypeOK
  <2>2. frame \in Frames
    BY <1>2, <2>1 DEF Frames
  <2> QED BY <2>2, StripAssumption DEF Frames
<1>4. wake' \in [Nodes -> Nat]
  <2>1. PICK delay \in {FrameDelay, StaticPollDelay}, late \in Late :
           wake' = [wake EXCEPT ![n] = now + delay + late]
    BY DEF Pass, Sleep
  <2>2. now \in Nat /\ delay \in Nat /\ late \in Nat /\ wake \in [Nodes -> Nat]
    BY StripAssumption DEF TypeOK, FrameDelay, StaticPollDelay
  <2>3. now + delay + late \in Nat
    BY <2>2
  <2> QED BY <2>1, <2>2, <2>3
<1>5. CASE UNCHANGED <<drawn, strip>>
  BY <1>1, <1>4, <1>5 DEF TypeOK, DrawnTyped, ShowsTheFrame
<1>6. CASE /\ drawn' = [drawn EXCEPT ![n] = frame]
           /\ strip' = [strip EXCEPT ![n] = Frame(Layout[n], scene, calib[n], at)]
  <2>1. DrawnTyped'
    BY <1>3, <1>6 DEF DrawnTyped
  <2>2. Frame(Layout[n], scene, calib[n], at) \in [0..LedCount - 1 -> Pixels]
    BY <1>2, FrameTyped DEF TypeOK
  <2>3. strip' \in [Nodes -> [0..LedCount - 1 -> Pixels]]
    BY <1>6, <2>2 DEF TypeOK
  <2>4. drawn'[n] = frame /\ \A m \in Nodes \ {n} : drawn'[m] = drawn[m]
    BY <1>6 DEF DrawnTyped
  <2>5. strip'[n] = Frame(Layout[n], scene, calib[n], at)
        /\ \A m \in Nodes \ {n} : strip'[m] = strip[m]
    BY <1>6 DEF TypeOK
  <2>6. ShowsTheFrame'
    <3> SUFFICES ASSUME NEW m \in Nodes
                 PROVE  strip'[m] = IF drawn'[m] = None THEN DarkFrame
                                    ELSE Frame(Layout[m], drawn'[m].scene, drawn'[m].calib,
                                               drawn'[m].at)
      BY DEF ShowsTheFrame, DarkFrame
    <3>1. CASE m = n
      BY <1>3, <2>4, <2>5, <3>1
    <3>2. CASE m # n
      BY <2>4, <2>5, <3>2 DEF ShowsTheFrame
    <3> QED BY <3>1, <3>2
  <2>7. \A m \in Nodes : drawn'[m] # None =>
          drawn'[m].scene \in Scenes /\ drawn'[m].calib \in Calibrations /\ drawn'[m].at \in Nat
    BY <2>1 DEF DrawnTyped, Frames
  <2> QED BY <1>1, <1>4, <2>1, <2>3, <2>6, <2>7 DEF TypeOK
<1> QED BY <1>5, <1>6 DEF Pass, at

\* A step that leaves the drawn frames alone keeps the picture.
LEMMA FramesStay ==
    ASSUME IInv, UNCHANGED <<drawn, strip>>, epoch' = epoch, wake' = wake,
           now' \in Nat, now' >= now, scene' \in Scenes, calib' \in [Nodes -> Calibrations],
           changes' \in 0..MaxChanges
    PROVE  IInv'
<1>1. epoch \in Nat /\ now \in Nat /\ now >= epoch
  BY StripAssumption DEF IInv, TypeOK
<1>2. now' >= epoch'
  BY <1>1
<1> QED BY <1>2 DEF IInv, TypeOK, DrawnTyped, ShowsTheFrame

LEMMA NextInv == IInv /\ [Next]_vars => IInv'
<1> SUFFICES ASSUME IInv, [Next]_vars PROVE IInv'
  OBVIOUS
<1>0. /\ now \in Nat /\ scene \in Scenes /\ calib \in [Nodes -> Calibrations]
      /\ changes \in 0..MaxChanges /\ wake \in [Nodes -> Nat] /\ now >= now
  BY DEF IInv, TypeOK
<1>1. ASSUME NEW n \in Nodes, Pass(n) PROVE IInv'
  BY <1>1, PassInv
<1>2. ASSUME NEW s \in NextScenes, SetScene(s) PROVE IInv'
  <2>1. scene' \in Scenes /\ changes' \in 0..MaxChanges
    BY <1>0, <1>2, StripAssumption DEF SetScene
  <2> QED BY <1>0, <1>2, <2>1, FramesStay DEF SetScene, time
<1>3. ASSUME NEW n \in Nodes, NEW c \in Calibrations, SetCalibration(n, c) PROVE IInv'
  <2>1. calib' \in [Nodes -> Calibrations] /\ changes' \in 0..MaxChanges
    BY <1>0, <1>3, StripAssumption DEF SetCalibration
  <2> QED BY <1>0, <1>3, <2>1, FramesStay DEF SetCalibration, time
<1>4. CASE Tick
  <2>1. now' \in Nat /\ now' >= now
    BY <1>0, <1>4 DEF Tick
  <2> QED BY <1>0, <1>4, <2>1, FramesStay DEF Tick, commands
<1>5. CASE UNCHANGED vars
  BY <1>0, <1>5, FramesStay DEF vars, time, commands
<1> QED BY <1>1, <1>2, <1>3, <1>4, <1>5 DEF Next

LEMMA Invariance == Spec => []IInv
BY InitInv, NextInv, PTL DEF Spec

-----------------------------------------------------------------------------
(* The theorems *)

\* Every variable keeps its type; no channel of any LED ever leaves its byte.
THEOREM Typed == Spec => []TypeOK
<1>1. IInv => TypeOK
  BY DEF IInv
<1> QED BY <1>1, Invariance, PTL

\* What is seen of a node that has drawn, LED by LED.
LEMMA SeenPixel ==
    ASSUME IInv, NEW n \in Nodes, drawn[n] # None, NEW local \in 0..LedCount - 1
    PROVE  /\ drawn[n].scene \in Scenes /\ drawn[n].calib \in Calibrations /\ drawn[n].at \in Nat
           /\ strip[n][local] =
                IF local < Lit(Layout[n])
                THEN Pixel(Layout[n], drawn[n].scene, drawn[n].calib, drawn[n].at, local)
                ELSE Black
<1>1. drawn[n].scene \in Scenes /\ drawn[n].calib \in Calibrations /\ drawn[n].at \in Nat
  BY DEF IInv, TypeOK
<1>2. strip[n] = Frame(Layout[n], drawn[n].scene, drawn[n].calib, drawn[n].at)
  BY DEF IInv, ShowsTheFrame
<1> QED BY <1>1, <1>2 DEF Frame

\* Never brighter than the scene nor than the node's cap, and dark behind the
\* segment, for every effect, palette, layout, time and calibration.
THEOREM StaysDim == Spec => []NeverBrighter
<1>1. IInv => NeverBrighter
  <2> SUFFICES ASSUME IInv, NEW n \in Nodes, drawn[n] # None,
                      NEW local \in 0..LedCount - 1, NEW k \in Channels
               PROVE  /\ strip[n][local][k] <= drawn[n].scene.brightness
                      /\ strip[n][local][k] <= drawn[n].calib.brightness_cap
                      /\ local >= Layout[n].segment_len => strip[n][local][k] = 0
    BY DEF NeverBrighter
  <2> DEFINE s == drawn[n].scene
             c == drawn[n].calib
             p == strip[n][local]
  <2>1. s \in Scenes /\ c \in Calibrations /\ drawn[n].at \in Nat /\ local \in Nat
    <3>1. s \in Scenes /\ c \in Calibrations /\ drawn[n].at \in Nat
      BY SeenPixel
    <3> QED BY <3>1, StripAssumption
  <2>2. p = IF local < Lit(Layout[n])
            THEN Pixel(Layout[n], s, c, drawn[n].at, local) ELSE Black
    BY SeenPixel
  <2>3. s.brightness \in Bytes /\ c.brightness_cap \in Bytes
    BY <2>1, StripAssumption, SceneFields, CalibrationFields
  <2> HIDE DEF s, c, p
  <2>4. p \in UpTo(s.brightness) \cap UpTo(c.brightness_cap)
    BY <2>1, <2>2, <2>3, PixelBounds, BlackIsDark
  <2>5. p[k] <= s.brightness /\ p[k] <= c.brightness_cap
    <3>1. p[k] \in 0..s.brightness /\ p[k] \in 0..c.brightness_cap
      BY <2>4 DEF UpTo
    <3> QED BY <2>3, <3>1, BytesTyped
  <2>6. ASSUME local >= Layout[n].segment_len
        PROVE  p[k] = 0
    <3>1. Layout[n].segment_len \in Nat /\ LedCount \in Nat
      BY StripAssumption, WordsTyped DEF LayoutTyped
    <3>2. ~(local < Lit(Layout[n]))
      BY <2>1, <2>6, <3>1 DEF Lit
    <3>3. p = Black
      BY <2>2, <3>2
    <3> QED BY <3>3 DEF Black, Channels
  <2> QED BY <2>5, <2>6 DEF s, c, p
<1> QED BY <1>1, Invariance, PTL

\* Every node shows its window onto the picture that one node with all the
\* LEDs would show.
THEOREM ShowsItsWindow == Spec => []StripIsAWindow
<1>1. IInv => StripIsAWindow
  <2> SUFFICES ASSUME IInv, NEW n \in Nodes, drawn[n] # None,
                      drawn[n].scene.effect # "identify",
                      NEW local \in 0..Lit(Layout[n]) - 1
               PROVE  strip[n][local] =
                         Pixel(OneNode(Layout[n].total_leds), drawn[n].scene, drawn[n].calib,
                               drawn[n].at, Layout[n].segment_start + local)
    BY DEF StripIsAWindow
  <2> DEFINE s == drawn[n].scene
             c == drawn[n].calib
             m == OneNode(Layout[n].total_leds)
             t == effect_ms(drawn[n].at, c)
  <2>1. /\ Layout[n].segment_len \in Nat /\ Layout[n].segment_start \in Nat /\ LedCount \in Nat
        /\ local \in Nat
    BY StripAssumption, WordsTyped DEF LayoutTyped, Lit
  <2>2. local \in 0..LedCount - 1 /\ local < Lit(Layout[n])
    BY <2>1 DEF Lit
  <2>3. strip[n][local] = Pixel(Layout[n], s, c, drawn[n].at, local)
    BY <2>2, SeenPixel
  <2>4. /\ m.segment_start = 0 /\ m.total_leds = Layout[n].total_leds
        /\ 0 + (Layout[n].segment_start + local) = Layout[n].segment_start + local
    BY <2>1 DEF OneNode
  <2> DEFINE i == (Layout[n].segment_start + local) % WordWidth
  <2>5. led_orchestra_render_effect(s, Layout[n], i, t, PaletteFor(s, c))
           = led_orchestra_render_effect(s, m, i, t, PaletteFor(s, c))
    BY <2>4, LayoutBlind
  <2>6. (m.segment_start + (Layout[n].segment_start + local)) % WordWidth = i
    BY <2>4
  <2> QED BY <2>3, <2>5, <2>6 DEF Pixel
<1> QED BY <1>1, Invariance, PTL

\* A calibration that corrects nothing and caps nothing.
Neutral(c) ==
    /\ c.brightness_cap = 255
    /\ c.color_correction = Grey(255) /\ c.color_temperature = Grey(255)

\* It leaves a colour as it is.
LEMMA NeutralPolicy ==
    ASSUME NEW calibration, Neutral(calibration), NEW m \in Bytes, NEW c \in UpTo(m)
    PROVE  \A k \in Channels : apply_output_policy(c, OutputPolicy(calibration))[k] = c[k]
<1> DEFINE p == OutputPolicy(calibration)
<1>1. /\ p.master_brightness = 255
      /\ \A k \in Channels : p.color_correction[k] = 255 /\ p.color_temperature[k] = 255
  BY DEF OutputPolicy, Neutral, Grey, Channels
<1> HIDE DEF p
<1>2. apply_output_policy(c, p) =
         [k \in Channels |-> scale8(scale8(c[k], p.color_correction[k]), p.color_temperature[k])]
  BY <1>1 DEF apply_output_policy
<1>3. ASSUME NEW k \in Channels
      PROVE  apply_output_policy(c, p)[k] = c[k]
  <2>1. c[k] \in Bytes
    <3>1. c[k] \in 0..m /\ m \in Nat /\ m <= 255
      BY BytesTyped DEF UpTo
    <3>2. c[k] \in Nat /\ c[k] <= 255
      BY <3>1
    <3> QED BY <3>2, BytesTyped
  <2> QED BY <1>1, <1>2, <2>1, ScaleFull
<1> QED BY <1>3 DEF p

\* Wherever the Fibonacci effect shows a LED at full brightness, on any strip
\* and at any time, its channels are consecutive numbers in some rotation.
THEOREM FibonacciOnTheStrip == Spec => []FibonacciConsecutive
<1>1. IInv => FibonacciConsecutive
  <2> SUFFICES ASSUME IInv, NEW n \in Nodes, NEW local \in 0..LedCount - 1,
                      drawn[n] # None, drawn[n].scene.effect = "fibonacci",
                      drawn[n].scene.brightness = 255, drawn[n].calib = Identity,
                      local < Lit(Layout[n])
               PROVE  LET c == strip[n][local]
                      IN  \/ c[3] = Byte(c[1] + c[2]) \/ c[1] = Byte(c[2] + c[3])
                          \/ c[2] = Byte(c[3] + c[1])
    BY DEF FibonacciConsecutive
  <2> DEFINE s == drawn[n].scene
             i == (Layout[n].segment_start + local) % WordWidth
             t == effect_ms(drawn[n].at, Identity)
             r == render_fibonacci(s, Layout[n], i, t)
             o == apply_output_policy(r, OutputPolicy(Identity))
  <2>1. s \in Scenes /\ drawn[n].at \in Nat /\ Identity \in Calibrations /\ local \in Nat
    BY SeenPixel, StripAssumption
  <2>2. SceneTyped(s) /\ LayoutTyped(Layout[n]) /\ t \in Nat /\ s.brightness \in Bytes
    BY <2>1, StripAssumption, ClockTyped, SceneFields
  <2>3. i \in Words
    <3>1. Layout[n].segment_start \in Nat
      BY <2>2, WordsTyped DEF LayoutTyped
    <3>2. Layout[n].segment_start + local \in Nat
      BY <2>1, <3>1
    <3> QED BY <3>2, WordsTyped
  <2>4. strip[n][local] = <<o[1], o[2], o[3]>>
    <3>1. strip[n][local] = Pixel(Layout[n], s, Identity, drawn[n].at, local)
      BY SeenPixel
    <3>2. led_orchestra_render_effect(s, Layout[n], i, t, PaletteFor(s, Identity)) = r
      BY DEF led_orchestra_render_effect
    <3> QED BY <3>1, <3>2 DEF Pixel, led_strip_set_pixel
  <2> HIDE DEF i, t
  <2>5. r \in UpTo(s.brightness)
    BY <2>2, <2>3, FibonacciBounds
  <2>6. \/ r[3] = Byte(r[1] + r[2]) \/ r[1] = Byte(r[2] + r[3]) \/ r[2] = Byte(r[3] + r[1])
    BY <2>2, <2>3, FibonacciRotates
  <2> HIDE DEF r
  <2>7. o[1] = r[1] /\ o[2] = r[2] /\ o[3] = r[3]
    <3>1. Neutral(Identity)
      BY StripAssumption DEF Neutral
    <3> QED BY <2>2, <2>5, <3>1, NeutralPolicy DEF Channels
  <2> HIDE DEF o
  <2> QED BY <2>4, <2>6, <2>7
<1> QED BY <1>1, Invariance, PTL

-----------------------------------------------------------------------------
(* The comet *)

\* The turns around a ring of length L that a number makes, ...
LEMMA FullTurns ==
    ASSUME NEW x \in Nat, NEW L \in Nat \ {0}
    PROVE  x \div L \in Int /\ (x \div L) * L <= x /\ x < (x \div L) * L + L
OBVIOUS

LEMMA PlaceAfterTurns ==
    ASSUME NEW q \in Int, NEW r \in Nat, NEW L \in Nat \ {0}, r < L
    PROVE  (q * L + r) % L = r
OBVIOUS

\* ... and the place on the ring it comes to.
LEMMA Turns ==
    ASSUME NEW x \in Nat, NEW L \in Nat \ {0}
    PROVE  /\ x % L \in Nat /\ x % L < L
           /\ \E q \in Int : x = q * L + (x % L)
<1> DEFINE q == x \div L
<1>1. q \in Int /\ q * L <= x /\ x < q * L + L
  BY FullTurns
<1> HIDE DEF q
<1> DEFINE r == x - q * L
<1>2. r \in Nat /\ r < L /\ x = q * L + r
  BY <1>1
<1> HIDE DEF r
<1>3. x % L = r
  BY <1>1, <1>2, PlaceAfterTurns
<1>4. x = q * L + (x % L)
  BY <1>2, <1>3
<1>5. q \in Int
  BY <1>1
<1>6. \E k \in Int : x = k * L + (x % L)
  BY <1>4, <1>5, Zenon
<1> QED BY <1>2, <1>3, <1>6

\* One place on is the next, or the first after the last.
LEMMA NextPlace ==
    ASSUME NEW x \in Nat, NEW L \in Nat \ {0}
    PROVE  (x + 1) % L = IF x % L = L - 1 THEN 0 ELSE (x % L) + 1
<1> DEFINE r == x % L
<1>1. r \in Nat /\ r < L /\ L > 0
  BY Turns
<1>2. PICK q \in Int : x = q * L + r
  BY <1>1, Turns
<1> HIDE DEF r
<1>3. CASE r = L - 1
  <2> DEFINE k == q + 1
  <2>1. x + 1 = k * L + 0 /\ k \in Int
    BY <1>2, <1>3
  <2> HIDE DEF k
  <2>2. 0 \in Nat /\ 0 < L
    OBVIOUS
  <2>3. (k * L + 0) % L = 0
    BY <2>1, <2>2, PlaceAfterTurns
  <2> QED BY <1>3, <2>1, <2>3 DEF r
<1>4. CASE r # L - 1
  <2>1. x + 1 = q * L + (r + 1) /\ r + 1 \in Nat /\ r + 1 < L
    BY <1>1, <1>2, <1>4
  <2>2. (q * L + (r + 1)) % L = r + 1
    BY <2>1, PlaceAfterTurns
  <2> QED BY <1>4, <2>1, <2>2 DEF r
<1> QED BY <1>3, <1>4

\* Places p and h of a ring of length L are at most eight apart.
Near(p, h, L) == (p - h <= 8 /\ h - p <= 8) \/ p - h >= L - 8 \/ h - p >= L - 8

LEMMA RingNear ==
    ASSUME NEW L \in Nat \ {0}, NEW p \in Nat, NEW h \in Nat, p < L, h < L
    PROVE  ring_distance(p, h, L) \in Nat /\ (ring_distance(p, h, L) <= 8 <=> Near(p, h, L))
BY DEF ring_distance, Near

\* Two parts of a comet that meet at la are one piece.
LEMMA OnePiece ==
    ASSUME NEW la \in Nat, NEW lb \in Nat, NEW x \in Int, NEW d \in {-1, 0, 1},
           NEW comet \in SUBSET (0..la + lb - 1),
           \A j \in Int : 0 <= j /\ j < la => (j \in comet <=> x - 8 <= j /\ j <= x + 8),
           \A j \in Int : la <= j /\ j < la + lb =>
                (j \in comet <=> x + d - 8 <= j /\ j <= x + d + 8)
    PROVE  /\ \A i, k \in comet : i..k \subseteq comet
           /\ comet # {} /\ 0 \notin comet /\ la + lb - 1 \notin comet =>
                 \E i \in comet : i..(i + 15) \subseteq comet
<1>2. \A j \in comet : j \in Int /\ 0 <= j /\ j < la + lb
  OBVIOUS
<1>1. \A j \in Int : j \in comet <=>
         \/ 0 <= j /\ j < la /\ x - 8 <= j /\ j <= x + 8
         \/ la <= j /\ j < la + lb /\ x + d - 8 <= j /\ j <= x + d + 8
  BY <1>2
<1>3. ASSUME NEW i \in comet, NEW k \in comet, NEW j \in i..k
      PROVE  j \in comet
  <2>1. i \in Int /\ k \in Int /\ j \in Int /\ i <= j /\ j <= k
    BY <1>2
  <2> QED BY <1>1, <2>1
<1>4. ASSUME NEW c \in comet, 0 \notin comet, la + lb - 1 \notin comet
      PROVE  \E i \in comet : i..(i + 15) \subseteq comet
  <2>0. c \in Int /\ 0 \in Int /\ la + lb - 1 \in Int
    BY <1>2
  <2>1. CASE c < la
    <3>1. \A j \in Int : x - 8 <= j /\ j <= x + 7 => j \in comet
      BY <1>1, <1>4, <2>0, <2>1
    <3>2. x - 8 \in comet /\ \A j \in (x - 8)..((x - 8) + 15) : j \in comet
      BY <3>1
    <3> QED BY <3>2
  <2>2. CASE ~(c < la)
    <3>1. \A j \in Int : x + d - 7 <= j /\ j <= x + d + 8 => j \in comet
      BY <1>1, <1>4, <2>0, <2>2
    <3>2. x + d - 7 \in comet /\ \A j \in (x + d - 7)..((x + d - 7) + 15) : j \in comet
      BY <3>1
    <3> QED BY <3>2
  <2> QED BY <2>1, <2>2
<1> QED BY <1>3, <1>4

\* Two segments side by side on a ring of length L, of la LEDs from sa on and of
\* lb from sb on, that leave a gap of more than a comet behind them; the first
\* sees the head at ha and the second at hb, at most one place apart.
SideBySide(L, sa, la, sb, lb, ha, hb) ==
    /\ L \in Nat \ {0} /\ sa \in Nat /\ la \in Nat /\ sb \in Nat /\ lb \in Nat
    /\ sa + la <= L /\ sb + lb <= L /\ la + lb + 18 <= L
    /\ sb = sa + la \/ (sa + la = L /\ sb = 0)
    /\ ha \in Nat /\ hb \in Nat /\ ha < L /\ hb < L
    /\ \/ hb = ha \/ hb = ha + 1 \/ ha = hb + 1
       \/ (ha = L - 1 /\ hb = 0) \/ (hb = L - 1 /\ ha = 0)

\* Each sees its part of a comet, the two comets lie at most one LED apart, and
\* what is seen of them is in one piece.
LEMMA OneComet ==
    ASSUME NEW L, NEW sa, NEW la, NEW sb, NEW lb, NEW ha, NEW hb,
           SideBySide(L, sa, la, sb, lb, ha, hb),
           NEW comet \in SUBSET (0..la + lb - 1),
           \A j \in Int : 0 <= j /\ j < la => (j \in comet <=> Near(sa + j, ha, L)),
           \A j \in Int : la <= j /\ j < la + lb =>
                (j \in comet <=> Near(sb + (j - la), hb, L))
    PROVE  /\ \A i, k \in comet : i..k \subseteq comet
           /\ comet # {} /\ 0 \notin comet /\ la + lb - 1 \notin comet =>
                 \E i \in comet : i..(i + 15) \subseteq comet
<1> USE DEF SideBySide
<1> DEFINE from == ha - sa
           x == IF from < -9 THEN from + L ELSE IF from > L - 10 THEN from - L ELSE from
<1>1. x \in Int /\ x >= -9 /\ x <= L - 10 /\ (x = from \/ x = from + L \/ x = from - L)
  OBVIOUS
<1>2. PICK d \in {-1, 0, 1} : hb = ha + d \/ hb = ha + d - L \/ hb = ha + d + L
  <2>1. CASE hb = ha
    <3>1. hb = ha + 0
      BY <2>1
    <3> QED BY <3>1
  <2>2. CASE hb = ha + 1
    BY <2>2
  <2>3. CASE ha = hb + 1
    <3>1. hb = ha + (-1)
      BY <2>3
    <3> QED BY <3>1
  <2>4. CASE ha = L - 1 /\ hb = 0
    <3>1. hb = ha + 1 - L
      BY <2>4
    <3> QED BY <3>1
  <2>5. CASE hb = L - 1 /\ ha = 0
    <3>1. hb = ha + (-1) + L
      BY <2>5
    <3> QED BY <3>1
  <2> QED BY <2>1, <2>2, <2>3, <2>4, <2>5
<1> HIDE DEF x
<1>3. ASSUME NEW j \in Int, 0 <= j, j < la
      PROVE  j \in comet <=> x - 8 <= j /\ j <= x + 8
  <2>1. Near(sa + j, ha, L) <=> x - 8 <= j /\ j <= x + 8
    BY <1>1, <1>3 DEF Near
  <2> QED BY <1>3, <2>1
<1>4. ASSUME NEW j \in Int, la <= j, j < la + lb
      PROVE  j \in comet <=> x + d - 8 <= j /\ j <= x + d + 8
  <2>1. Near(sb + (j - la), hb, L) <=> x + d - 8 <= j /\ j <= x + d + 8
    BY <1>1, <1>2, <1>4 DEF Near
  <2> QED BY <1>4, <2>1
<1>5. PICK y \in Int : y = x
  BY <1>1
<1> QED BY <1>3, <1>4, <1>5, OnePiece

\* The dimmest LED of the tail is still lit.
LEMMA EaseLit ==
    ASSUME NEW e \in Bytes, e >= 31
    PROVE  ease8(e) \in Bytes /\ ease8(e) >= 6
<1> DEFINE j  == IF Bit(e, 128) THEN Byte(255 - e) ELSE e
           e2 == Byte(scale8(j, j) * 2)
<1>0. ease8(e) \in Bytes
  BY EaseBounds
<1>1. j \in 0..127
  BY HighBit, ByteTyped DEF Bytes
<1>2. scale8(j, j) \in 0..127 /\ scale8(j, j) = (j * (j + 1)) \div 256
  <2> HIDE DEF j
  <2>1. j \in Bytes
    BY <1>1 DEF Bytes
  <2>2. scale8(j, j) \in Bytes /\ scale8(j, j) <= j /\ scale8(j, j) = (j * (j + 1)) \div 256
    BY <2>1, ScaleBounds
  <2> QED BY <1>1, <2>2 DEF Bytes
<1>3. e2 \in 0..254 /\ e2 = scale8(j, j) * 2
  <2> HIDE DEF j
  <2> QED BY <1>2, ByteTyped DEF Bytes
<1>4. ease8(e) = IF Bit(e, 128) THEN Byte(255 - e2) ELSE e2
  BY DEF ease8
<1>5. CASE Bit(e, 128)
  <2>1. scale8(j, j) <= 63
    <3> HIDE DEF j
    <3>1. j * (j + 1) <= 127 * (j + 1) /\ j * (j + 1) \in Nat
      BY <1>1, ProductGrows
    <3>2. j * (j + 1) <= 127 * 128
      BY <1>1, <3>1
    <3> QED BY <1>2, <3>1, <3>2
  <2> HIDE DEF e2
  <2>2. Byte(255 - e2) = 255 - e2
    BY <1>3, ByteTyped DEF Bytes
  <2> QED BY <1>0, <1>2, <1>3, <1>4, <1>5, <2>1, <2>2
<1>6. CASE ~Bit(e, 128)
  <2>1. j = e /\ j >= 31
    BY <1>6
  <2>2. scale8(j, j) >= 3
    <3> HIDE DEF j
    <3>1. 31 * (j + 1) <= j * (j + 1) /\ j * (j + 1) \in Nat
      BY <1>1, <2>1, ProductGrows
    <3>2. j * (j + 1) >= 31 * 32
      BY <1>1, <2>1, <3>1
    <3> QED BY <1>2, <3>1, <3>2
  <2> HIDE DEF e2, j
  <2> QED BY <1>0, <1>2, <1>3, <1>4, <1>6, <2>2
<1> QED BY <1>5, <1>6

\* Where the head of the comet is on a ring of n's length.
Head(s, n, t) == Beat(s, t, 8000) % Strip(n)

\* A comet with a full channel lights exactly the LEDs at most eight from its
\* head, the last of them with 6 of 255.
LEMMA CometLit ==
    ASSUME NEW s, SceneTyped(s), NEW n, LayoutTyped(n), NEW i \in Words, NEW t \in Nat,
           s.brightness = 255, 255 \in {s.red, s.green, s.blue}
    PROVE  /\ render_comet(s, n, i, t) \in UpTo(255)
           /\ render_comet(s, n, i, t) # Black
                <=> ring_distance(i % Strip(n), Head(s, n, t), Strip(n)) <= 8
           /\ render_comet(s, n, i, t) # Black
                => \E k \in Channels : render_comet(s, n, i, t)[k] >= 6
<1> DEFINE dist == ring_distance(i % Strip(n), Head(s, n, t), Strip(n))
           tail == Byte(255 - dist * 28)
           part == scale8(ease8(tail), s.brightness)
           r    == render_comet(s, n, i, t)
<1>1. dist \in Nat
  <2> DEFINE len == Strip(n)  beat == Beat(s, t, 8000)
  <2>1. beat \in Nat /\ len \in Nat \ {0} /\ i \in Nat
    BY BeatTyped, StripTyped, WordsTyped
  <2>2. beat % len \in 0..len - 1 /\ i % len \in 0..len - 1
    <3> HIDE DEF beat, len
    <3> QED BY <2>1, QuotientTyped
  <2> QED BY <2>1, <2>2, RingTyped DEF Head
<1>2. r = IF dist > 8 THEN Black ELSE nscale8(Rgb(s), part)
  BY DEF render_comet, Head
<1>3. r \in UpTo(255)
  BY CometBounds
<1> HIDE DEF dist, r
<1>4. CASE dist > 8
  <2>1. r = Black /\ ~(dist <= 8)
    BY <1>1, <1>2, <1>4
  <2> QED BY <1>3, <2>1 DEF r, dist
<1>5. CASE dist <= 8
  <2>1. tail \in Bytes /\ tail >= 31
    <3>1. 255 - dist * 28 \in Bytes /\ 255 - dist * 28 >= 31
      BY <1>1, <1>5, BytesTyped
    <3> QED BY <3>1, ByteTyped, BytesTyped
  <2> HIDE DEF tail
  <2>2. part \in Bytes /\ part >= 6
    BY <2>1, EaseLit, ScaleFull
  <2> HIDE DEF part
  <2>3. scale8(255, part) >= 6
    <3>1. 255 \in Bytes /\ part \in Nat /\ part >= 6
      BY <2>2, BytesTyped
    <3>2. scale8(255, part) = (255 * (part + 1)) \div 256
      BY <2>2, <3>1, ScaleBounds
    <3> QED BY <3>1, <3>2
  <2>4. PICK k \in Channels : Rgb(s)[k] = 255
    BY DEF Rgb, Channels
  <2>5. r[k] >= 6
    BY <1>1, <1>2, <1>5, <2>3, <2>4 DEF nscale8
  <2>6. Black[k] = 0
    BY DEF Black, Channels
  <2>7. r # Black
    BY <2>5, <2>6
  <2> QED BY <1>3, <1>5, <2>5, <2>7 DEF r, dist
<1> QED BY <1>1, <1>4, <1>5 DEF r, dist

\* A calibration that leaves such a tail lit, in any channel.
KeepsTail(c) ==
    \A k \in Channels : scale8(scale8(6, c.color_correction[k]), c.color_temperature[k]) > 0

\* A brighter channel stays the brighter one when scaled.
LEMMA ScaleGrows ==
    ASSUME NEW x \in Bytes, NEW y \in Bytes, x <= y, NEW scale \in Bytes
    PROVE  scale8(x, scale) <= scale8(y, scale)
<1>1. scale8(x, scale) = (x * (scale + 1)) \div 256 /\ scale8(y, scale) = (y * (scale + 1)) \div 256
  BY ScaleBounds
<1>2. PICK low \in Nat : low = x * (scale + 1)
  BY BytesTyped
<1>3. PICK high \in Nat : high = y * (scale + 1)
  BY BytesTyped
<1>4. low <= high
  BY <1>2, <1>3, BytesTyped, ProductGrows
<1> QED BY <1>1, <1>2, <1>3, <1>4

\* Such a calibration, without a brightness cap, turns no lit LED of a comet
\* off, and none on.
LEMMA TailPolicy ==
    ASSUME NEW calibration \in Calibrations, KeepsTail(calibration),
           calibration.brightness_cap = 255, NEW c \in UpTo(255),
           c # Black => \E k \in Channels : c[k] >= 6
    PROVE  LET o == apply_output_policy(c, OutputPolicy(calibration))
           IN  c = Black <=> \A k \in Channels : o[k] = 0
<1> DEFINE right == calibration.color_correction
           white == calibration.color_temperature
           o     == apply_output_policy(c, OutputPolicy(calibration))
<1>1. \A k \in Channels : right[k] \in Bytes /\ white[k] \in Bytes
  BY CalibrationFields DEF CalibrationTyped, Pixels
<1>2. \A k \in Channels : o[k] = scale8(scale8(c[k], right[k]), white[k])
  BY DEF apply_output_policy, OutputPolicy
<1> HIDE DEF o, right, white
<1>3. \A k \in Channels : c[k] \in Bytes
  BY BytesTyped DEF UpTo
<1>4. CASE c = Black
  <2>1. ASSUME NEW k \in Channels
        PROVE  o[k] = 0
    <3>1. c[k] = 0 /\ 0 \in Bytes
      BY <1>4, BytesTyped DEF Black, Channels
    <3>2. PICK b \in Bytes : b = scale8(c[k], right[k]) /\ b <= 0
      BY <1>1, <1>3, <3>1, ScaleBounds
    <3>3. scale8(b, white[k]) \in Bytes /\ scale8(b, white[k]) <= b
      BY <1>1, ScaleBounds
    <3> QED BY <1>2, <3>2, <3>3, BytesTyped
  <2> QED BY <1>4, <2>1 DEF o
<1>5. CASE c # Black
  <2>1. PICK k \in Channels : c[k] >= 6
    BY <1>5
  <2>2. 6 \in Bytes /\ c[k] \in Bytes /\ 6 <= c[k] /\ right[k] \in Bytes /\ white[k] \in Bytes
    BY <1>1, <1>3, <2>1, BytesTyped
  <2>3. PICK a \in Bytes : a = scale8(6, right[k])
    BY <2>2, ScaleBounds
  <2>4. PICK b \in Bytes : b = scale8(c[k], right[k])
    BY <2>2, ScaleBounds
  <2>5. a <= b
    BY <2>2, <2>3, <2>4, ScaleGrows
  <2>6. scale8(a, white[k]) <= scale8(b, white[k])
    BY <2>2, <2>5, ScaleGrows
  <2>7. scale8(a, white[k]) > 0
    BY <2>3 DEF KeepsTail, right, white
  <2>8. scale8(a, white[k]) \in Bytes /\ scale8(b, white[k]) \in Bytes
    BY <2>2, ScaleBounds
  <2>9. o[k] # 0
    BY <1>2, <2>4, <2>6, <2>7, <2>8, BytesTyped
  <2> QED BY <1>5, <2>9 DEF o
<1> QED BY <1>4, <1>5

\* So does the strip, through such a calibration.
LEMMA CometPixel ==
    ASSUME NEW n \in Nodes, NEW s \in Scenes, NEW c \in Calibrations, KeepsTail(c),
           c.brightness_cap = 255, NEW at \in Nat, NEW local \in Nat,
           s.effect = "comet", s.brightness = 255, 255 \in {s.red, s.green, s.blue},
           Layout[n].segment_start + local < Layout[n].total_leds
    PROVE  Pixel(Layout[n], s, c, at, local) # Black <=>
              Near(Layout[n].segment_start + local, Head(s, Layout[n], effect_ms(at, c)),
                   Layout[n].total_leds)
<1> DEFINE L == Layout[n].total_leds
           p == Layout[n].segment_start + local
           i == p % WordWidth
           t == effect_ms(at, c)
           h == Head(s, Layout[n], t)
           r == render_comet(s, Layout[n], i, t)
           o == apply_output_policy(r, OutputPolicy(c))
<1>1. SceneTyped(s) /\ LayoutTyped(Layout[n]) /\ t \in Nat /\ 255 \in Bytes
  BY StripAssumption, ClockTyped, BytesTyped
<1>2. p \in Nat /\ L \in Words /\ L \in Nat \ {0} /\ p < L /\ Strip(Layout[n]) = L
  BY <1>1, WordsTyped DEF LayoutTyped, Strip
<1>3. i = p /\ i \in Words /\ i % L = p
  <2> HIDE DEF p, L
  <2>0. WordWidth \in Nat
    BY DEF WordWidth
  <2>1. L \in 0..WordWidth - 1
    BY <1>2 DEF Words
  <2>2. p \in 0..WordWidth - 1 /\ p < WordWidth
    BY <1>2, <2>0, <2>1
  <2>3. p % WordWidth = p /\ p % L = p
    BY <1>2, <2>0, <2>2
  <2> QED BY <2>2, <2>3 DEF Words
<1>4. h \in Nat /\ h < L
  <2>1. Beat(s, t, 8000) \in Nat
    BY <1>1, BeatTyped
  <2> DEFINE beat == Beat(s, t, 8000)
  <2> HIDE DEF beat, L
  <2>2. beat \in Nat /\ L \in Nat \ {0}
    BY <1>2, <2>1 DEF beat, L
  <2>3. beat % L \in 0..L - 1
    BY <2>2, QuotientTyped
  <2>4. h = beat % L
    BY <1>2 DEF Head, beat, L
  <2> QED BY <2>2, <2>3, <2>4
<1>5. /\ r \in UpTo(255) /\ (r # Black <=> ring_distance(p, h, L) <= 8)
      /\ r # Black => \E k \in Channels : r[k] >= 6
  BY <1>1, <1>2, <1>3, CometLit
<1>6. ring_distance(p, h, L) <= 8 <=> Near(p, h, L)
  <2> HIDE DEF p, h, L
  <2> QED BY <1>2, <1>4, RingNear
<1>7. Pixel(Layout[n], s, c, at, local) = <<o[1], o[2], o[3]>>
  <2>1. led_orchestra_render_effect(s, Layout[n], i, t, PaletteFor(s, c)) = r
    BY DEF led_orchestra_render_effect
  <2> QED BY <2>1 DEF Pixel, led_strip_set_pixel
<1> HIDE DEF r
<1>8. r = Black <=> \A k \in Channels : o[k] = 0
  BY <1>5, TailPolicy
<1> HIDE DEF o
<1>9. Pixel(Layout[n], s, c, at, local) = Black <=> r = Black
  BY <1>7, <1>8 DEF Black, Channels
<1> QED BY <1>5, <1>6, <1>9 DEF p, h, t, L

\* A step of the clock of no more than a beat moves the count of beats by one
\* at most.
LEMMA NextBeat ==
    ASSUME NEW x \in Nat, NEW y \in Nat, x <= y, y <= x + 8000
    PROVE  y \div 8000 = x \div 8000 \/ y \div 8000 = (x \div 8000) + 1
OBVIOUS

\* ... and the head by one place.
LEMMA NextHead ==
    ASSUME NEW k \in Nat, NEW m \in Nat, m = k \/ m = k + 1, NEW L \in Nat \ {0}
    PROVE  /\ k % L \in Nat /\ m % L \in Nat /\ k % L < L /\ m % L < L
           /\ m % L = k % L \/ m % L = (k % L) + 1 \/ (k % L = L - 1 /\ m % L = 0)
<1>1. k % L \in 0..L - 1 /\ m % L \in 0..L - 1
  BY QuotientTyped
<1>2. (k + 1) % L = IF k % L = L - 1 THEN 0 ELSE (k % L) + 1
  BY NextPlace
<1> QED BY <1>1, <1>2

\* The product of the clock and the speed, when the clock counts modulo W and
\* may have wrapped, is the plain one modulo W.
Wraps(x, v, W) ==
    /\ x % W \in Nat /\ (x * v < 0 <=> x < 0)
    /\ ((x % W) * v) % W = IF x < 0 THEN x * v + W ELSE x * v

\* That holds as long as the plain product stays within W on either side.
LEMMA WrappedProduct ==
    ASSUME NEW x \in Int, NEW v \in Nat \ {0}, NEW W \in Nat \ {0},
           0 - W <= x * v, x * v < W
    PROVE  Wraps(x, v, W)
<1> USE DEF Wraps
<1>1. CASE x >= 0
  <2>1. x \in Nat /\ 1 * x <= v * x
    BY <1>1, ProductGrows
  <2>2. x <= x * v /\ x < W
    BY <2>1
  <2>3. PICK y \in Nat : y = x * v
    BY <1>1
  <2>4. x % W = x /\ y % W = y
    BY <2>1, <2>2, <2>3
  <2> QED BY <1>1, <2>3, <2>4
<1>2. CASE x < 0
  <2>1. PICK z \in Nat : z = 0 - x
    BY <1>2
  <2>2. 1 * z <= v * z
    BY <2>1, ProductGrows
  <2>3. z * v = 0 - (x * v)
    BY <2>1
  <2>4. x * v <= x
    BY <2>1, <2>2, <2>3
  <2>5. PICK y \in Nat : y = x + W
    BY <2>4
  <2>6. y < W /\ x = (0 - 1) * W + y
    BY <1>2, <2>5
  <2>7. x % W = y
    BY <2>6, PlaceAfterTurns
  <2>8. PICK r \in Nat : r = x * v + W
    OBVIOUS
  <2>9. r < W
    BY <1>2, <2>4, <2>8
  <2>10. y * v = (v - 1) * W + r
    BY <2>5, <2>8
  <2>11. (y * v) % W = r
    <3>1. v - 1 \in Int
      OBVIOUS
    <3>2. ((v - 1) * W + r) % W = r
      BY <2>9, <3>1, PlaceAfterTurns
    <3> QED BY <2>10, <3>2
  <2> QED BY <1>2, <2>4, <2>7, <2>8, <2>11
<1> QED BY <1>1, <1>2

\* Segments within the strip and as long as the LEDs of their nodes, and a gap
\* of more than a comet behind any two that lie side by side: a comet that
\* leaves them at one end is out of sight before it comes in at the other.
GapBehind ==
    \A a, b \in Nodes :
        /\ Layout[a].segment_len <= LedCount
        /\ Layout[a].segment_start + Layout[a].segment_len <= Layout[a].total_leds
        /\ Adjacent(a, b) =>
              Layout[a].segment_len + Layout[b].segment_len + 18 <= Layout[a].total_leds

\* No node corrects a comet's tail away (its brightness may be capped).
TailsStay == \A c \in Calibrations : KeepsTail(c)

\* The clock of a frame, its product with the speed, and what the wrapped
\* arithmetic of the effects makes of it.
ClockOf(n) == drawn[n].at + drawn[n].calib.time_offset_ms
Run(n)     == ClockOf(n) * Speed(drawn[n].scene)
Beats(n)   == IF Wrapped(n) THEN Run(n) + ClockWidth ELSE Run(n)

\* Neither the uptime nor the negative offset is so large that its product with
\* the speed exceeds 2^64.
ClockRuns ==
    \A n \in Nodes : drawn[n] # None => 0 - ClockWidth <= Run(n) /\ Run(n) < ClockWidth

\* What a node shows of a comet.
LEMMA CometSeen ==
    ASSUME IInv, GapBehind, TailsStay, ClockRuns, NEW n \in Nodes, drawn[n] # None,
           drawn[n].scene.effect = "comet", drawn[n].scene.brightness = 255,
           255 \in {drawn[n].scene.red, drawn[n].scene.green, drawn[n].scene.blue},
           drawn[n].calib.brightness_cap = 255
    PROVE  /\ Run(n) \in Int /\ Beats(n) \in Nat
           /\ \A j \in Int : 0 <= j /\ j < Layout[n].segment_len =>
                 (strip[n][j] # Black <=>
                    Near(Layout[n].segment_start + j,
                         (Beats(n) \div 8000) % Layout[n].total_leds, Layout[n].total_leds))
<1> DEFINE s == drawn[n].scene
           c == drawn[n].calib
           t == effect_ms(drawn[n].at, c)
<1>1. s \in Scenes /\ c \in Calibrations /\ drawn[n].at \in Nat
  BY DEF IInv, TypeOK
<1>2. SceneTyped(s) /\ LayoutTyped(Layout[n]) /\ KeepsTail(c)
  BY <1>1, StripAssumption DEF TailsStay
<1>3. PICK x \in Int, v \in Nat \ {0}, W \in Nat \ {0} :
         x = ClockOf(n) /\ v = Speed(s) /\ W = ClockWidth
  <2>1. c.time_offset_ms \in Int
    BY <1>1, CalibrationFields DEF CalibrationTyped
  <2>2. s.speed \in Nat
    BY <1>2, SceneFields, BytesTyped
  <2>3. ClockOf(n) \in Int /\ Speed(s) \in Nat \ {0}
    BY <1>1, <2>1, <2>2 DEF ClockOf, Speed
  <2> QED BY <2>3, EffectsAssumption
<1>4. /\ Run(n) = x * v /\ t = x % W /\ (Wrapped(n) <=> x < 0)
      /\ 0 - W <= x * v /\ x * v < W
  <2>1. Run(n) = x * v /\ 0 - ClockWidth <= Run(n) /\ Run(n) < ClockWidth
    BY <1>3 DEF ClockRuns, Run
  <2>2. t = x % W /\ (Wrapped(n) <=> x < 0)
    BY <1>3 DEF Wrapped, ClockOf, effect_ms
  <2> QED BY <1>3, <2>1, <2>2
<1>5. /\ x % W \in Nat /\ (x * v < 0 <=> x < 0)
      /\ ((x % W) * v) % W = IF x < 0 THEN x * v + W ELSE x * v
  <2>1. 0 - W <= x * v /\ x * v < W
    BY <1>4
  <2>2. Wraps(x, v, W)
    BY <2>1, WrappedProduct
  <2> QED BY <2>2 DEF Wraps
<1>6. Run(n) \in Int /\ Beats(n) \in Nat /\ ((x % W) * v) % W = Beats(n)
  <2>1. Beats(n) = IF x < 0 THEN x * v + W ELSE x * v
    BY <1>3, <1>4 DEF Beats
  <2>2. Beats(n) \in Nat
    BY <1>4, <1>5, <2>1
  <2> QED BY <1>4, <1>5, <2>1, <2>2
<1>7. Head(s, Layout[n], t) = (Beats(n) \div 8000) % Strip(Layout[n])
  <2>1. t * Speed(s) = (x % W) * v
    BY <1>3, <1>4
  <2>2. (t * Speed(s)) % ClockWidth = Beats(n)
    BY <1>3, <1>6, <2>1
  <2> HIDE DEF s, t
  <2> QED BY <2>2 DEF Head, Beat
<1>8. ASSUME NEW j \in Int, 0 <= j, j < Layout[n].segment_len
      PROVE  strip[n][j] # Black <=>
                Near(Layout[n].segment_start + j,
                     (Beats(n) \div 8000) % Layout[n].total_leds, Layout[n].total_leds)
  <2>1. /\ Layout[n].segment_start \in Nat /\ Layout[n].segment_len \in Nat
        /\ Layout[n].total_leds \in Nat /\ LedCount \in Nat /\ j \in Nat
    BY <1>2, <1>8, WordsTyped, StripAssumption DEF LayoutTyped
  <2>2. /\ Layout[n].segment_len <= LedCount
        /\ Layout[n].segment_start + Layout[n].segment_len <= Layout[n].total_leds
    BY DEF GapBehind
  <2>3. /\ j \in 0..LedCount - 1 /\ j < Lit(Layout[n])
        /\ Layout[n].segment_start + j < Layout[n].total_leds
        /\ Strip(Layout[n]) = Layout[n].total_leds
    BY <1>8, <2>1, <2>2 DEF Lit, Strip
  <2>4. strip[n][j] = Pixel(Layout[n], s, c, drawn[n].at, j)
    BY <2>3, SeenPixel
  <2>5. strip[n][j] # Black <=>
           Near(Layout[n].segment_start + j, Head(s, Layout[n], t), Layout[n].total_leds)
    BY <1>1, <1>2, <2>1, <2>3, <2>4, CometPixel
  <2>6. Head(s, Layout[n], t) = (Beats(n) \div 8000) % Layout[n].total_leds
    BY <1>7, <2>3
  <2> QED BY <2>5, <2>6
<1> QED BY <1>6, <1>8

\* The product with the speed keeps differences.
LEMMA ProductOfDifference ==
    ASSUME NEW x \in Int, NEW y \in Int, NEW o \in Int, NEW v \in Int
    PROVE  (x + o) * v - (y + o) * v = (x - y) * v
OBVIOUS

\* The heads two nodes show that show one comet.
LEMMA HeadsOfOneComet ==
    ASSUME NEW k \in Nat, NEW m \in Nat, m = k \/ m = k + 1 \/ k = m + 1, NEW L \in Nat \ {0}
    PROVE  LET ha == k % L
               hb == m % L
           IN  /\ ha \in Nat /\ hb \in Nat /\ ha < L /\ hb < L
               /\ \/ hb = ha \/ hb = ha + 1 \/ ha = hb + 1
                  \/ (ha = L - 1 /\ hb = 0) \/ (hb = L - 1 /\ ha = 0)
<1>1. CASE m = k \/ m = k + 1
  BY <1>1, NextHead
<1>2. CASE k = m + 1
  BY <1>2, NextHead
<1> QED BY <1>1, <1>2

\* On such layouts, with tails that stay lit, the comet crosses every seam in
\* one piece, also while a negative offset wraps the clock.
THEOREM CometCrossesSeams ==
    GapBehind /\ TailsStay /\ Spec /\ []ClockRuns => []CometIsWhole
<1>1. GapBehind /\ TailsStay /\ IInv /\ ClockRuns => CometIsWhole
  <2> SUFFICES ASSUME GapBehind, TailsStay, IInv, ClockRuns, NEW a \in Nodes, NEW b \in Nodes,
                      Adjacent(a, b), ShowOneComet(a, b)
               PROVE  LET size    == Lit(Layout[a]) + Lit(Layout[b])
                          Seen(j) == IF j < Lit(Layout[a]) THEN strip[a][j] # Black
                                     ELSE strip[b][j - Lit(Layout[a])] # Black
                          comet   == {j \in 0..size - 1 : Seen(j)}
                      IN  /\ \A i, k \in comet : i..k \subseteq comet
                          /\ comet # {} /\ 0 \notin comet /\ size - 1 \notin comet =>
                                \E i \in comet : i..(i + 15) \subseteq comet
    BY DEF CometIsWhole
  <2> DEFINE comet == {j \in 0..(Lit(Layout[a]) + Lit(Layout[b])) - 1 :
                          IF j < Lit(Layout[a]) THEN strip[a][j] # Black
                          ELSE strip[b][j - Lit(Layout[a])] # Black}
  <2> SUFFICES /\ \A i, k \in comet : i..k \subseteq comet
               /\ comet # {} /\ 0 \notin comet /\ (Lit(Layout[a]) + Lit(Layout[b])) - 1 \notin comet =>
                     \E i \in comet : i..(i + 15) \subseteq comet
    OBVIOUS
  <2>0. /\ Layout[a].segment_len \in Nat /\ Layout[b].segment_len \in Nat
        /\ Layout[a].segment_start \in Nat /\ Layout[b].segment_start \in Nat
        /\ Layout[a].total_leds \in Nat \ {0}
    <3>1. LayoutTyped(Layout[a]) /\ LayoutTyped(Layout[b])
      BY StripAssumption
    <3>2. Layout[a].segment_len + Layout[b].segment_len + 18 <= Layout[a].total_leds
      BY DEF GapBehind
    <3> QED BY <3>1, <3>2, WordsTyped DEF LayoutTyped
  <2>1. PICK la \in Nat, lb \in Nat, sa \in Nat, sb \in Nat, L \in Nat \ {0} :
           /\ la = Layout[a].segment_len /\ lb = Layout[b].segment_len
           /\ sa = Layout[a].segment_start /\ sb = Layout[b].segment_start
           /\ L = Layout[a].total_leds
    BY <2>0
  <2>2. /\ la <= LedCount /\ lb <= LedCount /\ sa + la <= L /\ sb + lb <= L
        /\ la + lb + 18 <= L /\ Layout[b].total_leds = L
    BY <2>1 DEF GapBehind, Adjacent
  <2>3. Lit(Layout[a]) = la /\ Lit(Layout[b]) = lb
    BY <2>1, <2>2, StripAssumption DEF Lit
  <2>4. sb = sa + la \/ (sa + la = L /\ sb = 0)
    <3>1. (sa + la) % L = sb
      BY <2>1 DEF Adjacent
    <3>2. sa + la < L => (sa + la) % L = sa + la
      BY <2>2
    <3>3. sa + la = L => (sa + la) % L = 0
      BY <2>2
    <3> QED BY <2>2, <3>1, <3>2, <3>3
  <2>5. /\ Run(a) \in Int /\ Beats(a) \in Nat
        /\ \A j \in Int : 0 <= j /\ j < la =>
              (strip[a][j] # Black <=> Near(sa + j, (Beats(a) \div 8000) % L, L))
    BY <2>1, CometSeen DEF ShowOneComet
  <2>6. /\ Run(b) \in Int /\ Beats(b) \in Nat
        /\ \A j \in Int : 0 <= j /\ j < lb =>
              (strip[b][j] # Black <=> Near(sb + j, (Beats(b) \div 8000) % L, L))
    BY <2>1, <2>2, CometSeen DEF ShowOneComet
  <2>7. Run(a) <= Run(b) + 8000 /\ Run(b) <= Run(a) + 8000
    <3>1. PICK x \in Int, y \in Int, o \in Int, v \in Int :
             /\ x = drawn[a].at /\ y = drawn[b].at
             /\ o = drawn[a].calib.time_offset_ms /\ v = Speed(drawn[a].scene)
      <4>1. /\ drawn[a].scene \in Scenes /\ drawn[a].calib \in Calibrations
            /\ drawn[a].at \in Nat /\ drawn[b].at \in Nat
        BY DEF IInv, TypeOK, ShowOneComet
      <4>2. drawn[a].calib.time_offset_ms \in Int
        BY <4>1, CalibrationFields DEF CalibrationTyped
      <4>3. drawn[a].scene.speed \in Nat
        BY <4>1, StripAssumption, SceneFields, BytesTyped
      <4> QED BY <4>1, <4>2, <4>3 DEF Speed
    <3>2. /\ Run(a) = (x + o) * v /\ Run(b) = (y + o) * v
          /\ (x - y) * v <= 8000 /\ (y - x) * v <= 8000
      BY <3>1 DEF Run, ClockOf, ShowOneComet
    <3>3. /\ (x + o) * v - (y + o) * v = (x - y) * v
          /\ (y + o) * v - (x + o) * v = (y - x) * v
      BY ProductOfDifference
    <3> QED BY <2>5, <2>6, <3>2, <3>3
  <2>8. PICK ka \in Nat, kb \in Nat :
           /\ ka = Beats(a) \div 8000 /\ kb = Beats(b) \div 8000
           /\ kb = ka \/ kb = ka + 1 \/ ka = kb + 1
    <3>1. Beats(a) <= Beats(b) + 8000 /\ Beats(b) <= Beats(a) + 8000
      <4>1. Wrapped(a) <=> Wrapped(b)
        BY DEF ShowOneComet
      <4> QED BY <2>5, <2>6, <2>7, <4>1, EffectsAssumption DEF Beats
    <3>2. PICK ba \in Nat, bb \in Nat : ba = Beats(a) /\ bb = Beats(b)
      BY <2>5, <2>6
    <3>3. ba \div 8000 \in Nat /\ bb \div 8000 \in Nat
      OBVIOUS
    <3>4. \/ bb \div 8000 = ba \div 8000 \/ bb \div 8000 = (ba \div 8000) + 1
          \/ ba \div 8000 = (bb \div 8000) + 1
      BY <3>1, <3>2, NextBeat
    <3> QED BY <3>2, <3>3, <3>4
  <2>9. PICK ha \in Nat, hb \in Nat :
           /\ ha = (Beats(a) \div 8000) % L /\ hb = (Beats(b) \div 8000) % L
           /\ ha < L /\ hb < L
           /\ \/ hb = ha \/ hb = ha + 1 \/ ha = hb + 1
              \/ (ha = L - 1 /\ hb = 0) \/ (hb = L - 1 /\ ha = 0)
    <3>1. /\ ka % L \in Nat /\ kb % L \in Nat /\ ka % L < L /\ kb % L < L
          /\ \/ kb % L = ka % L \/ kb % L = (ka % L) + 1 \/ ka % L = (kb % L) + 1
             \/ (ka % L = L - 1 /\ kb % L = 0) \/ (kb % L = L - 1 /\ ka % L = 0)
      <4>1. kb = ka \/ kb = ka + 1 \/ ka = kb + 1
        BY <2>8
      <4> QED BY <4>1, HeadsOfOneComet
    <3> QED BY <2>8, <3>1
  <2>10. comet \in SUBSET (0..la + lb - 1)
    BY <2>3
  <2>11. ASSUME NEW j \in Int, 0 <= j, j < la
         PROVE  j \in comet <=> Near(sa + j, ha, L)
    <3>1. j \in comet <=> strip[a][j] # Black
      BY <2>3, <2>11
    <3> QED BY <2>5, <2>9, <2>11, <3>1
  <2>12. ASSUME NEW j \in Int, la <= j, j < la + lb
         PROVE  j \in comet <=> Near(sb + (j - la), hb, L)
    <3>1. j \in comet <=> strip[b][j - la] # Black
      BY <2>3, <2>12
    <3>2. j - la \in Int /\ 0 <= j - la /\ j - la < lb
      BY <2>12
    <3> QED BY <2>6, <2>9, <3>1, <3>2
  <2> HIDE DEF comet
  <2>13. PICK seen \in SUBSET (0..la + lb - 1) : seen = comet
    BY <2>10
  <2>14. /\ \A i, k \in seen : i..k \subseteq seen
         /\ seen # {} /\ 0 \notin seen /\ la + lb - 1 \notin seen =>
               \E i \in seen : i..(i + 15) \subseteq seen
    <3>1. \A j \in Int : 0 <= j /\ j < la => (j \in seen <=> Near(sa + j, ha, L))
      BY <2>11, <2>13
    <3>2. \A j \in Int : la <= j /\ j < la + lb => (j \in seen <=> Near(sb + (j - la), hb, L))
      BY <2>12, <2>13
    <3>3. SideBySide(L, sa, la, sb, lb, ha, hb)
      BY <2>2, <2>4, <2>9 DEF SideBySide
    <3> QED BY <3>1, <3>2, <3>3, OneComet
  <2> QED BY <2>3, <2>13, <2>14
<1> SUFFICES ASSUME GapBehind, TailsStay PROVE Spec /\ []ClockRuns => []CometIsWhole
  OBVIOUS
<1>2. IInv /\ ClockRuns => CometIsWhole
  BY <1>1
<1> QED BY <1>2, Invariance, PTL

=============================================================================
