------------------------------ MODULE LedEffects ------------------------------
(***************************************************************************)
(* The effects of the LED nodes: the colour of one pixel as a function of   *)
(* the scene s, the node's layout n, the global LED index i, the effect     *)
(* clock t and the palette pal resolved for the frame.  No effect keeps     *)
(* state.                                                                   *)
(*                                                                         *)
(* The clock and its product with the speed are unsigned and wrap at        *)
(* ClockWidth (2^64 on the node), the scrolled place of the Fibonacci       *)
(* effect at PlaceWidth (2^32).  hash8, which scatters the sparkles, is   *)
(* any operator that gives bytes; its salt stands for the factors the       *)
(* effects multiply its argument by.  Every palette an effect can be given  *)
(* is in the registry, so the fallback colours are left out.                *)
(***************************************************************************)
EXTENDS LedColor

CONSTANTS
    ClockWidth,     \* the effect clock counts modulo this
    PlaceWidth,     \* and the Fibonacci effect's places modulo this
    PaletteRefs,    \* the palette registry: references ...
    Palette,        \* ... and colours
    NoPalette,      \* kNoPalette, and kCalibNoPaletteOverride (0xFF)
    Sequences,      \* sequence numbers of scenes
    hash8(_, _, _)  \* by salt, LED index or node id, and scene sequence

WordWidth == 65536
Words     == 0..WordWidth - 1

Salts == {"celebration", "party_confetti", "champagne_toast", "independence",
          "twinkle", "identify"}

\* The effects that take a palette, with the one each was compiled with.
DefaultPalette ==
    [aurora_breathe  |-> "aurora",         palette_cycle  |-> "aurora",
     color_wave      |-> "aurora",         ocean_drift    |-> "ocean",
     pulse_reveal    |-> "coral",          celebration    |-> "gold_score",
     tidal_surge     |-> "seafoam_surf",   party_confetti |-> "neon_party",
     champagne_toast |-> "champagne_rose", independence   |-> "independence"]

PaletteEffects  == DOMAIN DefaultPalette
ScrollingEffects ==
    PaletteEffects \cup {"rainbow", "fibonacci", "comet", "theater_chase",
                         "twinkle", "identify"}
KnownEffects == ScrollingEffects \cup {"off", "solid"}

ASSUME EffectsAssumption ==
    /\ ClockWidth \in Nat \ {0} /\ PlaceWidth \in Nat \ {0} /\ 0 \in Sequences
    /\ {DefaultPalette[e] : e \in PaletteEffects} \subseteq PaletteRefs
    /\ Palette \in [PaletteRefs -> Palettes16] /\ NoPalette \notin PaletteRefs
    /\ \A salt \in Salts, i \in Words, seq \in Sequences : hash8(salt, i, seq) \in Bytes

\* What the C types of the scene and of the layout allow; everything the
\* effects read.
SceneTyped(s) ==
    /\ s.red \in Bytes /\ s.green \in Bytes /\ s.blue \in Bytes
    /\ s.speed \in Bytes /\ s.brightness \in Bytes /\ s.sequence \in Sequences

LayoutTyped(n) ==
    /\ n.node_id \in Words /\ n.segment_start \in Words
    /\ n.segment_len \in Words /\ n.total_leds \in Words

-----------------------------------------------------------------------------
(* Helpers *)

\* LEDs of the virtual strip, the ring the moving effects run on.
Strip(n) == IF n.total_leds = 0 THEN 1 ELSE n.total_leds

Speed(s) == IF s.speed = 0 THEN 1 ELSE s.speed

\* How many periods of the given length have passed at the scene's speed.
Beat(s, t, period) == ((t * Speed(s)) % ClockWidth) \div period

\* Mutated form: the distance along the strip, not around the ring.
ring_distance_Direct(a, b, len) == IF a < b THEN b - a ELSE a - b

ring_distance(a, b, len) ==
    LET direct == IF a < b THEN b - a ELSE a - b
    IN  CASE len = 0               -> 0
          [] direct < len - direct -> direct
          [] OTHER                 -> len - direct

Pisano256 == 384

\* From a number and its successor to the successor and the one after it.
fib_step == [p \in Bytes \X Bytes |-> <<p[2], Byte(p[1] + p[2])>>]

\* The loop that fills the table is cut into stretches, so that the recursion
\* stays shallow: TLC keeps a frame for every step of a recursive function.
FibStretch == 16

\* The pair c steps from pair p, for c of at most a stretch.
fib_ahead(c) ==
    [p \in Bytes \X Bytes |->
        LET pair[j \in 0..FibStretch] == IF j = 0 THEN p ELSE fib_step[pair[j - 1]]
        IN  pair[c]]

\* The pair each stretch starts from; the first of all is 1, 2.
fib_start[r \in 0..(Pisano256 \div FibStretch) - 1] ==
    IF r = 0 THEN <<1, 2>> ELSE fib_ahead(FibStretch)[fib_start[r - 1]]

\* Entry k of the table and its successor.
fib_pair(k) == fib_ahead(k % FibStretch)[fib_start[k \div FibStretch]]

\* One period, 1, 2, 3, 5, 8, ... modulo 256, built once.
fib_table == [k \in 0..Pisano256 - 1 |-> fib_pair(k)[1]]

\* Mutated form: the table starts over one entry early.
fib_mod256_Short(k) == fib_table[k % (Pisano256 - 1)]

fib_mod256(k) == fib_table[k % Pisano256]

\* The colour the scene carries.
Rgb(s) == <<s.red, s.green, s.blue>>

\* A triangle eased at both ends, as the flashes and stars rise and fall.
Flash(phase) == ease8(triangle8(phase))

\* The part of a byte above a threshold, stretched over the whole byte.
Above(wave, threshold) == Byte(((wave - threshold) * 255) \div (255 - threshold))

-----------------------------------------------------------------------------
(* Effects without a palette *)

render_solid(s) == nscale8(Rgb(s), s.brightness)

render_rainbow(s, n, i, t) ==
    nscale8(hsv_to_rgb(Byte(Beat(s, t, 20) + (i * 256) \div Strip(n)), 255, 255), s.brightness)

\* Consecutive Fibonacci numbers; every 11 LEDs the sequence steps back by 2 and
\* the channels rotate.  Every five scrolled LEDs the pattern drifts by one.
render_fibonacci(s, n, i, t) ==
    LET scroll  == IF s.speed = 0 THEN 0 ELSE Beat(s, t, 10000) % PlaceWidth
        pos     == ((i + scroll + scroll \div 5) % PlaceWidth) % Strip(n)
        gobacks == pos \div 11
    IN  nscale8([k \in Channels |->
                    fib_mod256(pos - gobacks * 2 + ((gobacks + k - 1) % 3))], s.brightness)

\* A head that runs around the ring and fades over eight LEDs on either side.
render_comet(s, n, i, t) ==
    LET head == Beat(s, t, 8000) % Strip(n)
        dist == ring_distance(i % Strip(n), head, Strip(n))
        tail == Byte(255 - dist * 28)
    IN  IF dist > 8 THEN Black
        ELSE nscale8(Rgb(s), scale8(ease8(tail), s.brightness))

render_theater_chase(s, i, t) ==
    IF (i + (Beat(s, t, 1200) % 3)) % 3 # 0 THEN Black
    ELSE nscale8(Rgb(s), s.brightness)

render_twinkle(s, i, t) ==
    LET seed  == hash8("twinkle", i, s.sequence)
        phase == Byte(Beat(s, t, 24) + seed)
    IN  IF seed % 8 # 0 THEN Black
        ELSE nscale8(Rgb(s), scale8(Flash(phase), s.brightness))

\* The one effect of the node rather than of the strip: its own hue, blinking,
\* with white ends.
render_identify(s, n, i, t) ==
    LET local == (i - n.segment_start) % WordWidth
        level == IF (t \div 500) % 2 = 1 THEN s.brightness ELSE scale8(s.brightness, 40)
    IN  IF n.segment_len > 0 /\ local \in {0, (n.segment_len - 1) % WordWidth}
        THEN Grey(level)
        ELSE nscale8(hsv_to_rgb(hash8("identify", n.node_id, 0), 255, 255), level)

-----------------------------------------------------------------------------
(* Effects that sample a palette *)

render_aurora_breathe(s, i, t, pal) ==
    LET phase  == Byte(Beat(s, t, 35) + i * 4)
        breath == Byte(96 + scale8(triangle8(Byte(Beat(s, t, 80) + i * 2)), 159))
    IN  nscale8(ColorFromPalette(pal, phase, breath), s.brightness)

render_palette_cycle(s, n, i, t, pal) ==
    ColorFromPalette(pal, Byte((i * 256) \div Strip(n) + Beat(s, t, 45)), s.brightness)

\* Two slow layers drift in opposite directions.
render_ocean_drift(s, i, t, pal) ==
    LET a == sin8(Byte(i * 6 + Beat(s, t, 120)))
        b == sin8(Byte(i * 3 - Beat(s, t, 200) + 64))
    IN  ColorFromPalette(pal, Byte(a \div 2 + b \div 2), s.brightness)

\* The colour is fixed by the position, a crest of brightness runs along it.
render_color_wave(s, n, i, t, pal) ==
    LET pos   == Byte((i * 255) \div Strip(n))
        crest == sin8(Byte(pos - Beat(s, t, 60)))
    IN  ColorFromPalette(pal, pos, scale8(ease8(crest), s.brightness))

\* A pulse around the ring over a dim wash.
render_pulse_reveal(s, n, i, t, pal) ==
    LET pos   == i % Strip(n)
        width == Strip(n) \div 8 + 2
        dist  == ring_distance(pos, Beat(s, t, 5000) % Strip(n), Strip(n))
        base  == Byte((pos * 255) \div Strip(n))
        wash  == ColorFromPalette(pal, base, scale8(40, s.brightness))
        peak  == ease8(Byte(255 - (dist * 255) \div width))
    IN  IF dist > width THEN wash
        ELSE blend(wash,
                   ColorFromPalette(pal, Byte(base + 128), scale8(peak, s.brightness)), peak)

render_celebration(s, i, t, pal) ==
    LET seed    == hash8("celebration", i, s.sequence)
        shimmer == sin8(Byte(Beat(s, t, 20) + seed))
    IN  ColorFromPalette(pal, Byte(seed + Beat(s, t, 30)),
                         scale8(ease8(shimmer), s.brightness))

\* Swell and undertow colour the water; the foam above 180 would be a whitecap.
render_tidal_surge(s, n, i, t, pal) ==
    LET pos      == Byte((i * 255) \div Strip(n))
        swell    == sin8(Byte(pos + Beat(s, t, 90)))
        undertow == sin8(Byte(pos * 3 - Beat(s, t, 170) + 96))
        foam     == sin8(Byte(pos * 5 - Beat(s, t, 28)))
        base     == ColorFromPalette(pal, Byte(scale8(swell, 160) + scale8(undertow, 95)),
                                     scale8(Byte(96 + undertow \div 4), s.brightness))
        whitecap == Above(foam, 180)
    IN  IF foam <= 180 THEN base
        ELSE blend(base, ColorFromPalette(pal, 248, scale8(s.brightness, whitecap)), whitecap)

\* A quarter of the pixels flash over a dim wash at a time.
render_party_confetti(s, i, t, pal) ==
    LET seed  == hash8("party_confetti", i, s.sequence)
        burst == Flash(Byte(Beat(s, t, 16) + seed))
        base  == ColorFromPalette(pal, Byte(seed + i * 7), scale8(s.brightness, 26))
    IN  IF (Beat(s, t, 180) + seed \div 32) % 4 # 0 THEN base
        ELSE blend(base, ColorFromPalette(pal, Byte(seed + Beat(s, t, 9)),
                                          scale8(s.brightness, burst)), burst)

\* Glints above 220 over a shimmer; sin8 never gets there.
render_champagne_toast(s, i, t, pal) ==
    LET glow    == sin8(Byte(Beat(s, t, 55) + i * 5))
        sparkle == sin8(Byte(Beat(s, t, 26) + hash8("champagne_toast", i, s.sequence)))
        base    == ColorFromPalette(pal, Byte(64 + glow \div 2),
                                    scale8(Byte(96 + glow \div 2), s.brightness))
        glint   == Above(sparkle, 220)
    IN  IF sparkle <= 220 THEN base
        ELSE blend(base, ColorFromPalette(pal, 244, scale8(s.brightness, glint)), glint)

\* Three scrolling bands of six LEDs, and white stars on one LED in sixteen.
render_independence(s, n, i, t, pal) ==
    LET pos     == (i + (Beat(s, t, 1800) % Strip(n))) % Strip(n)
        band    == <<24, 72, 136>>[((pos \div 6) % 3) + 1]
        shimmer == Byte(210 + sin8(Byte(Beat(s, t, 48) + pos * 5)) \div 8)
        base    == ColorFromPalette(pal, band, scale8(s.brightness, shimmer))
        seed    == hash8("independence", i, s.sequence)
        star    == Flash(Byte(Beat(s, t, 22) + seed))
        glint   == Above(star, 190)
    IN  IF seed % 16 # 0 \/ star <= 190 THEN base
        ELSE blend(base, Grey(scale8(s.brightness, glint)), glint)

-----------------------------------------------------------------------------
\* One pixel before the output policy; an effect the build lacks is dark.
led_orchestra_render_effect(s, n, i, t, pal) ==
    CASE s.effect = "solid"           -> render_solid(s)
      [] s.effect = "rainbow"         -> render_rainbow(s, n, i, t)
      [] s.effect = "fibonacci"       -> render_fibonacci(s, n, i, t)
      [] s.effect = "aurora_breathe"  -> render_aurora_breathe(s, i, t, pal)
      [] s.effect = "comet"           -> render_comet(s, n, i, t)
      [] s.effect = "theater_chase"   -> render_theater_chase(s, i, t)
      [] s.effect = "palette_cycle"   -> render_palette_cycle(s, n, i, t, pal)
      [] s.effect = "twinkle"         -> render_twinkle(s, i, t)
      [] s.effect = "ocean_drift"     -> render_ocean_drift(s, i, t, pal)
      [] s.effect = "color_wave"      -> render_color_wave(s, n, i, t, pal)
      [] s.effect = "pulse_reveal"    -> render_pulse_reveal(s, n, i, t, pal)
      [] s.effect = "celebration"     -> render_celebration(s, i, t, pal)
      [] s.effect = "identify"        -> render_identify(s, n, i, t)
      [] s.effect = "tidal_surge"     -> render_tidal_surge(s, n, i, t, pal)
      [] s.effect = "party_confetti"  -> render_party_confetti(s, i, t, pal)
      [] s.effect = "champagne_toast" -> render_champagne_toast(s, i, t, pal)
      [] s.effect = "independence"    -> render_independence(s, n, i, t, pal)
      [] OTHER                        -> Black

=============================================================================
