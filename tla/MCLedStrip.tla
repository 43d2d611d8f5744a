------------------------------ MODULE MCLedStrip ------------------------------
(* Small instances of LedStrip for TLC. *)
EXTENDS LedStrip

\* Two of the twelve palettes, as they are in the registry.
Coral ==
    <<<<8, 3, 12>>, <<26, 8, 28>>, <<58, 14, 45>>, <<100, 22, 58>>,
      <<145, 36, 68>>, <<190, 58, 76>>, <<230, 88, 78>>, <<255, 122, 90>>,
      <<255, 160, 115>>, <<255, 196, 145>>, <<250, 220, 170>>, <<160, 215, 185>>,
      <<78, 190, 185>>, <<28, 130, 160>>, <<18, 70, 120>>, <<8, 20, 54>>>>
GoldScore ==
    <<<<0, 0, 0>>, <<18, 10, 0>>, <<45, 26, 0>>, <<86, 54, 0>>,
      <<130, 86, 8>>, <<178, 122, 18>>, <<220, 165, 35>>, <<255, 205, 68>>,
      <<255, 235, 118>>, <<255, 250, 190>>, <<255, 255, 235>>, <<255, 230, 105>>,
      <<235, 175, 38>>, <<160, 100, 14>>, <<65, 36, 0>>, <<8, 4, 0>>>>

Registry == {DefaultPalette[e] : e \in PaletteEffects}
Colours  == [ref \in Registry |->
                [k \in 0..15 |-> IF ref = "gold_score" THEN GoldScore[k + 1] ELSE Coral[k + 1]]]

\* Any scatter will do; this one puts sparkles on both nodes.
Scatter(salt, i, seq) == (i * 40 + seq * 8) % 256

\* The end and the beginning of a strip of 900 LEDs; b has more LEDs than it uses.
Sides == [n \in {"a", "b"} |->
    IF n = "a" THEN [node_id |-> 1, segment_start |-> 888, segment_len |-> 12, total_leds |-> 900]
               ELSE [node_id |-> 2, segment_start |-> 0, segment_len |-> 10, total_leds |-> 900]]
Behind == [n \in {"a", "b"} |-> IF n = "a" THEN 0 ELSE 4]

Scene(effect, brightness) ==
    [effect |-> effect, red |-> 255, green |-> 90, blue |-> 0, speed |-> 255,
     brightness |-> brightness, sequence |-> 1]
EveryScene == {Scene(effect, 255) : effect \in KnownEffects \cup {"unlisted"}}
              \cup {Scene(effect, 90) : effect \in {"party_confetti", "independence"}}
Comet      == {Scene("comet", 255)}

Calibration(offset, cap, palette) ==
    [time_offset_ms |-> offset, brightness_cap |-> cap, palette_override |-> palette,
     color_correction |-> <<255, 255, 255>>, color_temperature |-> <<255, 255, 255>>]
AsBuilt  == Calibration(0, 255, NoPalette)
Tunings  == {AsBuilt, Calibration(-30, 255, NoPalette), Calibration(10, 128, "gold_score")}

\* Boot, where a negative offset wraps the clock (by ClockWidth of the cfg into
\* a comet at the seam); the Fibonacci table starts over; the comet crosses the
\* seam.
Moments == {4, 15680, 28120}

=============================================================================
