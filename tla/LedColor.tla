------------------------------- MODULE LedColor -------------------------------
(***************************************************************************)
(* The 8-bit colour arithmetic of the LED nodes, the default backend of     *)
(* led_color.h.  A byte wraps where the code casts to uint8_t and nowhere   *)
(* else.  A colour is the triple of its red, green and blue channels, a     *)
(* palette sixteen of them.                                                 *)
(***************************************************************************)
EXTENDS Integers

Bytes    == 0..255
Channels == 1..3
Pixels   == [Channels -> Bytes]
Palettes16 == [0..15 -> Pixels]

Byte(x) == x % 256

\* Conditions of the code read as 0 or 1.
Bit(x, weight) == (x \div weight) % 2 = 1

-----------------------------------------------------------------------------
(* Scaling and waves *)

scale8(i, scale) == Byte((i * (scale + 1)) \div 256)

\* Twice the distance from the nearer end: it peaks at 254, not at 255.
triangle8(x) == Byte(IF x < 128 THEN x * 2 ELSE (255 - x) * 2)

ease8(i) ==
    LET j  == IF Bit(i, 128) THEN Byte(255 - i) ELSE i
        e2 == Byte(scale8(j, j) * 2)
    IN  IF Bit(i, 128) THEN Byte(255 - e2) ELSE e2

\* The quarter wave fed to ease8 never passes its middle, so the result stays
\* within 64..192.
sin8(theta) ==
    LET offset == (IF Bit(theta, 64) THEN Byte(256 - theta) ELSE theta) % 128
        y      == scale8(ease8(Byte(offset * 2)), 255)
    IN  IF Bit(theta, 128)
        THEN Byte(128 - y \div 2 - (IF y \div 2 > 128 THEN 128 ELSE 0))
        ELSE Byte(128 + y \div 2)

-----------------------------------------------------------------------------
(* Colours *)

Black == <<0, 0, 0>>
Grey(level) == <<level, level, level>>

nscale8(c, scale) == [k \in Channels |-> scale8(c[k], scale)]

\* Six regions of 43 hues; in each one channel is full, one low, one in between.
hsv_to_rgb(hue, sat, val) ==
    LET region    == hue \div 43
        remainder == Byte((hue - region * 43) * 6)
        p == scale8(val, 255 - sat)
        q == scale8(val, 255 - scale8(sat, remainder))
        t == scale8(val, 255 - scale8(sat, 255 - remainder))
    IN  CASE region = 0 -> <<val, t, p>>
          [] region = 1 -> <<q, val, p>>
          [] region = 2 -> <<p, val, t>>
          [] region = 3 -> <<p, q, val>>
          [] region = 4 -> <<t, p, val>>
          [] OTHER      -> <<val, p, q>>

\* Mutated form: the first colour is not faded out.
blend_Adds(a, b, frac) ==
    [k \in Channels |-> Byte(a[k] + scale8(b[k], frac))]

blend(a, b, frac) ==
    [k \in Channels |-> Byte(scale8(a[k], 255 - frac) + scale8(b[k], frac))]

\* Between the two nearest of the sixteen entries, then dimmed.
ColorFromPalette(palette, index, brightness) ==
    LET hi == index \div 16
        c  == blend(palette[hi], palette[(hi + 1) % 16], (index % 16) * 16)
    IN  IF brightness = 255 THEN c ELSE nscale8(c, brightness)

-----------------------------------------------------------------------------
(* Output policy *)

\* Colour correction, white point, then the brightness ceiling.
apply_output_policy(c, p) ==
    LET corrected == [k \in Channels |->
                        scale8(scale8(c[k], p.color_correction[k]), p.color_temperature[k])]
    IN  IF p.master_brightness = 255 THEN corrected
        ELSE nscale8(corrected, p.master_brightness)

=============================================================================
