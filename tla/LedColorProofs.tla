---------------------------- MODULE LedColorProofs ----------------------------
(***************************************************************************)
(* What the colour arithmetic guarantees for every byte: nothing leaves its *)
(* byte, scaling never brightens, and a blend is never brighter than the    *)
(* brighter of the two colours.                                             *)
(***************************************************************************)
EXTENDS LedColor, TLAPS

-----------------------------------------------------------------------------
(* Bytes *)

\* Bytes are the natural numbers up to 255.
LEMMA BytesTyped == \A x : x \in Bytes <=> x \in Nat /\ x <= 255
BY DEF Bytes

\* A cast gives a byte, and leaves a byte alone.
LEMMA ByteTyped ==
    ASSUME NEW x \in Int
    PROVE  Byte(x) \in Bytes /\ (x \in Bytes => Byte(x) = x)
BY DEF Byte, Bytes

\* A byte no larger than m is in the interval that ends with m.
LEMMA UpToInterval ==
    ASSUME NEW m \in Bytes, NEW x \in Bytes
    PROVE  x <= m <=> x \in 0..m
BY DEF Bytes

\* Bytes are ordered.
LEMMA BytesOrdered == \A x, y, z \in Bytes : x <= y /\ y <= z => x <= z
BY DEF Bytes

\* A product grows with its factors.
LEMMA ProductGrows ==
    ASSUME NEW x \in Nat, NEW y \in Nat, NEW z \in Nat, x <= y
    PROVE  x * z <= y * z /\ x * z \in Nat
OBVIOUS

\* Scaling a byte keeps it a byte, no larger than itself or than the scale.
THEOREM ScaleBounds ==
    ASSUME NEW i \in Bytes, NEW scale \in Bytes
    PROVE  /\ scale8(i, scale) \in Bytes
           /\ scale8(i, scale) <= i /\ scale8(i, scale) <= scale
           /\ scale8(i, scale) = (i * (scale + 1)) \div 256
<1> DEFINE p == i * (scale + 1)
<1>1. p \in Nat /\ p <= 255 * (scale + 1)
  BY ProductGrows DEF Bytes
<1>2. p <= i * 256
  BY DEF Bytes
<1>3. p \div 256 \in Bytes /\ p \div 256 <= i /\ p \div 256 <= scale
  <2> HIDE DEF p
  <2> QED BY <1>1, <1>2 DEF Bytes
<1>4. scale8(i, scale) = p \div 256
  BY <1>3, ByteTyped DEF scale8, Byte, Bytes
<1> QED BY <1>3, <1>4

\* At full scale nothing changes.
LEMMA ScaleFull ==
    ASSUME NEW i \in Bytes
    PROVE  scale8(i, 255) = i
<1>1. scale8(i, 255) = (i * 256) \div 256
  <2>1. 255 \in Bytes /\ 255 + 1 = 256
    BY DEF Bytes
  <2> QED BY <2>1, ScaleBounds
<1>2. (i * 256) \div 256 = i
  BY DEF Bytes
<1> QED BY <1>1, <1>2

\* Two channels no brighter than m blend into one no brighter than m: the two
\* weights add up to 257 of 256, and the rounding takes the rest away.
LEMMA BlendBounds ==
    ASSUME NEW m \in Bytes, NEW a \in Bytes, NEW b \in Bytes, NEW frac \in Bytes,
           a <= m, b <= m
    PROVE  scale8(a, 255 - frac) + scale8(b, frac) \in 0..m
<1> DEFINE x == a * (256 - frac)
           y == b * (frac + 1)
<1>1. x \in Nat /\ x <= m * (256 - frac)
  BY ProductGrows DEF Bytes
<1>2. y \in Nat /\ y <= m * (frac + 1)
  BY ProductGrows DEF Bytes
<1>3. m * (256 - frac) + m * (frac + 1) = m * 257
  BY DEF Bytes
<1>4. m * (256 - frac) \in Int /\ m * (frac + 1) \in Int
  BY DEF Bytes
<1>5. x + y <= m * 257
  <2> HIDE DEF x, y
  <2> QED BY <1>1, <1>2, <1>3, <1>4 DEF Bytes
<1>6. x \div 256 + y \div 256 \in 0..m
  <2> HIDE DEF x, y
  <2> QED BY <1>1, <1>2, <1>5 DEF Bytes
<1>7. 255 - frac \in Bytes /\ (255 - frac) + 1 = 256 - frac
  BY DEF Bytes
<1>8. scale8(a, 255 - frac) = x \div 256 /\ scale8(b, frac) = y \div 256
  BY <1>7, ScaleBounds
<1> QED BY <1>6, <1>8

-----------------------------------------------------------------------------
(* Waves *)

\* The triangle never reaches 255.
LEMMA TriangleBounds ==
    ASSUME NEW x \in Bytes
    PROVE  triangle8(x) \in Bytes /\ triangle8(x) <= 254
<1>1. CASE x < 128
  BY <1>1, ByteTyped DEF triangle8, Bytes
<1>2. CASE ~(x < 128)
  BY <1>2, ByteTyped DEF triangle8, Bytes
<1> QED BY <1>1, <1>2

\* Bit 7 of a byte is set in its upper half.
LEMMA HighBit ==
    ASSUME NEW x \in Bytes
    PROVE  Bit(x, 128) <=> x >= 128
BY DEF Bit, Bytes

\* Easing keeps a byte a byte, and a byte of the lower half and the one above
\* below 130.
LEMMA EaseBounds ==
    ASSUME NEW i \in Bytes
    PROVE  ease8(i) \in Bytes /\ (i <= 128 => ease8(i) <= 129)
<1> DEFINE j  == IF Bit(i, 128) THEN Byte(255 - i) ELSE i
           e2 == Byte(scale8(j, j) * 2)
<1>1. j \in 0..127
  BY HighBit, ByteTyped DEF Bytes
<1>2. scale8(j, j) \in 0..127 /\ scale8(j, j) = (j * (j + 1)) \div 256
  <2> HIDE DEF j
  <2>1. j \in Bytes
    BY <1>1 DEF Bytes
  <2>2. scale8(j, j) \in Bytes /\ scale8(j, j) <= j /\ scale8(j, j) = (j * (j + 1)) \div 256
    BY <2>1, ScaleBounds
  <2> QED BY <1>1, <2>2 DEF Bytes
<1>3. e2 \in 0..254 /\ e2 = scale8(j, j) * 2
  <2> HIDE DEF j
  <2> QED BY <1>2, ByteTyped DEF Bytes
<1>4. ease8(i) = IF Bit(i, 128) THEN Byte(255 - e2) ELSE e2
  BY DEF ease8
<1>5. Byte(255 - e2) = 255 - e2
  BY <1>3, ByteTyped DEF Bytes
<1>6. ease8(i) \in Bytes
  BY <1>3, <1>4, <1>5 DEF Bytes
<1>7. scale8(j, j) <= 63
  <2> HIDE DEF j
  <2>1. j * (j + 1) <= 127 * 128 /\ j * (j + 1) \in Nat
    <3>1. j * (j + 1) <= 127 * (j + 1) /\ j * (j + 1) \in Nat
      BY <1>1, ProductGrows
    <3> QED BY <1>1, <3>1
  <2> QED BY <1>2, <2>1
<1>8. CASE i < 128
  <2>0. ~Bit(i, 128)
    BY <1>8, HighBit DEF Bytes
  <2>1. ease8(i) = e2
    BY <1>4, <2>0
  <2> QED BY <1>3, <1>6, <1>7, <2>1, <1>2 DEF Bytes
<1>9. CASE i = 128
  <2>1. j = 127 /\ Bit(i, 128)
    BY <1>9, HighBit, ByteTyped DEF Bytes
  <2>2. scale8(j, j) = 63
    BY <1>2, <2>1
  <2> QED BY <1>3, <1>4, <1>5, <1>6, <1>9, <2>1, <2>2
<1> QED BY <1>6, <1>8, <1>9 DEF Bytes

\* The sine never leaves its middle half: the part of theta it eases is at
\* most 128, so the eased half wave is at most 64.
THEOREM SinBounds ==
    ASSUME NEW theta \in Bytes
    PROVE  sin8(theta) \in 64..192
<1> DEFINE offset == (IF Bit(theta, 64) THEN Byte(256 - theta) ELSE theta) % 128
           y      == scale8(ease8(Byte(offset * 2)), 255)
<1>1. offset \in 0..64
  <2>1. CASE Bit(theta, 64)
    <3>1. theta \in 64..127 \/ theta \in 192..255
      BY <2>1 DEF Bit, Bytes
    <3>2. Byte(256 - theta) = 256 - theta
      BY <3>1, ByteTyped DEF Bytes
    <3> QED BY <2>1, <3>1, <3>2
  <2>2. CASE ~Bit(theta, 64)
    <3>1. theta \in 0..63 \/ theta \in 128..191
      BY <2>2 DEF Bit, Bytes
    <3> QED BY <2>2, <3>1
  <2> QED BY <2>1, <2>2
<1>2. Byte(offset * 2) \in Bytes /\ Byte(offset * 2) <= 128
  <2> HIDE DEF offset
  <2> QED BY <1>1, ByteTyped DEF Bytes
<1>3. y \in 0..129
  <2> HIDE DEF offset
  <2>1. ease8(Byte(offset * 2)) \in Bytes /\ ease8(Byte(offset * 2)) <= 129
    BY <1>2, EaseBounds
  <2> QED BY <2>1, ScaleFull DEF Bytes
<1>4. sin8(theta) = IF Bit(theta, 128)
                    THEN Byte(128 - y \div 2 - (IF y \div 2 > 128 THEN 128 ELSE 0))
                    ELSE Byte(128 + y \div 2)
  BY DEF sin8
<1>5. Byte(128 - y \div 2) \in 64..128 /\ Byte(128 + y \div 2) \in 128..192 /\ ~(y \div 2 > 128)
  <2> HIDE DEF y
  <2>1. 128 - y \div 2 \in 64..128 /\ 128 + y \div 2 \in 128..192 /\ ~(y \div 2 > 128)
    BY <1>3
  <2>2. 128 - y \div 2 \in Bytes /\ 128 + y \div 2 \in Bytes
    BY <2>1 DEF Bytes
  <2> QED BY <2>1, <2>2 DEF Byte, Bytes
<1>6. Byte(128 - y \div 2 - 0) = Byte(128 - y \div 2)
  <2> HIDE DEF y
  <2> QED BY <1>3
<1> HIDE DEF y
<1> QED BY <1>4, <1>5, <1>6

-----------------------------------------------------------------------------
(* Colours *)

\* A triple of bytes is a pixel.
LEMMA TripleIsPixel ==
    ASSUME NEW m \in Bytes, NEW x \in 0..m, NEW y \in 0..m, NEW z \in 0..m
    PROVE  <<x, y, z>> \in [Channels -> 0..m] /\ <<x, y, z>> \in Pixels
BY DEF Channels, Pixels, Bytes

\* The pixels no channel of which is above m.
UpTo(m) == [Channels -> 0..m]

\* They are pixels, the more the higher m; all of them have black among them.
LEMMA UpToGrows ==
    ASSUME NEW m \in Bytes, NEW d \in 0..m, NEW c \in UpTo(d)
    PROVE  c \in UpTo(m) /\ c \in Pixels
BY DEF UpTo, Pixels, Channels, Bytes

LEMMA BlackIsDark ==
    ASSUME NEW m \in Bytes
    PROVE  Black \in UpTo(m) /\ Black \in Pixels
BY DEF Black, UpTo, Channels, Pixels, Bytes

\* Dimming goes at least down to the scale.
LEMMA DimmedUpTo ==
    ASSUME NEW c \in Pixels, NEW scale \in Bytes
    PROVE  nscale8(c, scale) \in UpTo(scale) /\ nscale8(c, scale) \in Pixels
           /\ \A k \in Channels : nscale8(c, scale)[k] <= c[k]
<1>1. \A k \in Channels : c[k] \in Bytes
  BY DEF Pixels
<1>2. \A k \in Channels : scale8(c[k], scale) \in Bytes /\ scale8(c[k], scale) <= scale
                          /\ scale8(c[k], scale) <= c[k]
  BY <1>1, ScaleBounds
<1>3. \A k \in Channels : scale8(c[k], scale) \in 0..scale
  BY <1>2, UpToInterval
<1> QED BY <1>2, <1>3 DEF nscale8, UpTo, Pixels

\* A blend of two colours up to m is up to m.
LEMMA BlendUpTo ==
    ASSUME NEW m \in Bytes, NEW a \in UpTo(m), NEW b \in UpTo(m), NEW frac \in Bytes
    PROVE  blend(a, b, frac) \in UpTo(m)
<1> DEFINE sum(k) == scale8(a[k], 255 - frac) + scale8(b[k], frac)
<1>1. ASSUME NEW k \in Channels
      PROVE  Byte(sum(k)) \in 0..m
  <2>1. a[k] \in Bytes /\ a[k] <= m /\ b[k] \in Bytes /\ b[k] <= m
    BY DEF UpTo, Bytes
  <2>2. sum(k) \in 0..m
    BY <2>1, BlendBounds
  <2> HIDE DEF sum
  <2> QED BY <2>2, ByteTyped DEF Bytes
<1> QED BY <1>1 DEF blend, UpTo

\* A hue is a pixel.
LEMMA HueIsPixel ==
    ASSUME NEW hue \in Bytes, NEW sat \in Bytes, NEW val \in Bytes
    PROVE  hsv_to_rgb(hue, sat, val) \in Pixels
<1> DEFINE region    == hue \div 43
           remainder == Byte((hue - region * 43) * 6)
           p == scale8(val, 255 - sat)
           q == scale8(val, 255 - scale8(sat, remainder))
           t == scale8(val, 255 - scale8(sat, 255 - remainder))
<1>1. remainder \in Bytes /\ 255 - remainder \in Bytes
  <2>1. (hue - region * 43) * 6 \in Int
    BY DEF Bytes
  <2> QED BY <2>1, ByteTyped DEF Bytes
<1> HIDE DEF remainder
<1>2. 255 - scale8(sat, remainder) \in Bytes /\ 255 - scale8(sat, 255 - remainder) \in Bytes
      /\ 255 - sat \in Bytes
  <2>1. scale8(sat, remainder) \in Bytes /\ scale8(sat, 255 - remainder) \in Bytes
    BY <1>1, ScaleBounds
  <2> QED BY <2>1 DEF Bytes
<1>3. p \in Bytes /\ q \in Bytes /\ t \in Bytes
  BY <1>2, ScaleBounds
<1> HIDE DEF p, q, t
<1>4. \A x, y, z \in Bytes : <<x, y, z>> \in Pixels
  BY DEF Pixels, Channels
<1>5. hsv_to_rgb(hue, sat, val) =
        CASE region = 0 -> <<val, t, p>>
          [] region = 1 -> <<q, val, p>>
          [] region = 2 -> <<p, val, t>>
          [] region = 3 -> <<p, q, val>>
          [] region = 4 -> <<t, p, val>>
          [] OTHER      -> <<val, p, q>>
  BY DEF hsv_to_rgb, remainder, p, q, t
<1> HIDE DEF region
<1> QED BY <1>3, <1>4, <1>5

\* A palette sample is a pixel no brighter than asked for.
LEMMA PaletteUpTo ==
    ASSUME NEW palette \in Palettes16, NEW index \in Bytes, NEW brightness \in Bytes
    PROVE  /\ ColorFromPalette(palette, index, brightness) \in UpTo(brightness)
           /\ ColorFromPalette(palette, index, brightness) \in Pixels
<1> DEFINE hi == index \div 16
           c  == blend(palette[hi], palette[(hi + 1) % 16], (index % 16) * 16)
<1>1. hi \in 0..15 /\ (hi + 1) % 16 \in 0..15 /\ (index % 16) * 16 \in Bytes
  BY DEF Bytes
<1>2. Pixels = UpTo(255) /\ 255 \in Bytes
  BY DEF Pixels, UpTo, Bytes
<1>3. c \in UpTo(255)
  <2> HIDE DEF hi
  <2>1. palette[hi] \in UpTo(255) /\ palette[(hi + 1) % 16] \in UpTo(255)
    BY <1>1, <1>2 DEF Palettes16
  <2> QED BY <1>1, <1>2, <2>1, BlendUpTo
<1>4. ColorFromPalette(palette, index, brightness) =
        IF brightness = 255 THEN c ELSE nscale8(c, brightness)
  BY DEF ColorFromPalette
<1> HIDE DEF c
<1> QED BY <1>2, <1>3, <1>4, DimmedUpTo

-----------------------------------------------------------------------------
(* The output policy *)

\* The policy never brightens: no channel ends above where it started, nor
\* above the ceiling.
THEOREM PolicyBounds ==
    ASSUME NEW m \in Bytes, NEW c \in UpTo(m), NEW p,
           p.color_correction \in Pixels, p.color_temperature \in Pixels,
           p.master_brightness \in Bytes
    PROVE  apply_output_policy(c, p) \in UpTo(m) \cap UpTo(p.master_brightness)
<1> DEFINE right(k)  == scale8(c[k], p.color_correction[k])
           white(k)  == scale8(right(k), p.color_temperature[k])
           corrected == [k \in Channels |-> white(k)]
<1>1. ASSUME NEW k \in Channels
      PROVE  white(k) \in Bytes /\ white(k) <= m
  <2>1. c[k] \in Bytes /\ c[k] <= m /\ p.color_correction[k] \in Bytes
        /\ p.color_temperature[k] \in Bytes
    BY DEF UpTo, Pixels, Bytes
  <2>2. right(k) \in Bytes /\ right(k) <= c[k]
    BY <2>1, ScaleBounds
  <2> HIDE DEF right
  <2>3. white(k) \in Bytes /\ white(k) <= right(k)
    BY <2>1, <2>2, ScaleBounds
  <2> HIDE DEF white
  <2>4. white(k) <= c[k]
    BY <2>1, <2>2, <2>3, BytesOrdered
  <2> QED BY <2>1, <2>3, <2>4, BytesOrdered
<1>2. apply_output_policy(c, p) = IF p.master_brightness = 255 THEN corrected
                                  ELSE nscale8(corrected, p.master_brightness)
  BY DEF apply_output_policy
<1> HIDE DEF white
<1>3. \A k \in Channels : white(k) \in 0..m
  BY <1>1, UpToInterval
<1>4. corrected \in UpTo(m) /\ corrected \in Pixels /\ \A k \in Channels : corrected[k] \in 0..m
  BY <1>1, <1>3 DEF UpTo, Pixels
<1> HIDE DEF corrected
<1>5. CASE p.master_brightness = 255
  BY <1>2, <1>4, <1>5 DEF Pixels, UpTo, Bytes
<1>6. CASE p.master_brightness # 255
  <2> DEFINE d == nscale8(corrected, p.master_brightness)
  <2>1. d \in UpTo(p.master_brightness) /\ d \in Pixels
        /\ \A k \in Channels : d[k] <= corrected[k]
    BY <1>4, DimmedUpTo
  <2> HIDE DEF d
  <2>2. ASSUME NEW k \in Channels
        PROVE  d[k] \in 0..m
    <3>1. d[k] \in Bytes /\ corrected[k] \in Bytes /\ d[k] <= corrected[k] /\ corrected[k] <= m
      BY <1>4, <2>1, UpToInterval DEF Pixels
    <3>2. d[k] <= m
      BY <3>1, BytesOrdered
    <3> QED BY <3>1, <3>2, UpToInterval
  <2>3. d \in UpTo(m)
    BY <2>1, <2>2 DEF Pixels, UpTo
  <2> QED BY <1>2, <1>6, <2>1, <2>3 DEF d
<1> QED BY <1>5, <1>6

=============================================================================
