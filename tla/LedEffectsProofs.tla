--------------------------- MODULE LedEffectsProofs ---------------------------
(***************************************************************************)
(* What the effects guarantee for every scene, layout, LED, time and        *)
(* palette: a pixel, none of whose channels is brighter than the scene; and *)
(* the Fibonacci table goes on where one period ends.                       *)
(***************************************************************************)
EXTENDS LedEffects, LedColorProofs

-----------------------------------------------------------------------------
(* Helpers *)

\* The fields of a scene, one by one.
LEMMA SceneFields ==
    ASSUME NEW s, SceneTyped(s)
    PROVE  /\ s.red \in Bytes /\ s.green \in Bytes /\ s.blue \in Bytes
           /\ s.speed \in Bytes /\ s.brightness \in Bytes /\ s.sequence \in Sequences
           /\ Rgb(s) \in Pixels
<1>1. /\ s.red \in Bytes /\ s.green \in Bytes /\ s.blue \in Bytes
      /\ s.speed \in Bytes /\ s.brightness \in Bytes /\ s.sequence \in Sequences
  BY DEF SceneTyped
<1>2. Rgb(s) \in Pixels
  BY <1>1 DEF Rgb, Pixels, Channels
<1> QED BY <1>1, <1>2

\* A quotient of natural numbers is one, a remainder is below the divisor.
LEMMA QuotientTyped ==
    ASSUME NEW x \in Nat, NEW y \in Nat \ {0}
    PROVE  x \div y \in Nat /\ x % y \in 0..y - 1
OBVIOUS

\* Words are natural numbers, and what is reduced modulo 2^16 is one.
LEMMA WordsTyped ==
    /\ \A x \in Words : x \in Nat
    /\ \A x \in Nat : x % WordWidth \in Words
<1>1. WordWidth \in Nat \ {0}
  BY DEF WordWidth
<1> QED BY <1>1, QuotientTyped DEF Words

\* The strip has a LED.
LEMMA StripTyped ==
    ASSUME NEW n, LayoutTyped(n)
    PROVE  Strip(n) \in Nat \ {0}
<1>1. n.total_leds \in Nat
  BY WordsTyped DEF LayoutTyped
<1> QED BY <1>1 DEF Strip

\* Beats are counted from zero.
LEMMA BeatTyped ==
    ASSUME NEW s, SceneTyped(s), NEW t \in Nat, NEW period \in Nat \ {0}
    PROVE  Beat(s, t, period) \in Nat
<1>1. Speed(s) \in Nat
  BY SceneFields DEF Speed, Bytes
<1>2. t * Speed(s) \in Nat
  BY <1>1
<1> DEFINE product == t * Speed(s)
<1> HIDE DEF product
<1>3. product \in Nat
  BY <1>2 DEF product
<1>4. product % ClockWidth \in Nat
  BY <1>3, QuotientTyped, EffectsAssumption
<1>5. (product % ClockWidth) \div period \in Nat
  BY <1>4, QuotientTyped
<1> QED BY <1>5 DEF Beat, product

\* The hash gives bytes, for every LED of the strip and for the node's id.
LEMMA HashTyped ==
    ASSUME NEW salt \in Salts, NEW i \in Words, NEW seq \in Sequences
    PROVE  hash8(salt, i, seq) \in Bytes
BY EffectsAssumption

\* Distances around the ring count up from zero.
LEMMA RingTyped ==
    ASSUME NEW len \in Nat \ {0}, NEW a \in 0..len - 1, NEW b \in 0..len - 1
    PROVE  ring_distance(a, b, len) \in Nat
BY DEF ring_distance

\* What is dimmed to a part of the scene's brightness is within it.
LEMMA Dim ==
    ASSUME NEW s, SceneTyped(s), NEW c \in Pixels, NEW part \in Bytes
    PROVE  /\ nscale8(c, s.brightness) \in UpTo(s.brightness)
           /\ nscale8(c, scale8(part, s.brightness)) \in UpTo(s.brightness)
<1>1. s.brightness \in Bytes
  BY SceneFields
<1>2. scale8(part, s.brightness) \in Bytes /\ scale8(part, s.brightness) \in 0..s.brightness
  BY <1>1, ScaleBounds, UpToInterval
<1> QED BY <1>1, <1>2, DimmedUpTo, UpToGrows

\* So is what a palette gives at a part of it, whichever is the scale.
LEMMA Sample ==
    ASSUME NEW s, SceneTyped(s), NEW pal \in Palettes16, NEW index \in Bytes, NEW part \in Bytes
    PROVE  /\ ColorFromPalette(pal, index, s.brightness) \in UpTo(s.brightness)
           /\ ColorFromPalette(pal, index, scale8(part, s.brightness)) \in UpTo(s.brightness)
           /\ ColorFromPalette(pal, index, scale8(s.brightness, part)) \in UpTo(s.brightness)
<1>1. s.brightness \in Bytes
  BY SceneFields
<1>2. /\ scale8(part, s.brightness) \in Bytes /\ scale8(part, s.brightness) \in 0..s.brightness
      /\ scale8(s.brightness, part) \in Bytes /\ scale8(s.brightness, part) \in 0..s.brightness
  BY <1>1, ScaleBounds, UpToInterval
<1> QED BY <1>1, <1>2, PaletteUpTo, UpToGrows

-----------------------------------------------------------------------------
(* Effects without a palette *)

LEMMA SolidBounds ==
    ASSUME NEW s, SceneTyped(s)
    PROVE  render_solid(s) \in UpTo(s.brightness)
BY SceneFields, DimmedUpTo DEF render_solid

LEMMA RainbowBounds ==
    ASSUME NEW s, SceneTyped(s), NEW n, LayoutTyped(n), NEW i \in Words, NEW t \in Nat
    PROVE  render_rainbow(s, n, i, t) \in UpTo(s.brightness)
<1> DEFINE hue == Byte(Beat(s, t, 20) + (i * 256) \div Strip(n))
<1>1. hue \in Bytes /\ 255 \in Bytes
  <2>1. Beat(s, t, 20) \in Nat /\ Strip(n) \in Nat \ {0} /\ i * 256 \in Nat
    BY BeatTyped, StripTyped, WordsTyped
  <2>2. (i * 256) \div Strip(n) \in Nat
    BY <2>1, QuotientTyped
  <2> QED BY <2>1, <2>2, ByteTyped DEF Bytes
<1> HIDE DEF hue
<1>2. hsv_to_rgb(hue, 255, 255) \in Pixels
  BY <1>1, HueIsPixel
<1>3. nscale8(hsv_to_rgb(hue, 255, 255), s.brightness) \in UpTo(s.brightness)
  BY <1>2, SceneFields, DimmedUpTo
<1> QED BY <1>3 DEF render_rainbow, hue

LEMMA CometBounds ==
    ASSUME NEW s, SceneTyped(s), NEW n, LayoutTyped(n), NEW i \in Words, NEW t \in Nat
    PROVE  render_comet(s, n, i, t) \in UpTo(s.brightness)
<1> DEFINE head == Beat(s, t, 8000) % Strip(n)
           dist == ring_distance(i % Strip(n), head, Strip(n))
           tail == Byte(255 - dist * 28)
<1>1. dist \in Nat
  <2>1. Beat(s, t, 8000) \in Nat /\ Strip(n) \in Nat \ {0} /\ i \in Nat
    BY BeatTyped, StripTyped, WordsTyped
  <2>2. head \in 0..Strip(n) - 1 /\ i % Strip(n) \in 0..Strip(n) - 1
    <3> DEFINE beat == Beat(s, t, 8000)
               len  == Strip(n)
    <3> HIDE DEF beat, len
    <3>1. beat \in Nat /\ len \in Nat \ {0} /\ i \in Nat
      BY <2>1 DEF beat, len
    <3>2. beat % len \in 0..len - 1 /\ i % len \in 0..len - 1
      BY <3>1, QuotientTyped
    <3> QED BY <3>2 DEF beat, len
  <2> HIDE DEF head
  <2> QED BY <2>1, <2>2, RingTyped
<1> HIDE DEF dist
<1>2. ease8(tail) \in Bytes
  BY <1>1, ByteTyped, EaseBounds
<1>3. nscale8(Rgb(s), scale8(ease8(tail), s.brightness)) \in UpTo(s.brightness)
  BY <1>2, SceneFields, Dim
<1>4. Black \in UpTo(s.brightness)
  BY SceneFields, BlackIsDark
<1> QED BY <1>3, <1>4 DEF render_comet, dist

LEMMA ChaseBounds ==
    ASSUME NEW s, SceneTyped(s), NEW i, NEW t
    PROVE  render_theater_chase(s, i, t) \in UpTo(s.brightness)
BY SceneFields, DimmedUpTo, BlackIsDark DEF render_theater_chase

\* A flash is a byte.
LEMMA FlashTyped ==
    ASSUME NEW phase \in Bytes
    PROVE  Flash(phase) \in Bytes
<1>1. triangle8(phase) \in Bytes
  BY TriangleBounds
<1> QED BY <1>1, EaseBounds DEF Flash

LEMMA TwinkleBounds ==
    ASSUME NEW s, SceneTyped(s), NEW i \in Words, NEW t \in Nat
    PROVE  render_twinkle(s, i, t) \in UpTo(s.brightness)
<1> DEFINE seed  == hash8("twinkle", i, s.sequence)
           phase == Byte(Beat(s, t, 24) + seed)
<1>1. seed \in Bytes
  BY SceneFields, HashTyped DEF Salts
<1> HIDE DEF seed
<1>2. phase \in Bytes
  <2>1. Beat(s, t, 24) \in Nat
    BY BeatTyped
  <2> QED BY <1>1, <2>1, ByteTyped DEF Bytes
<1> HIDE DEF phase
<1>3. nscale8(Rgb(s), scale8(Flash(phase), s.brightness)) \in UpTo(s.brightness)
  BY <1>2, FlashTyped, SceneFields, Dim
<1>4. Black \in UpTo(s.brightness)
  BY SceneFields, BlackIsDark
<1> QED BY <1>3, <1>4 DEF render_twinkle, seed, phase

LEMMA IdentifyBounds ==
    ASSUME NEW s, SceneTyped(s), NEW n, LayoutTyped(n), NEW i, NEW t
    PROVE  render_identify(s, n, i, t) \in UpTo(s.brightness)
<1> DEFINE level == IF (t \div 500) % 2 = 1 THEN s.brightness ELSE scale8(s.brightness, 40)
<1>1. s.brightness \in Bytes /\ level \in Bytes /\ level \in 0..s.brightness
  <2>1. s.brightness \in Bytes /\ 40 \in Bytes
    BY SceneFields DEF Bytes
  <2>2. s.brightness <= s.brightness
    BY <2>1 DEF Bytes
  <2> QED BY <2>1, <2>2, ScaleBounds, UpToInterval
<1>2. Grey(level) \in UpTo(s.brightness)
  <2> HIDE DEF level
  <2> QED BY <1>1, TripleIsPixel DEF Grey, UpTo
<1>3. hsv_to_rgb(hash8("identify", n.node_id, 0), 255, 255) \in Pixels
  <2>1. hash8("identify", n.node_id, 0) \in Bytes /\ 255 \in Bytes
    BY EffectsAssumption, HashTyped DEF Salts, LayoutTyped, Bytes
  <2> QED BY <2>1, HueIsPixel
<1>4. nscale8(hsv_to_rgb(hash8("identify", n.node_id, 0), 255, 255), level) \in UpTo(s.brightness)
  <2> HIDE DEF level
  <2> QED BY <1>1, <1>3, DimmedUpTo, UpToGrows
<1> QED BY <1>2, <1>4 DEF render_identify

-----------------------------------------------------------------------------
(* The Fibonacci table *)

(* No induction over the table is within the provers' reach, but a stretch has *)
(* 16 entries and there are 24 of them: what carries over one carries over     *)
(* two, so over four, and so on; 1 + 2 + 4 + 8 + 8 stretches reach the last.   *)
(* The same way, 1 + 2 + 4 + ... + 128 + 128 entries reach the end of a period.*)

Pairs == Bytes \X Bytes

Entries == 0..Pisano256 - 1

LEMMA EntriesTyped == \A k : k \in Entries <=> k \in Nat /\ k <= 383
<1> DEFINE last == Pisano256 - 1
<1>1. last = 383
  BY DEF Pisano256
<1> HIDE DEF last
<1>2. \A k : k \in 0..last <=> k \in Nat /\ k <= last
  BY <1>1
<1> QED BY <1>1, <1>2 DEF Entries, last

\* One step of the table.
NextPair(pair) == <<pair[2], Byte(pair[1] + pair[2])>>

\* fib_step takes it, and ends with a pair.
LEMMA StepTyped ==
    ASSUME NEW p \in Pairs
    PROVE  fib_step[p] = NextPair(p) /\ fib_step[p] \in Pairs
<1>1. fib_step[p] = NextPair(p)
  BY DEF fib_step, NextPair, Pairs
<1>2. p[1] \in Bytes /\ p[2] \in Bytes
  BY DEF Pairs
<1>3. Byte(p[1] + p[2]) \in Bytes
  <2>1. p[1] + p[2] \in Int
    BY <1>2, BytesTyped
  <2> QED BY <2>1, ByteTyped
<1> QED BY <1>1, <1>2, <1>3 DEF NextPair, Pairs

\* What a recursive function asks for, with its first value and its step, as
\* far as n.
IsTable(f, n, first, next) ==
    f = [k \in 0..n |-> IF k = 0 THEN first ELSE next[f[k - 1]]]

\* A table as far as n can be extended by one entry.
LEMMA OneMore ==
    ASSUME NEW first, NEW next
    PROVE  \A n \in Nat : (\E f : IsTable(f, n, first, next))
                             => \E f : IsTable(f, n + 1, first, next)
<1> SUFFICES ASSUME NEW n \in Nat, NEW f, IsTable(f, n, first, next)
             PROVE  \E g : IsTable(g, n + 1, first, next)
  OBVIOUS
<1> DEFINE g == [k \in 0..n + 1 |-> IF k = n + 1 THEN next[f[n]] ELSE f[k]]
<1>1. ASSUME NEW k \in 0..n + 1
      PROVE  g[k] = IF k = 0 THEN first ELSE next[g[k - 1]]
  <2>1. CASE k = n + 1
    <3>1. g[k] = next[f[n]] /\ g[k - 1] = f[n] /\ k # 0
      BY <2>1
    <3> QED BY <3>1
  <2>2. CASE k # n + 1
    <3>1. k \in 0..n /\ g[k] = f[k]
      BY <2>2
    <3>2. f[k] = IF k = 0 THEN first ELSE next[f[k - 1]]
      BY <3>1 DEF IsTable
    <3>3. k # 0 => k - 1 \in 0..n /\ k - 1 # n + 1 /\ g[k - 1] = f[k - 1]
      BY <3>1
    <3> QED BY <3>1, <3>2, <3>3
  <2> QED BY <2>1, <2>2
<1>2. g = [k \in 0..n + 1 |-> g[k]]
  OBVIOUS
<1> HIDE DEF g
<1>3. IsTable(g, n + 1, first, next)
  BY <1>1, <1>2 DEF IsTable
<1> QED BY <1>3

\* So there are the table of a stretch and the table of the stretches.
LEMMA TableExists ==
    ASSUME NEW first, NEW next
    PROVE  /\ \E f : IsTable(f, 16, first, next)
           /\ \E f : IsTable(f, 23, first, next)
<1> DEFINE E(n) == \E f : IsTable(f, n, first, next)
<1>0. E(0)
  <2>1. IsTable([k \in 0..0 |-> first], 0, first, next)
    BY DEF IsTable
  <2> QED BY <2>1
<1>1. \A n \in Nat : E(n) => E(n + 1)
  BY OneMore
<1> HIDE DEF E
<1>2. \A n \in Nat : E(n) => E(n + 2)
  BY <1>1
<1>4. \A n \in Nat : E(n) => E(n + 4)
  BY <1>2
<1>8. \A n \in Nat : E(n) => E(n + 8)
  BY <1>4
<1>15. E(1) /\ E(3) /\ E(7) /\ E(15)
  BY <1>0, <1>1, <1>2, <1>4, <1>8
<1>23. E(16) /\ E(23)
  BY <1>1, <1>8, <1>15
<1> QED BY <1>23 DEF E

\* Every entry of such a table is a pair of bytes when the first one is and the
\* step leads from pairs to pairs.
LEMMA TableTyped ==
    ASSUME NEW f, NEW n \in Nat, n <= 23, NEW first \in Pairs, NEW next,
           \A p \in Pairs : next[p] \in Pairs, IsTable(f, n, first, next)
    PROVE  \A k \in 0..n : f[k] \in Pairs
<1> DEFINE Q(m) == \A k \in Nat : k <= m /\ k <= n => f[k] \in Pairs
<1>0. Q(0)
  BY DEF IsTable
<1>1. ASSUME NEW m \in Nat, Q(m)
      PROVE  Q(m + 1)
  <2> SUFFICES ASSUME m + 1 <= n
               PROVE  f[m + 1] \in Pairs
    BY <1>1
  <2>1. f[m] \in Pairs
    BY <1>1
  <2>2. m + 1 \in 0..n /\ m + 1 # 0 /\ (m + 1) - 1 = m
    OBVIOUS
  <2>3. f[m + 1] = next[f[m]]
    BY <2>2 DEF IsTable
  <2> QED BY <2>1, <2>3
<1> HIDE DEF Q
<1>2. \A m \in Nat : Q(m) => Q(m + 2)
  BY <1>1
<1>4. \A m \in Nat : Q(m) => Q(m + 4)
  BY <1>2
<1>8. \A m \in Nat : Q(m) => Q(m + 8)
  BY <1>4
<1>15. Q(1) /\ Q(3) /\ Q(7) /\ Q(15)
  BY <1>0, <1>1, <1>2, <1>4, <1>8
<1>23. Q(23)
  BY <1>8, <1>15
<1> QED BY <1>23 DEF Q

\* Along a stretch, from any pair: the steps follow one another.
LEMMA StretchDefined ==
    ASSUME NEW p \in Pairs
    PROVE  /\ fib_ahead(0)[p] = p
           /\ \A c \in 0..16 : fib_ahead(c)[p] \in Pairs
           /\ \A c \in 0..15 : fib_ahead(c + 1)[p] = NextPair(fib_ahead(c)[p])
<1> DEFINE pair == CHOOSE f : IsTable(f, 16, p, fib_step)
<1>1. IsTable(pair, 16, p, fib_step)
  BY TableExists
<1>2. \A c : fib_ahead(c)[p] = pair[c]
  BY DEF fib_ahead, FibStretch, IsTable, Pairs
<1> HIDE DEF pair
<1>3. \A q \in Pairs : fib_step[q] \in Pairs
  BY StepTyped
<1>4. \A c \in 0..16 : pair[c] \in Pairs
  BY <1>1, <1>3, TableTyped
<1>5. pair[0] = p /\ \A c \in 0..15 : pair[c + 1] = fib_step[pair[c]]
  BY <1>1 DEF IsTable
<1>6. \A c \in 0..15 : c \in 0..16
  OBVIOUS
<1> QED BY <1>2, <1>4, <1>5, <1>6, StepTyped

\* The stretches: each starts where the one before it ends.
LEMMA StartsDefined ==
    /\ \A r \in 0..23 : fib_start[r] \in Pairs
    /\ fib_start[0] = <<1, 2>>
    /\ \A r \in 0..22 : fib_start[r + 1] = fib_ahead(16)[fib_start[r]]
<1>1. (Pisano256 \div FibStretch) - 1 = 23 /\ FibStretch = 16
  BY DEF Pisano256, FibStretch
<1>2. fib_start = CHOOSE f : IsTable(f, 23, <<1, 2>>, fib_ahead(16))
  BY <1>1 DEF fib_start, IsTable
<1>3. IsTable(fib_start, 23, <<1, 2>>, fib_ahead(16))
  BY <1>2, TableExists
<1>4. <<1, 2>> \in Pairs
  BY BytesTyped DEF Pairs
<1>5. \A p \in Pairs : fib_ahead(16)[p] \in Pairs
  BY StretchDefined
<1>6. \A r \in 0..23 : fib_start[r] \in Pairs
  BY <1>3, <1>4, <1>5, TableTyped
<1>7. fib_start[0] = <<1, 2>> /\ \A r \in 0..22 : fib_start[r + 1] = fib_ahead(16)[fib_start[r]]
  BY <1>3 DEF IsTable
<1> QED BY <1>6, <1>7

\* An entry of the table is a pair of bytes.
LEMMA PairsTyped == \A k \in Entries : fib_pair(k) \in Pairs
<1> SUFFICES ASSUME NEW k \in Entries
             PROVE  fib_pair(k) \in Pairs
  OBVIOUS
<1>1. k \div 16 \in 0..23 /\ k % 16 \in 0..16
  BY EntriesTyped
<1>2. fib_start[k \div 16] \in Pairs
  BY <1>1, StartsDefined
<1> QED BY <1>1, <1>2, StretchDefined DEF fib_pair, FibStretch

\* The table is the one the loop fills: 1 and 2 first, then a step at a time,
\* within a stretch and from one to the next.
LEMMA TableDefined ==
    ASSUME NEW k \in Entries
    PROVE  fib_pair(k) = IF k = 0 THEN <<1, 2>> ELSE NextPair(fib_pair(k - 1))
<1> DEFINE r == k \div 16
           c == k % 16
<1>1. /\ k \in Nat /\ k <= 383
      /\ r \in 0..23 /\ c \in 0..15
  BY EntriesTyped
<1>2. fib_pair(k) = fib_ahead(c)[fib_start[r]] /\ fib_start[r] \in Pairs
  BY <1>1, StartsDefined DEF fib_pair, FibStretch
<1>3. CASE c # 0
  <2>1. k # 0 /\ (k - 1) % 16 = c - 1 /\ (k - 1) \div 16 = r
    BY <1>1, <1>3
  <2>2. fib_pair(k - 1) = fib_ahead(c - 1)[fib_start[r]]
    BY <2>1 DEF fib_pair, FibStretch
  <2> HIDE DEF c, r
  <2>3. c - 1 \in 0..15 /\ (c - 1) + 1 = c
    BY <1>1, <1>3
  <2>4. fib_ahead((c - 1) + 1)[fib_start[r]] = NextPair(fib_ahead(c - 1)[fib_start[r]])
    BY <1>2, <2>3, StretchDefined
  <2> QED BY <1>2, <2>1, <2>2, <2>3, <2>4
<1>4. CASE c = 0 /\ k # 0
  <2>1. r # 0 /\ (k - 1) % 16 = 15 /\ (k - 1) \div 16 = r - 1
    BY <1>1, <1>4
  <2>2. fib_pair(k - 1) = fib_ahead(15)[fib_start[r - 1]]
    BY <2>1 DEF fib_pair, FibStretch
  <2> HIDE DEF c, r
  <2>3. r - 1 \in 0..22 /\ r - 1 \in 0..23 /\ (r - 1) + 1 = r
    BY <1>1, <2>1
  <2>4. fib_start[r] = fib_ahead(16)[fib_start[r - 1]] /\ fib_start[r - 1] \in Pairs
    BY <2>3, StartsDefined
  <2>5. fib_ahead(15 + 1)[fib_start[r - 1]] = NextPair(fib_ahead(15)[fib_start[r - 1]])
    BY <2>4, StretchDefined
  <2>6. fib_pair(k) = fib_start[r]
    BY <1>2, <1>4, StretchDefined
  <2> QED BY <1>4, <2>2, <2>4, <2>5, <2>6
<1>5. CASE k = 0
  <2>1. c = 0 /\ r = 0
    BY <1>5
  <2> HIDE DEF c, r
  <2> QED BY <1>2, <1>5, <2>1, StretchDefined, StartsDefined
<1> QED BY <1>3, <1>4, <1>5

\* The pair m entries further on, for the Fibonacci numbers a, b and c = a + b
\* before, at and after the m-th.
Ahead(m, a, b, c) ==
    \A k \in Entries : k + m <= 383 =>
        /\ fib_pair(k + m)[1] = (a * fib_pair(k)[1] + b * fib_pair(k)[2]) % 256
        /\ fib_pair(k + m)[2] = (b * fib_pair(k)[1] + c * fib_pair(k)[2]) % 256

\* The next pair.
LEMMA AheadOne == Ahead(1, 0, 1, 1)
<1> SUFFICES ASSUME NEW k \in Entries, k + 1 <= 383
             PROVE  /\ fib_pair(k + 1)[1] = (0 * fib_pair(k)[1] + 1 * fib_pair(k)[2]) % 256
                    /\ fib_pair(k + 1)[2] = (1 * fib_pair(k)[1] + 1 * fib_pair(k)[2]) % 256
  BY DEF Ahead
<1>1. k + 1 \in Entries /\ k + 1 # 0 /\ (k + 1) - 1 = k
  BY EntriesTyped
<1>2. fib_pair(k + 1) = NextPair(fib_pair(k))
  BY <1>1, TableDefined
<1>3. fib_pair(k)[1] \in Bytes /\ fib_pair(k)[2] \in Bytes
  BY PairsTyped DEF Pairs
<1>4. fib_pair(k + 1)[1] = fib_pair(k)[2]
      /\ fib_pair(k + 1)[2] = (fib_pair(k)[1] + fib_pair(k)[2]) % 256
  BY <1>2 DEF NextPair, Byte
<1> QED
  <2> DEFINE x == fib_pair(k)[1]
             y == fib_pair(k)[2]
  <2>1. x \in Nat /\ x <= 255 /\ y \in Nat /\ y <= 255
    BY <1>3, BytesTyped
  <2> HIDE DEF x, y
  <2>2. y = (0 * x + 1 * y) % 256 /\ (x + y) % 256 = (1 * x + 1 * y) % 256
    BY <2>1
  <2> QED BY <1>4, <2>2 DEF x, y

\* The numbers A, B and C for twice as many entries.
Doubled(a, b, c, A, B, C) ==
    \A x, y \in Int :
        /\ (a * ((a * x + b * y) % 256) + b * ((b * x + c * y) % 256)) % 256
              = (A * x + B * y) % 256
        /\ (b * ((a * x + b * y) % 256) + c * ((b * x + c * y) % 256)) % 256
              = (B * x + C * y) % 256

LEMMA AheadTwice ==
    ASSUME NEW m \in Nat, NEW a \in Int, NEW b \in Int, NEW c \in Int, Ahead(m, a, b, c),
           NEW A \in Int, NEW B \in Int, NEW C \in Int, Doubled(a, b, c, A, B, C)
    PROVE  Ahead(2 * m, A, B, C)
<1> SUFFICES ASSUME NEW k \in Entries, k + 2 * m <= 383
             PROVE  /\ fib_pair(k + 2 * m)[1] = (A * fib_pair(k)[1] + B * fib_pair(k)[2]) % 256
                    /\ fib_pair(k + 2 * m)[2] = (B * fib_pair(k)[1] + C * fib_pair(k)[2]) % 256
  BY DEF Ahead
<1>1. k + m \in Entries /\ (k + m) + m = k + 2 * m /\ k + m <= 383 /\ (k + m) + m <= 383
  BY EntriesTyped
<1>2. fib_pair(k)[1] \in Int /\ fib_pair(k)[2] \in Int
  <2>1. fib_pair(k)[1] \in Bytes /\ fib_pair(k)[2] \in Bytes
    BY PairsTyped DEF Pairs
  <2> QED BY <2>1, BytesTyped
<1> DEFINE x == fib_pair(k)[1]
           y == fib_pair(k)[2]
           u == (a * x + b * y) % 256
           v == (b * x + c * y) % 256
<1>3. fib_pair(k + m)[1] = u /\ fib_pair(k + m)[2] = v
  BY <1>1 DEF Ahead
<1>4. /\ fib_pair((k + m) + m)[1] = (a * fib_pair(k + m)[1] + b * fib_pair(k + m)[2]) % 256
      /\ fib_pair((k + m) + m)[2] = (b * fib_pair(k + m)[1] + c * fib_pair(k + m)[2]) % 256
  BY <1>1 DEF Ahead
<1>5. /\ (a * u + b * v) % 256 = (A * x + B * y) % 256
      /\ (b * u + c * v) % 256 = (B * x + C * y) % 256
  <2> HIDE DEF x, y
  <2>1. x \in Int /\ y \in Int
    BY <1>2 DEF x, y
  <2>2. /\ (a * ((a * x + b * y) % 256) + b * ((b * x + c * y) % 256)) % 256
              = (A * x + B * y) % 256
        /\ (b * ((a * x + b * y) % 256) + c * ((b * x + c * y) % 256)) % 256
              = (B * x + C * y) % 256
    BY <2>1 DEF Doubled
  <2> QED BY <2>2
<1> HIDE DEF u, v
<1>6. /\ fib_pair(k + 2 * m)[1] = (a * u + b * v) % 256
      /\ fib_pair(k + 2 * m)[2] = (b * u + c * v) % 256
  BY <1>1, <1>3, <1>4
<1> QED BY <1>5, <1>6

\* Powers of two, up to 128.
LEMMA AheadByPowers ==
    /\ Ahead(1, 0, 1, 1)
    /\ Ahead(2, 1, 1, 2)
    /\ Ahead(4, 2, 3, 5)
    /\ Ahead(8, 13, 21, 34)
    /\ Ahead(16, 98, 219, 61)
    /\ Ahead(32, 221, 5, 226)
    /\ Ahead(64, 226, 187, 157)
    /\ Ahead(128, 29, 197, 226)
<1>1. Ahead(1, 0, 1, 1)
  BY AheadOne
<1>2. Ahead(2, 1, 1, 2)
  <2>1. Doubled(0, 1, 1, 1, 1, 2)
    BY DEF Doubled
  <2>2. Ahead(2 * 1, 1, 1, 2)
    <3>1. 1 \in Nat /\ 0 \in Int /\ 1 \in Int /\ 2 \in Int
      OBVIOUS
    <3> QED BY <1>1, <2>1, <3>1, AheadTwice, ZenonT(60)
  <2> QED BY <2>2
<1>4. Ahead(4, 2, 3, 5)
  <2>1. Doubled(1, 1, 2, 2, 3, 5)
    BY DEF Doubled
  <2>2. Ahead(2 * 2, 2, 3, 5)
    <3>1. 2 \in Nat /\ 1 \in Int /\ 2 \in Int /\ 3 \in Int /\ 5 \in Int
      OBVIOUS
    <3> QED BY <1>2, <2>1, <3>1, AheadTwice, ZenonT(60)
  <2> QED BY <2>2
<1>8. Ahead(8, 13, 21, 34)
  <2>1. Doubled(2, 3, 5, 13, 21, 34)
    BY DEF Doubled
  <2>2. Ahead(2 * 4, 13, 21, 34)
    <3>1. 4 \in Nat /\ 2 \in Int /\ 3 \in Int /\ 5 \in Int /\ 13 \in Int /\ 21 \in Int /\ 34 \in Int
      OBVIOUS
    <3> QED BY <1>4, <2>1, <3>1, AheadTwice, ZenonT(60)
  <2> QED BY <2>2
<1>16. Ahead(16, 98, 219, 61)
  <2>1. Doubled(13, 21, 34, 98, 219, 61)
    BY DEF Doubled
  <2>2. Ahead(2 * 8, 98, 219, 61)
    <3>1. 8 \in Nat /\ 13 \in Int /\ 21 \in Int /\ 34 \in Int /\ 61 \in Int /\ 98 \in Int /\ 219 \in Int
      OBVIOUS
    <3> QED BY <1>8, <2>1, <3>1, AheadTwice, ZenonT(60)
  <2> QED BY <2>2
<1>32. Ahead(32, 221, 5, 226)
  <2>1. Doubled(98, 219, 61, 221, 5, 226)
    BY DEF Doubled
  <2>2. Ahead(2 * 16, 221, 5, 226)
    <3>1. 16 \in Nat /\ 5 \in Int /\ 61 \in Int /\ 98 \in Int /\ 219 \in Int /\ 221 \in Int /\ 226 \in Int
      OBVIOUS
    <3> QED BY <1>16, <2>1, <3>1, AheadTwice, ZenonT(60)
  <2> QED BY <2>2
<1>64. Ahead(64, 226, 187, 157)
  <2>1. Doubled(221, 5, 226, 226, 187, 157)
    BY DEF Doubled
  <2>2. Ahead(2 * 32, 226, 187, 157)
    <3>1. 32 \in Nat /\ 5 \in Int /\ 157 \in Int /\ 187 \in Int /\ 221 \in Int /\ 226 \in Int
      OBVIOUS
    <3> QED BY <1>32, <2>1, <3>1, AheadTwice, ZenonT(60)
  <2> QED BY <2>2
<1>128. Ahead(128, 29, 197, 226)
  <2>1. Doubled(226, 187, 157, 29, 197, 226)
    BY DEF Doubled
  <2>2. Ahead(2 * 64, 29, 197, 226)
    <3>1. 64 \in Nat /\ 29 \in Int /\ 157 \in Int /\ 187 \in Int /\ 197 \in Int /\ 226 \in Int
      OBVIOUS
    <3> QED BY <1>64, <2>1, <3>1, AheadTwice, ZenonT(60)
  <2> QED BY <2>2
<1> QED BY <1>1, <1>2, <1>4, <1>8, <1>16, <1>32, <1>64, <1>128

\* The last entry of the period is followed by its first.
LEMMA TableTurns == fib_pair(383)[1] = 1 /\ fib_pair(383)[2] = 1
<1>0. fib_pair(0)[1] = 1 /\ fib_pair(0)[2] = 2
  <2>1. 0 \in Entries
    BY EntriesTyped
  <2>2. fib_pair(0) = <<1, 2>>
    BY <2>1, TableDefined
  <2> QED BY <2>2
<1>1. fib_pair(1)[1] = 2 /\ fib_pair(1)[2] = 3
  <2>1. 0 \in Entries /\ 0 + 1 = 1 /\ 0 + 1 <= 383
    BY EntriesTyped
  <2> QED BY <1>0, <2>1, AheadByPowers DEF Ahead
<1>3. fib_pair(3)[1] = 5 /\ fib_pair(3)[2] = 8
  <2>1. 1 \in Entries /\ 1 + 2 = 3 /\ 1 + 2 <= 383
    BY EntriesTyped
  <2> QED BY <1>1, <2>1, AheadByPowers DEF Ahead
<1>7. fib_pair(7)[1] = 34 /\ fib_pair(7)[2] = 55
  <2>1. 3 \in Entries /\ 3 + 4 = 7 /\ 3 + 4 <= 383
    BY EntriesTyped
  <2> QED BY <1>3, <2>1, AheadByPowers DEF Ahead
<1>15. fib_pair(15)[1] = 61 /\ fib_pair(15)[2] = 24
  <2>1. 7 \in Entries /\ 7 + 8 = 15 /\ 7 + 8 <= 383
    BY EntriesTyped
  <2> QED BY <1>7, <2>1, AheadByPowers DEF Ahead
<1>31. fib_pair(31)[1] = 226 /\ fib_pair(31)[2] = 231
  <2>1. 15 \in Entries /\ 15 + 16 = 31 /\ 15 + 16 <= 383
    BY EntriesTyped
  <2> QED BY <1>15, <2>1, AheadByPowers DEF Ahead
<1>63. fib_pair(63)[1] = 157 /\ fib_pair(63)[2] = 88
  <2>1. 31 \in Entries /\ 31 + 32 = 63 /\ 31 + 32 <= 383
    BY EntriesTyped
  <2> QED BY <1>31, <2>1, AheadByPowers DEF Ahead
<1>127. fib_pair(127)[1] = 226 /\ fib_pair(127)[2] = 167
  <2>1. 63 \in Entries /\ 63 + 64 = 127 /\ 63 + 64 <= 383
    BY EntriesTyped
  <2> QED BY <1>63, <2>1, AheadByPowers DEF Ahead
<1>255. fib_pair(255)[1] = 29 /\ fib_pair(255)[2] = 88
  <2>1. 127 \in Entries /\ 127 + 128 = 255 /\ 127 + 128 <= 383
    BY EntriesTyped
  <2> QED BY <1>127, <2>1, AheadByPowers DEF Ahead
<1>383. fib_pair(383)[1] = 1 /\ fib_pair(383)[2] = 1
  <2>1. 255 \in Entries /\ 255 + 128 = 383 /\ 255 + 128 <= 383
    BY EntriesTyped
  <2> QED BY <1>255, <2>1, AheadByPowers DEF Ahead
<1> QED BY <1>383

\* fib_mod256 gives bytes, out of the table of one period.
LEMMA FibTyped ==
    ASSUME NEW k \in Nat
    PROVE  /\ k % 384 \in Entries /\ fib_mod256(k) = fib_pair(k % 384)[1]
           /\ fib_mod256(k) \in Bytes
<1>1. k % 384 \in Nat /\ k % 384 <= 383
  OBVIOUS
<1>2. k % 384 \in Entries
  BY <1>1, EntriesTyped
<1>3. Pisano256 = 384
  BY DEF Pisano256
<1>4. fib_table = [j \in Entries |-> fib_pair(j)[1]]
  BY DEF fib_table, Entries
<1>5. fib_mod256(k) = fib_pair(k % 384)[1]
  BY <1>2, <1>3, <1>4 DEF fib_mod256
<1> QED BY <1>2, <1>5, PairsTyped DEF Pairs

\* Any three entries in a row add up modulo 256, also across the end of the
\* table, where it starts over.
THEOREM FibonacciGoesOn ==
    ASSUME NEW k \in Nat
    PROVE  fib_mod256(k + 2) = Byte(fib_mod256(k) + fib_mod256(k + 1))
<1> DEFINE r == k % 384
<1>1. r \in Nat /\ r <= 383
  OBVIOUS
<1>2. /\ fib_mod256(k) = fib_pair(r)[1] /\ fib_mod256(k + 1) = fib_pair((k + 1) % 384)[1]
      /\ fib_mod256(k + 2) = fib_pair((k + 2) % 384)[1]
  <2>1. k + 1 \in Nat /\ k + 2 \in Nat
    OBVIOUS
  <2> QED BY <2>1, FibTyped
<1>3. \A j \in Nat : j + 1 <= 383 =>
        /\ fib_pair(j + 1)[1] = fib_pair(j)[2]
        /\ fib_pair(j + 1)[2] = Byte(fib_pair(j)[1] + fib_pair(j)[2])
  <2> SUFFICES ASSUME NEW j \in Nat, j + 1 <= 383
               PROVE  fib_pair(j + 1) = NextPair(fib_pair(j))
    BY DEF NextPair
  <2>1. j + 1 \in Entries /\ j + 1 # 0 /\ (j + 1) - 1 = j
    BY EntriesTyped
  <2> QED BY <2>1, TableDefined
<1>4. CASE r <= 381
  <2>1. (k + 1) % 384 = r + 1 /\ (k + 2) % 384 = r + 2 /\ (r + 1) + 1 = r + 2
    BY <1>4
  <2> HIDE DEF r
  <2>2. fib_pair(r + 1)[1] = fib_pair(r)[2]
        /\ fib_pair(r + 1)[2] = Byte(fib_pair(r)[1] + fib_pair(r)[2])
    BY <1>1, <1>3, <1>4
  <2>3. fib_pair((r + 1) + 1)[1] = fib_pair(r + 1)[2]
    <3>1. r + 1 \in Nat /\ (r + 1) + 1 <= 383
      BY <1>1, <1>4
    <3> QED BY <3>1, <1>3
  <2> QED BY <1>2, <2>1, <2>2, <2>3
<1>5. 0 \in Entries /\ fib_pair(0)[1] = 1 /\ fib_pair(0)[2] = 2
      /\ 1 \in Entries /\ fib_pair(1)[1] = 2
  <2>1. 0 \in Entries /\ 0 \in Nat /\ 0 + 1 = 1 /\ 1 \in Entries
    BY EntriesTyped
  <2>2. fib_pair(0) = <<1, 2>>
    BY <2>1, TableDefined
  <2>3. fib_pair(0 + 1)[1] = fib_pair(0)[2]
    BY <2>1, <1>3
  <2> QED BY <2>1, <2>2, <2>3
<1>6. CASE r = 382
  <2>1. (k + 1) % 384 = 383 /\ (k + 2) % 384 = 0
    BY <1>6
  <2>2. 382 \in Entries /\ 382 \in Nat /\ 382 + 1 = 383
    BY EntriesTyped
  <2>3. fib_pair(382 + 1)[1] = fib_pair(382)[2]
        /\ fib_pair(382 + 1)[2] = Byte(fib_pair(382)[1] + fib_pair(382)[2])
    BY <2>2, <1>3
  <2>4. fib_pair(382 + 1) = fib_pair(383)
    BY <2>2
  <2>5. Byte(fib_pair(382)[1] + fib_pair(383)[1]) = 1
    BY <2>3, <2>4, TableTurns
  <2> QED BY <1>2, <1>5, <1>6, <2>1, <2>5
<1>7. CASE r = 383
  <2>1. (k + 1) % 384 = 0 /\ (k + 2) % 384 = 1
    BY <1>7
  <2>2. Byte(1 + 1) = 2
    BY DEF Byte
  <2> QED BY <1>2, <1>5, <1>7, <2>1, <2>2, TableTurns
<1> HIDE DEF r
<1>8. r <= 381 \/ r = 382 \/ r = 383
  BY <1>1
<1> QED BY <1>4, <1>6, <1>7, <1>8

\* Where the Fibonacci effect looks for its channels.
LEMMA FibonacciChannels ==
    ASSUME NEW s, SceneTyped(s), NEW n, LayoutTyped(n), NEW i \in Words, NEW t \in Nat
    PROVE  \E base, g \in Nat :
              render_fibonacci(s, n, i, t) =
                 nscale8([k \in Channels |-> fib_mod256(base + ((g + k - 1) % 3))], s.brightness)
<1> DEFINE scroll == IF s.speed = 0 THEN 0 ELSE Beat(s, t, 10000) % PlaceWidth
           pos    == ((i + scroll + scroll \div 5) % PlaceWidth) % Strip(n)
           g      == pos \div 11
           base   == pos - g * 2
<1>1. /\ scroll \in Nat /\ i \in Nat
      /\ Strip(n) \in Nat \ {0} /\ PlaceWidth \in Nat \ {0}
  <2>1. Beat(s, t, 10000) \in Nat /\ PlaceWidth \in Nat \ {0}
    BY BeatTyped, EffectsAssumption
  <2>2. PICK beat \in Nat, W \in Nat \ {0} : beat = Beat(s, t, 10000) /\ W = PlaceWidth
    BY <2>1
  <2> DEFINE wrapped == Beat(s, t, 10000) % PlaceWidth
  <2> HIDE DEF wrapped
  <2>3. scroll = IF s.speed = 0 THEN 0 ELSE wrapped
    BY Zenon DEF wrapped
  <2>4. wrapped \in Nat
    <3>1. beat % W \in 0..W - 1
      BY QuotientTyped
    <3> QED BY <2>2, <3>1 DEF wrapped
  <2>5. scroll \in Nat
    BY <2>3, <2>4
  <2> QED BY <2>1, <2>5, StripTyped, WordsTyped
<1>2. i + scroll + scroll \div 5 \in Nat
  <2> HIDE DEF scroll
  <2> QED BY <1>1
<1>3. pos \in Nat
  <2> HIDE DEF scroll
  <2> DEFINE place == i + scroll + scroll \div 5
  <2>1. place \in Nat
    BY <1>2
  <2> HIDE DEF place
  <2>2. place % PlaceWidth \in Nat
    BY <1>1, <2>1, QuotientTyped
  <2> DEFINE wrapped == place % PlaceWidth
  <2> HIDE DEF wrapped
  <2>3. wrapped % Strip(n) \in 0..Strip(n) - 1
    BY <1>1, <2>2, QuotientTyped DEF wrapped
  <2>4. wrapped % Strip(n) \in Nat
    BY <1>1, <2>3
  <2> QED BY <2>4 DEF wrapped, place
<1>4. render_fibonacci(s, n, i, t) =
         nscale8([k \in Channels |-> fib_mod256(base + ((g + k - 1) % 3))], s.brightness)
  BY DEF render_fibonacci
<1> HIDE DEF pos
<1>5. g \in Nat /\ base \in Nat
  BY <1>3
<1> HIDE DEF g, base
<1> QED BY <1>4, <1>5

LEMMA FibonacciBounds ==
    ASSUME NEW s, SceneTyped(s), NEW n, LayoutTyped(n), NEW i \in Words, NEW t \in Nat
    PROVE  render_fibonacci(s, n, i, t) \in UpTo(s.brightness)
<1>1. PICK base, g \in Nat :
         render_fibonacci(s, n, i, t) =
            nscale8([k \in Channels |-> fib_mod256(base + ((g + k - 1) % 3))], s.brightness)
  BY FibonacciChannels
<1>2. ASSUME NEW k \in Channels
      PROVE  fib_mod256(base + ((g + k - 1) % 3)) \in Bytes
  <2>1. base + ((g + k - 1) % 3) \in Nat
    BY DEF Channels
  <2> QED BY <2>1, FibTyped
<1>3. [k \in Channels |-> fib_mod256(base + ((g + k - 1) % 3))] \in Pixels
  BY <1>2 DEF Pixels
<1> QED BY <1>1, <1>3, SceneFields, DimmedUpTo

\* At full brightness the channels are three entries in a row, in some rotation.
THEOREM FibonacciRotates ==
    ASSUME NEW s, SceneTyped(s), NEW n, LayoutTyped(n), NEW i \in Words, NEW t \in Nat,
           s.brightness = 255
    PROVE  LET c == render_fibonacci(s, n, i, t)
           IN  \/ c[3] = Byte(c[1] + c[2]) \/ c[1] = Byte(c[2] + c[3])
               \/ c[2] = Byte(c[3] + c[1])
<1> DEFINE c == render_fibonacci(s, n, i, t)
<1>1. PICK base, g \in Nat :
         c = nscale8([k \in Channels |-> fib_mod256(base + ((g + k - 1) % 3))], 255)
  BY FibonacciChannels
<1> DEFINE at(k) == base + ((g + k - 1) % 3)
<1>2. ASSUME NEW k \in Channels
      PROVE  c[k] = fib_mod256(at(k))
  <2>1. at(k) \in Nat
    BY DEF Channels
  <2>2. fib_mod256(at(k)) \in Bytes
    BY <2>1, FibTyped
  <2>3. c[k] = scale8(fib_mod256(at(k)), 255)
    BY <1>1 DEF nscale8
  <2> QED BY <2>2, <2>3, ScaleFull
<1>3. c[1] = fib_mod256(at(1)) /\ c[2] = fib_mod256(at(2)) /\ c[3] = fib_mod256(at(3))
  BY <1>2 DEF Channels
<1>4. /\ fib_mod256(base) \in Bytes /\ fib_mod256(base + 1) \in Bytes
      /\ fib_mod256(base + 2) = Byte(fib_mod256(base) + fib_mod256(base + 1))
  <2>1. base + 1 \in Nat
    OBVIOUS
  <2> QED BY <2>1, FibTyped, FibonacciGoesOn
<1>5. \/ at(1) = base /\ at(2) = base + 1 /\ at(3) = base + 2
      \/ at(1) = base + 1 /\ at(2) = base + 2 /\ at(3) = base
      \/ at(1) = base + 2 /\ at(2) = base /\ at(3) = base + 1
  OBVIOUS
<1> HIDE DEF c, at
<1>6. \/ c[3] = Byte(c[1] + c[2]) \/ c[1] = Byte(c[2] + c[3]) \/ c[2] = Byte(c[3] + c[1])
  BY <1>3, <1>4, <1>5
<1> QED BY <1>6 DEF c

-----------------------------------------------------------------------------
(* Effects that sample a palette *)

LEMMA AuroraBounds ==
    ASSUME NEW s, SceneTyped(s), NEW i \in Words, NEW t \in Nat, NEW pal \in Palettes16
    PROVE  render_aurora_breathe(s, i, t, pal) \in UpTo(s.brightness)
<1> DEFINE phase  == Byte(Beat(s, t, 35) + i * 4)
           ripple == triangle8(Byte(Beat(s, t, 80) + i * 2))
           breath == Byte(96 + scale8(ripple, 159))
<1>1. Beat(s, t, 35) \in Nat /\ Beat(s, t, 80) \in Nat /\ i \in Nat
  BY BeatTyped, WordsTyped
<1>2. Beat(s, t, 35) + i * 4 \in Int /\ Beat(s, t, 80) + i * 2 \in Int
  BY <1>1
<1>3. phase \in Bytes /\ ripple \in Bytes
  BY <1>2, ByteTyped, TriangleBounds
<1>4. breath \in Bytes
  <2> HIDE DEF ripple
  <2>1. 159 \in Bytes
    BY BytesTyped
  <2>2. scale8(ripple, 159) \in Bytes
    BY <1>3, <2>1, ScaleBounds
  <2>3. 96 + scale8(ripple, 159) \in Int
    BY <2>2, BytesTyped
  <2> QED BY <2>3, ByteTyped
<1> HIDE DEF phase, breath
<1>5. ColorFromPalette(pal, phase, breath) \in Pixels
  BY <1>3, <1>4, PaletteUpTo
<1>6. nscale8(ColorFromPalette(pal, phase, breath), s.brightness) \in UpTo(s.brightness)
  BY <1>5, SceneFields, DimmedUpTo
<1> QED BY <1>6 DEF render_aurora_breathe, phase, breath, ripple

LEMMA CycleBounds ==
    ASSUME NEW s, SceneTyped(s), NEW n, LayoutTyped(n), NEW i \in Words, NEW t \in Nat,
           NEW pal \in Palettes16
    PROVE  render_palette_cycle(s, n, i, t, pal) \in UpTo(s.brightness)
<1> DEFINE index == Byte((i * 256) \div Strip(n) + Beat(s, t, 45))
<1>1. index \in Bytes
  <2>1. i * 256 \in Nat /\ Strip(n) \in Nat \ {0} /\ Beat(s, t, 45) \in Nat
    BY WordsTyped, StripTyped, BeatTyped
  <2>2. (i * 256) \div Strip(n) \in Nat
    BY <2>1, QuotientTyped
  <2>3. (i * 256) \div Strip(n) + Beat(s, t, 45) \in Int
    BY <2>1, <2>2
  <2> QED BY <2>3, ByteTyped
<1> HIDE DEF index
<1>2. ColorFromPalette(pal, index, s.brightness) \in UpTo(s.brightness)
  BY <1>1, SceneFields, PaletteUpTo
<1> QED BY <1>2 DEF render_palette_cycle, index

\* The sine of a byte is a byte.
LEMMA SinTyped ==
    ASSUME NEW theta \in Bytes
    PROVE  sin8(theta) \in Bytes /\ sin8(theta) \in Nat /\ sin8(theta) <= 192
BY SinBounds, BytesTyped

LEMMA OceanBounds ==
    ASSUME NEW s, SceneTyped(s), NEW i \in Words, NEW t \in Nat, NEW pal \in Palettes16
    PROVE  render_ocean_drift(s, i, t, pal) \in UpTo(s.brightness)
<1> DEFINE x == Byte(i * 6 + Beat(s, t, 120))
           y == Byte(i * 3 - Beat(s, t, 200) + 64)
           index == Byte(sin8(x) \div 2 + sin8(y) \div 2)
<1>1. Beat(s, t, 120) \in Nat /\ Beat(s, t, 200) \in Nat /\ i \in Nat
  BY BeatTyped, WordsTyped
<1>2. i * 6 + Beat(s, t, 120) \in Int /\ i * 3 - Beat(s, t, 200) + 64 \in Int
  BY <1>1
<1>3. x \in Bytes /\ y \in Bytes
  BY <1>2, ByteTyped
<1> HIDE DEF x, y
<1>4. sin8(x) \in Nat /\ sin8(y) \in Nat
  BY <1>3, SinTyped
<1>5. index \in Bytes
  BY <1>4, ByteTyped
<1> HIDE DEF index
<1>6. ColorFromPalette(pal, index, s.brightness) \in UpTo(s.brightness)
  BY <1>5, SceneFields, PaletteUpTo
<1> QED BY <1>6 DEF render_ocean_drift, index, x, y

\* Where on the strip an LED is, in a byte.
LEMMA PlaceTyped ==
    ASSUME NEW n, LayoutTyped(n), NEW i \in Nat
    PROVE  Byte((i * 255) \div Strip(n)) \in Bytes
<1>1. i * 255 \in Nat /\ Strip(n) \in Nat \ {0}
  BY StripTyped
<1>2. (i * 255) \div Strip(n) \in Nat
  BY <1>1, QuotientTyped
<1> QED BY <1>2, ByteTyped

LEMMA WaveBounds ==
    ASSUME NEW s, SceneTyped(s), NEW n, LayoutTyped(n), NEW i \in Words, NEW t \in Nat,
           NEW pal \in Palettes16
    PROVE  render_color_wave(s, n, i, t, pal) \in UpTo(s.brightness)
<1> DEFINE pos   == Byte((i * 255) \div Strip(n))
           crest == sin8(Byte(pos - Beat(s, t, 60)))
<1>1. pos \in Bytes
  BY PlaceTyped, WordsTyped
<1> HIDE DEF pos
<1>2. pos - Beat(s, t, 60) \in Int
  <2>1. Beat(s, t, 60) \in Nat /\ pos \in Nat
    BY <1>1, BeatTyped, BytesTyped
  <2> QED BY <2>1
<1>3. ease8(crest) \in Bytes
  BY <1>2, ByteTyped, SinTyped, EaseBounds
<1> HIDE DEF crest
<1>4. ColorFromPalette(pal, pos, scale8(ease8(crest), s.brightness)) \in UpTo(s.brightness)
  BY <1>1, <1>3, Sample
<1> QED BY <1>4 DEF render_color_wave, crest, pos

LEMMA PulseBounds ==
    ASSUME NEW s, SceneTyped(s), NEW n, LayoutTyped(n), NEW i \in Words, NEW t \in Nat,
           NEW pal \in Palettes16
    PROVE  render_pulse_reveal(s, n, i, t, pal) \in UpTo(s.brightness)
<1> DEFINE len   == Strip(n)
           pos   == i % len
           width == len \div 8 + 2
           dist  == ring_distance(pos, Beat(s, t, 5000) % len, len)
           base  == Byte((pos * 255) \div len)
           wash  == ColorFromPalette(pal, base, scale8(40, s.brightness))
           peak  == ease8(Byte(255 - (dist * 255) \div width))
           crest == ColorFromPalette(pal, Byte(base + 128), scale8(peak, s.brightness))
<1>1. len \in Nat \ {0} /\ Beat(s, t, 5000) \in Nat /\ i \in Nat
  BY StripTyped, BeatTyped, WordsTyped
<1>2. pos \in 0..len - 1 /\ Beat(s, t, 5000) % len \in 0..len - 1
  <2> HIDE DEF len
  <2> DEFINE beat == Beat(s, t, 5000)
  <2> HIDE DEF beat
  <2>1. beat \in Nat
    BY <1>1 DEF beat
  <2>2. i \in Nat /\ len \in Nat \ {0}
    BY <1>1
  <2>3. i % len \in 0..len - 1
    BY <2>2, QuotientTyped
  <2>4. beat % len \in 0..len - 1
    BY <2>1, <2>2, QuotientTyped
  <2> QED BY <2>3, <2>4 DEF beat
<1>3. base \in Bytes
  <2> HIDE DEF pos
  <2>1. pos \in Nat
    <3> HIDE DEF len
    <3> QED BY <1>1, <1>2
  <2> QED BY <2>1, PlaceTyped
<1>4. peak \in Bytes
  <2> HIDE DEF len, pos
  <2>1. dist \in Nat
    <3> DEFINE head == Beat(s, t, 5000) % len
    <3>1. head \in 0..len - 1
      BY <1>2
    <3> HIDE DEF head
    <3>2. ring_distance(pos, head, len) \in Nat
      BY <1>1, <1>2, <3>1, RingTyped
    <3> QED BY <3>2 DEF head
  <2> HIDE DEF dist
  <2>2. width \in Nat \ {0}
    BY <1>1
  <2> HIDE DEF width
  <2>3. (dist * 255) \div width \in Nat
    BY <2>1, <2>2, QuotientTyped
  <2>4. 255 - (dist * 255) \div width \in Int
    BY <2>3
  <2> QED BY <2>4, ByteTyped, EaseBounds
<1> HIDE DEF base, peak
<1>5. wash \in UpTo(s.brightness)
  <2>1. 40 \in Bytes
    BY BytesTyped
  <2> QED BY <1>3, <2>1, Sample
<1>6. crest \in UpTo(s.brightness)
  <2>1. base + 128 \in Int
    BY <1>3, BytesTyped
  <2> QED BY <1>4, <2>1, ByteTyped, Sample
<1>7. render_pulse_reveal(s, n, i, t, pal) =
         IF dist > width THEN wash ELSE blend(wash, crest, peak)
  BY DEF render_pulse_reveal, base, peak
<1> HIDE DEF wash, crest, dist, width
<1>8. blend(wash, crest, peak) \in UpTo(s.brightness)
  BY <1>4, <1>5, <1>6, SceneFields, BlendUpTo
<1> QED BY <1>5, <1>7, <1>8

LEMMA CelebrationBounds ==
    ASSUME NEW s, SceneTyped(s), NEW i \in Words, NEW t \in Nat, NEW pal \in Palettes16
    PROVE  render_celebration(s, i, t, pal) \in UpTo(s.brightness)
<1> DEFINE seed    == hash8("celebration", i, s.sequence)
           shimmer == sin8(Byte(Beat(s, t, 20) + seed))
           index   == Byte(seed + Beat(s, t, 30))
<1>1. seed \in Bytes
  BY SceneFields, HashTyped DEF Salts
<1> HIDE DEF seed
<1>2. Beat(s, t, 20) + seed \in Int /\ seed + Beat(s, t, 30) \in Int
  <2>1. Beat(s, t, 20) \in Nat /\ Beat(s, t, 30) \in Nat /\ seed \in Nat
    BY <1>1, BeatTyped, BytesTyped
  <2> QED BY <2>1
<1>3. index \in Bytes /\ ease8(shimmer) \in Bytes
  BY <1>2, ByteTyped, SinTyped, EaseBounds
<1> HIDE DEF index, shimmer
<1>4. ColorFromPalette(pal, index, scale8(ease8(shimmer), s.brightness)) \in UpTo(s.brightness)
  BY <1>3, Sample
<1> QED BY <1>4 DEF render_celebration, index, shimmer, seed

\* The part of a wave above a threshold is a byte.
LEMMA AboveTyped ==
    ASSUME NEW wave \in Bytes, NEW threshold \in Nat, threshold <= 254
    PROVE  Above(wave, threshold) \in Bytes
<1>1. (wave - threshold) * 255 \in Int /\ 255 - threshold \in Nat \ {0}
  BY BytesTyped
<1>2. ((wave - threshold) * 255) \div (255 - threshold) \in Int
  BY <1>1
<1> QED BY <1>2, ByteTyped DEF Above

LEMMA SurgeBounds ==
    ASSUME NEW s, SceneTyped(s), NEW n, LayoutTyped(n), NEW i \in Words, NEW t \in Nat,
           NEW pal \in Palettes16
    PROVE  render_tidal_surge(s, n, i, t, pal) \in UpTo(s.brightness)
<1> DEFINE pos      == Byte((i * 255) \div Strip(n))
           swell    == sin8(Byte(pos + Beat(s, t, 90)))
           undertow == sin8(Byte(pos * 3 - Beat(s, t, 170) + 96))
           foam     == sin8(Byte(pos * 5 - Beat(s, t, 28)))
           water    == Byte(scale8(swell, 160) + scale8(undertow, 95))
           depth    == Byte(96 + undertow \div 4)
           base     == ColorFromPalette(pal, water, scale8(depth, s.brightness))
           whitecap == Above(foam, 180)
           crest    == ColorFromPalette(pal, 248, scale8(s.brightness, whitecap))
<1>1. pos \in Bytes
  BY PlaceTyped, WordsTyped
<1> HIDE DEF pos
<1>2. /\ pos + Beat(s, t, 90) \in Int /\ pos * 3 - Beat(s, t, 170) + 96 \in Int
      /\ pos * 5 - Beat(s, t, 28) \in Int
  <2>1. /\ Beat(s, t, 90) \in Nat /\ Beat(s, t, 170) \in Nat /\ Beat(s, t, 28) \in Nat
        /\ pos \in Nat
    BY <1>1, BeatTyped, BytesTyped
  <2> QED BY <2>1
<1>3. swell \in Bytes /\ undertow \in Bytes /\ undertow \in Nat /\ foam \in Bytes
  BY <1>2, ByteTyped, SinTyped
<1> HIDE DEF swell, undertow, foam
<1>4. water \in Bytes
  <2>1. 160 \in Bytes /\ 95 \in Bytes
    BY BytesTyped
  <2>2. scale8(swell, 160) \in Nat /\ scale8(undertow, 95) \in Nat
    BY <1>3, <2>1, ScaleBounds, BytesTyped
  <2>3. scale8(swell, 160) + scale8(undertow, 95) \in Int
    BY <2>2
  <2> QED BY <2>3, ByteTyped
<1>5. depth \in Bytes
  BY <1>3, ByteTyped
<1>6. whitecap \in Bytes /\ 248 \in Bytes
  BY <1>3, AboveTyped, BytesTyped
<1> HIDE DEF water, depth, whitecap
<1>7. base \in UpTo(s.brightness) /\ crest \in UpTo(s.brightness)
  BY <1>4, <1>5, <1>6, Sample
<1>8. render_tidal_surge(s, n, i, t, pal) =
         IF foam <= 180 THEN base ELSE blend(base, crest, whitecap)
  BY DEF render_tidal_surge, water, depth, whitecap, swell, undertow, foam, pos
<1> HIDE DEF base, crest
<1>9. blend(base, crest, whitecap) \in UpTo(s.brightness)
  BY <1>6, <1>7, SceneFields, BlendUpTo
<1> QED BY <1>7, <1>8, <1>9

LEMMA ConfettiBounds ==
    ASSUME NEW s, SceneTyped(s), NEW i \in Words, NEW t \in Nat, NEW pal \in Palettes16
    PROVE  render_party_confetti(s, i, t, pal) \in UpTo(s.brightness)
<1> DEFINE seed  == hash8("party_confetti", i, s.sequence)
           burst == Flash(Byte(Beat(s, t, 16) + seed))
           index == Byte(seed + i * 7)
           other == Byte(seed + Beat(s, t, 9))
           base  == ColorFromPalette(pal, index, scale8(s.brightness, 26))
           spark == ColorFromPalette(pal, other, scale8(s.brightness, burst))
<1>1. seed \in Bytes
  BY SceneFields, HashTyped DEF Salts
<1> HIDE DEF seed
<1>2. Beat(s, t, 16) + seed \in Int /\ seed + Beat(s, t, 9) \in Int /\ seed + i * 7 \in Int
  <2>1. Beat(s, t, 16) \in Nat /\ Beat(s, t, 9) \in Nat /\ seed \in Nat /\ i \in Nat
    BY <1>1, BeatTyped, BytesTyped, WordsTyped
  <2> QED BY <2>1
<1>3. index \in Bytes /\ other \in Bytes /\ burst \in Bytes /\ 26 \in Bytes
  BY <1>2, ByteTyped, FlashTyped, BytesTyped
<1> HIDE DEF index, other, burst
<1>4. base \in UpTo(s.brightness) /\ spark \in UpTo(s.brightness)
  BY <1>3, Sample
<1>5. \/ render_party_confetti(s, i, t, pal) = base
      \/ render_party_confetti(s, i, t, pal) = blend(base, spark, burst)
  BY DEF render_party_confetti, index, other, burst, seed
<1> HIDE DEF base, spark
<1>6. blend(base, spark, burst) \in UpTo(s.brightness)
  BY <1>3, <1>4, SceneFields, BlendUpTo
<1> QED BY <1>4, <1>5, <1>6

\* The glint of champagne_toast is never seen: the sine never reaches the
\* threshold, and the shimmer is the whole effect.
THEOREM GlintNeverShows ==
    ASSUME NEW s, SceneTyped(s), NEW i \in Words, NEW t \in Nat, NEW pal
    PROVE  render_champagne_toast(s, i, t, pal) =
              LET glow == sin8(Byte(Beat(s, t, 55) + i * 5))
              IN  ColorFromPalette(pal, Byte(64 + glow \div 2),
                                   scale8(Byte(96 + glow \div 2), s.brightness))
<1> DEFINE seed    == hash8("champagne_toast", i, s.sequence)
           sparkle == sin8(Byte(Beat(s, t, 26) + seed))
<1>1. seed \in Bytes
  BY SceneFields, HashTyped DEF Salts
<1> HIDE DEF seed
<1>2. Beat(s, t, 26) + seed \in Int
  <2>1. Beat(s, t, 26) \in Nat /\ seed \in Nat
    BY <1>1, BeatTyped, BytesTyped
  <2> QED BY <2>1
<1>3. sparkle \in Nat /\ sparkle <= 192
  BY <1>2, ByteTyped, SinTyped
<1> HIDE DEF sparkle
<1>4. sparkle <= 220
  BY <1>3
<1> QED BY <1>4 DEF render_champagne_toast, sparkle, seed

LEMMA ToastBounds ==
    ASSUME NEW s, SceneTyped(s), NEW i \in Words, NEW t \in Nat, NEW pal \in Palettes16
    PROVE  render_champagne_toast(s, i, t, pal) \in UpTo(s.brightness)
<1> DEFINE glow  == sin8(Byte(Beat(s, t, 55) + i * 5))
           index == Byte(64 + glow \div 2)
           level == Byte(96 + glow \div 2)
<1>1. Beat(s, t, 55) + i * 5 \in Int
  <2>1. Beat(s, t, 55) \in Nat /\ i \in Nat
    BY BeatTyped, WordsTyped
  <2> QED BY <2>1
<1>2. glow \in Nat
  BY <1>1, ByteTyped, SinTyped
<1>3. index \in Bytes /\ level \in Bytes
  <2> HIDE DEF glow
  <2> QED BY <1>2, ByteTyped
<1>4. render_champagne_toast(s, i, t, pal)
         = ColorFromPalette(pal, index, scale8(level, s.brightness))
  BY GlintNeverShows
<1> HIDE DEF index, level
<1> QED BY <1>3, <1>4, Sample

LEMMA IndependenceBounds ==
    ASSUME NEW s, SceneTyped(s), NEW n, LayoutTyped(n), NEW i \in Words, NEW t \in Nat,
           NEW pal \in Palettes16
    PROVE  render_independence(s, n, i, t, pal) \in UpTo(s.brightness)
<1> DEFINE pos     == (i + (Beat(s, t, 1800) % Strip(n))) % Strip(n)
           band    == <<24, 72, 136>>[((pos \div 6) % 3) + 1]
           shimmer == Byte(210 + sin8(Byte(Beat(s, t, 48) + pos * 5)) \div 8)
           base    == ColorFromPalette(pal, band, scale8(s.brightness, shimmer))
           seed    == hash8("independence", i, s.sequence)
           star    == Flash(Byte(Beat(s, t, 22) + seed))
           glint   == Above(star, 190)
           white   == Grey(scale8(s.brightness, glint))
<1>1. seed \in Bytes
  BY SceneFields, HashTyped DEF Salts
<1> HIDE DEF seed
<1>2. pos \in Nat
  <2>1. Strip(n) \in Nat \ {0} /\ i \in Nat
    BY StripTyped, WordsTyped
  <2> DEFINE beat == Beat(s, t, 1800)
  <2>2. beat \in Nat
    BY BeatTyped
  <2> HIDE DEF beat
  <2>3. beat % Strip(n) \in Nat
    BY <2>1, <2>2, QuotientTyped
  <2> DEFINE place == i + (beat % Strip(n))
  <2>4. place \in Nat
    BY <2>1, <2>3
  <2> HIDE DEF place
  <2>5. place % Strip(n) \in Nat
    BY <2>1, <2>4, QuotientTyped
  <2> QED BY <2>5 DEF place, beat
<1> HIDE DEF pos
<1>3. band \in Bytes
  <2>1. 24 \in Bytes /\ 72 \in Bytes /\ 136 \in Bytes
    BY BytesTyped
  <2>2. ((pos \div 6) % 3) + 1 \in 1..3
    BY <1>2
  <2> QED BY <2>1, <2>2
<1>4. shimmer \in Bytes
  <2> DEFINE wave == sin8(Byte(Beat(s, t, 48) + pos * 5))
  <2>1. Beat(s, t, 48) \in Nat
    BY BeatTyped
  <2>2. Beat(s, t, 48) + pos * 5 \in Int
    BY <1>2, <2>1
  <2>3. wave \in Nat
    BY <2>2, ByteTyped, SinTyped
  <2> HIDE DEF wave
  <2>4. Byte(210 + wave \div 8) \in Bytes
    BY <2>3, ByteTyped
  <2> QED BY <2>4 DEF wave
<1>5. star \in Bytes
  <2>1. Beat(s, t, 22) \in Nat /\ seed \in Nat
    BY <1>1, BeatTyped, BytesTyped
  <2>2. Beat(s, t, 22) + seed \in Int
    BY <2>1
  <2> QED BY <2>2, ByteTyped, FlashTyped
<1> HIDE DEF band, shimmer, star
<1>6. glint \in Bytes
  BY <1>5, AboveTyped
<1> HIDE DEF glint
<1>7. base \in UpTo(s.brightness)
  BY <1>3, <1>4, Sample
<1>8. white \in UpTo(s.brightness)
  <2>1. s.brightness \in Bytes /\ scale8(s.brightness, glint) \in 0..s.brightness
    BY <1>6, SceneFields, ScaleBounds, UpToInterval
  <2> QED BY <2>1, TripleIsPixel DEF Grey, UpTo
<1>9. \/ render_independence(s, n, i, t, pal) = base
      \/ render_independence(s, n, i, t, pal) = blend(base, white, glint)
  BY DEF render_independence, pos, band, shimmer, star, glint, seed
<1> HIDE DEF base, white
<1>10. blend(base, white, glint) \in UpTo(s.brightness)
  BY <1>6, <1>7, <1>8, SceneFields, BlendUpTo
<1> QED BY <1>7, <1>9, <1>10

-----------------------------------------------------------------------------
(* All effects *)

\* No effect makes a channel brighter than its scene, whatever the layout, the
\* LED, the time and the palette.
THEOREM EffectBounds ==
    ASSUME NEW s, SceneTyped(s), NEW n, LayoutTyped(n), NEW i \in Words, NEW t \in Nat,
           NEW pal \in Palettes16
    PROVE  led_orchestra_render_effect(s, n, i, t, pal) \in UpTo(s.brightness)
<1>1. Black \in UpTo(s.brightness)
  BY SceneFields, BlackIsDark
<1> QED BY <1>1, SolidBounds, RainbowBounds, FibonacciBounds, AuroraBounds, CometBounds,
           ChaseBounds, CycleBounds, TwinkleBounds, OceanBounds, WaveBounds, PulseBounds,
           CelebrationBounds, IdentifyBounds, SurgeBounds, ConfettiBounds, ToastBounds,
           IndependenceBounds
        DEF led_orchestra_render_effect

\* Every effect but identify sees the layout only through the length of the
\* virtual strip.
THEOREM LayoutBlind ==
    ASSUME NEW s, s.effect # "identify", NEW n, NEW m, n.total_leds = m.total_leds,
           NEW i, NEW t, NEW pal
    PROVE  led_orchestra_render_effect(s, n, i, t, pal)
              = led_orchestra_render_effect(s, m, i, t, pal)
<1>1. Strip(n) = Strip(m)
  BY DEF Strip
<1>2. /\ render_rainbow(s, n, i, t) = render_rainbow(s, m, i, t)
      /\ render_comet(s, n, i, t) = render_comet(s, m, i, t)
  BY <1>1 DEF render_rainbow, render_comet
<1>3. render_fibonacci(s, n, i, t) = render_fibonacci(s, m, i, t)
  BY <1>1 DEF render_fibonacci
<1>4. /\ render_palette_cycle(s, n, i, t, pal) = render_palette_cycle(s, m, i, t, pal)
      /\ render_color_wave(s, n, i, t, pal) = render_color_wave(s, m, i, t, pal)
  BY <1>1 DEF render_palette_cycle, render_color_wave
<1>5. render_pulse_reveal(s, n, i, t, pal) = render_pulse_reveal(s, m, i, t, pal)
  BY <1>1 DEF render_pulse_reveal
<1>6. render_tidal_surge(s, n, i, t, pal) = render_tidal_surge(s, m, i, t, pal)
  BY <1>1 DEF render_tidal_surge
<1>7. render_independence(s, n, i, t, pal) = render_independence(s, m, i, t, pal)
  BY <1>1 DEF render_independence
<1> QED BY <1>2, <1>3, <1>4, <1>5, <1>6, <1>7 DEF led_orchestra_render_effect

=============================================================================
