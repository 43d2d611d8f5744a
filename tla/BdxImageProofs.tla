---------------------------- MODULE BdxImageProofs ----------------------------
(***************************************************************************)
(* Theorems about the image transfer, for every block size, header size,    *)
(* file on the server and number of transfers, whether reads come short or  *)
(* fail half-way or not, unless a theorem says otherwise.                   *)
(***************************************************************************)
EXTENDS BdxImage, SequenceTheorems, TLAPS

-----------------------------------------------------------------------------
(* The inductive invariant, by theme *)

\* Nothing of an earlier transfer is left when the sender is idle, nor at the
\* node either once the next one is prepared.
StartsClean ==
    /\ phase \in {"idle", "prepared"} => mNumBytesSent = 0 /\ mOtaImageSize = 0
    /\ phase = "prepared" => got = <<>> /\ ~eof

\* A session that sends has a file, and has read its header unless it has sent
\* nothing.
HeaderIsRead ==
    phase \in {"streaming", "reading"} =>
        /\ file \in Files
        /\ IF got = <<>> THEN mOtaImageSize = 0
                         ELSE mOtaImageSize = file.total

\* Until the last block, the connection stands right behind what was sent and
\* what waits in the buffer.
PosFollows ==
    /\ phase = "streaming" /\ ~eof => pos = Len(got)
    /\ phase = "reading" => ~eof /\ pos = Len(got) + read_len

IInv ==
    /\ TypeOK
    /\ StartsClean /\ HeaderIsRead /\ PosFollows
    /\ CountsAgree /\ OnlyLastIsShort /\ EndsWithImage

-----------------------------------------------------------------------------
(* Lemmas about numbers and sequences *)

\* One more block does not change what is left over.
LEMMA FullBlocks ==
    ASSUME NEW a \in Nat, NEW b \in Nat \ {0}, a % b = 0
    PROVE  (a + b) % b = 0
<1>1. PICK k \in Nat : a = b * k
  OBVIOUS
<1>2. a + b = b * (k + 1)
  BY <1>1
<1>3. (b * (k + 1)) % b = 0
  OBVIOUS
<1> QED BY <1>2, <1>3

\* What a block adds to the units received.
LEMMA BlockAdds ==
    ASSUME NEW b \in [1..BlockSize -> Nat], NEW g \in Seq(Nat), NEW len \in 0..BlockSize
    PROVE  /\ g \o SubSeq(b, 1, len) \in Seq(Nat)
           /\ Len(g \o SubSeq(b, 1, len)) = Len(g) + len
           /\ \A i \in 1..(Len(g) + len) :
                 (g \o SubSeq(b, 1, len))[i] = IF i <= Len(g) THEN g[i] ELSE b[i - Len(g)]
<1> DEFINE s == SubSeq(b, 1, len)
<1>1. len \in Int /\ \A i \in 1..len : b[i] \in Nat
  BY SizesAssumption
<1>2. s \in Seq(Nat) /\ Len(s) = len /\ \A i \in 1..len : s[i] = b[i]
  BY <1>1, SubSeqProperties
<1>3. Len(g) \in Nat
  BY LenProperties
<1> HIDE DEF s
<1>4. /\ g \o s \in Seq(Nat) /\ Len(g \o s) = Len(g) + len
      /\ \A i \in 1..(Len(g) + len) : (g \o s)[i] = IF i <= Len(g) THEN g[i] ELSE s[i - Len(g)]
  BY <1>2, ConcatProperties
<1>5. ASSUME NEW i \in 1..(Len(g) + len), ~(i <= Len(g))
      PROVE  s[i - Len(g)] = b[i - Len(g)]
  BY <1>2, <1>3, <1>5
<1> QED BY <1>4, <1>5 DEF s

\* A read keeps the buffer a buffer.
LEMMA WrittenTyped ==
    ASSUME TypeOK, NEW len \in Nat
    PROVE  Written(len) \in [1..BlockSize -> Nat]
<1>1. pos \in Nat
  BY SizesAssumption DEF TypeOK, NoFile
<1> QED BY <1>1 DEF Written, TypeOK

-----------------------------------------------------------------------------
(* What http_downloader_read gives back, and what the sender makes of it *)

\* The state in which a block of bytes units is returned.
Returned(bytes) ==
    /\ TypeOK /\ StartsClean /\ HeaderIsRead /\ CountsAgree /\ OnlyLastIsShort
    /\ phase = "reading" /\ ~eof
    /\ bytes \in 0..BlockSize

\* Of bytes units in the buffer b, the first len go out as a block.
Sent(b, bytes, len) ==
    /\ phase' = "streaming"
    /\ got' = got \o SubSeq(b, 1, len)
    /\ mNumBytesSent' = Len(got) + len
    /\ mOtaImageSize' = file.total
    /\ len <= bytes /\ Len(got) + len <= file.total
    /\ len < bytes => Len(got) + len = file.total
    /\ Len(got) + len > 0
    /\ eof' \in BOOLEAN
    /\ eof' <=> len < BlockSize \/ Len(got) + len = file.total

\* The transfer is aborted, and what is counted stays within the image.
Aborted ==
    /\ phase' = "ended" /\ UNCHANGED node
    /\ mNumBytesSent' \in Nat /\ mOtaImageSize' \in Nat
    /\ mNumBytesSent' <= mOtaImageSize'

\* The transfer is aborted without a word, or a block goes out: a whole prefix of
\* what was read, cut at the size of the image, and counted.
LEMMA AnswerGives ==
    ASSUME NEW b \in [1..BlockSize -> Nat], NEW bytes, Returned(bytes), Answer(b, bytes)
    PROVE  \/ Aborted
           \/ \E len \in 0..BlockSize : Sent(b, bytes, len)
<1> USE DEF Returned
<1>1. /\ Len(got) \in Nat /\ (got = <<>> <=> Len(got) = 0)
      /\ mNumBytesSent = Len(got) /\ mNumBytesSent <= mOtaImageSize
      /\ mOtaImageSize \in Nat
  BY LenProperties, EmptySeq DEF TypeOK, CountsAgree
<1>2. file.total \in Nat
  BY SizesAssumption DEF HeaderIsRead
<1> DEFINE first == mOtaImageSize = 0 /\ mNumBytesSent = 0
           size  == IF first THEN file.total ELSE mOtaImageSize
           len   == BlockLength(bytes, mNumBytesSent, size)
<1>3. first <=> got = <<>>
  BY <1>1 DEF HeaderIsRead
<1>4. size = file.total
  BY <1>3 DEF HeaderIsRead
<1>5. CASE first /\ ~ValidHeader(b, bytes) /\ phase' = "ended" /\ UNCHANGED <<sender, node>>
  BY <1>1, <1>5 DEF Aborted, sender
<1>6. CASE /\ first => ValidHeader(b, bytes)
           /\ mOtaImageSize' = size
           /\ mNumBytesSent' = mNumBytesSent + len
           /\ \/ /\ phase' = "streaming"
                 /\ got' = got \o SubSeq(b, 1, len)
                 /\ eof' = LastBlock(len, mNumBytesSent, size)
              \/ phase' = "ended" /\ UNCHANGED node
  <2>1. Len(got) <= size /\ size \in Nat
    BY <1>1, <1>2, <1>4
  <2>2. len = IF bytes <= size - Len(got) THEN bytes ELSE size - Len(got)
    BY <1>1 DEF BlockLength, Min2
  <2>3. /\ len \in 0..BlockSize /\ len <= bytes /\ Len(got) + len <= size
        /\ len < bytes => Len(got) + len = size
    <3> HIDE DEF len, size
    <3> QED BY <1>1, <2>1, <2>2, SizesAssumption
  <2>4. Len(got) + len > 0
    <3>1. CASE first
      BY <1>1, <1>2, <1>4, <1>6, <2>2, <3>1, SizesAssumption DEF ValidHeader
    <3>2. CASE ~first
      BY <1>1, <1>3, <2>3, <3>2
    <3> QED BY <3>1, <3>2
  <2>5. CASE phase' = "ended" /\ UNCHANGED node
    <3> HIDE DEF len, size
    <3>1. mNumBytesSent' = Len(got) + len /\ mOtaImageSize' = size
      BY <1>1, <1>6
    <3>2. len \in Nat
      BY <2>3, SizesAssumption
    <3> QED BY <1>1, <2>1, <2>3, <2>5, <3>1, <3>2 DEF Aborted
  <2>6. CASE /\ phase' = "streaming"
             /\ got' = got \o SubSeq(b, 1, len)
             /\ eof' = LastBlock(len, mNumBytesSent, size)
    <3>1. eof' \in BOOLEAN /\ (eof' <=> len < BlockSize \/ Len(got) + len = size)
      BY <1>1, <2>6 DEF LastBlock
    <3>2. Sent(b, bytes, len)
      <4> HIDE DEF len, size
      <4> QED BY <1>1, <1>4, <1>6, <2>3, <2>4, <2>6, <3>1 DEF Sent
    <3> QED BY <2>3, <3>2
  <2> QED BY <1>6, <2>5, <2>6
<1> QED BY <1>5, <1>6 DEF Answer

-----------------------------------------------------------------------------
(* The steps *)

LEMMA JunkTyped == Junk \in [1..BlockSize -> Nat]
BY DEF Junk

LEMMA InvInit == Init => IInv
<1> SUFFICES ASSUME Init PROVE IInv
    OBVIOUS
<1> USE DEF Init
<1>1. pos \in 0..file.length /\ read_len \in 0..BlockSize /\ transfers \in 0..MaxTransfers
  BY SizesAssumption DEF NoFile
<1>2. got \in Seq(Nat) /\ Len(got) = 0
  BY EmptySeq
<1>3. TypeOK
  BY <1>1, <1>2, JunkTyped DEF TypeOK
<1>4. Len(got) % BlockSize = 0
  BY <1>2, SizesAssumption
<1> QED
  BY <1>2, <1>3, <1>4 DEF IInv, StartsClean, HeaderIsRead, PosFollows, CountsAgree,
                          OnlyLastIsShort, EndsWithImage

\* A transfer that gets its session starts from nothing, whatever an earlier one
\* left behind.
LEMMA PrepareStep == IInv /\ Prepare => IInv'
<1> SUFFICES ASSUME IInv, Prepare PROVE IInv'
    OBVIOUS
<1>1. /\ phase' \in {"prepared", "ended"} /\ got' = <<>> /\ eof' = FALSE /\ cut' = FALSE
      /\ transfers' \in 0..MaxTransfers
  BY SizesAssumption DEF Prepare, IInv, TypeOK
<1>2. mNumBytesSent' = 0 /\ mOtaImageSize' = 0
  BY DEF Prepare, Reset, sender, IInv, StartsClean
<1>3. /\ file' \in Files \cup {NoFile} /\ pos' \in 0..file'.length
      /\ buf' \in [1..BlockSize -> Nat] /\ read_len' \in 0..BlockSize
  <2>1. CASE phase = "idle"
    BY <2>1 DEF Prepare, IInv, TypeOK
  <2>2. CASE phase # "idle"
    BY <2>2, JunkTyped, SizesAssumption DEF Prepare, Reset, Released, NoFile
  <2> QED BY <2>1, <2>2
<1>4. got' \in Seq(Nat) /\ Len(got') = 0
  BY <1>1, EmptySeq
<1>5. TypeOK'
  BY <1>1, <1>2, <1>3, <1>4 DEF TypeOK
<1>6. Len(got') % BlockSize = 0
  BY <1>4, SizesAssumption
<1> QED
  BY <1>1, <1>2, <1>4, <1>5, <1>6
     DEF IInv, StartsClean, HeaderIsRead, PosFollows, CountsAgree, OnlyLastIsShort,
         EndsWithImage

LEMMA ConnectStep == IInv /\ ReceiveInit => IInv'
<1> SUFFICES ASSUME IInv, ReceiveInit PROVE IInv'
    OBVIOUS
<1> USE DEF sender, node
<1>1. got = <<>> /\ mNumBytesSent = 0 /\ mOtaImageSize = 0 /\ ~eof
  BY DEF ReceiveInit, IInv, StartsClean
<1>2. Len(got) = 0
  BY <1>1, EmptySeq
<1>3. file' \in Files \cup {NoFile} /\ pos' \in 0..file'.length
  BY SizesAssumption DEF ReceiveInit, NoFile
<1>4. TypeOK'
  BY <1>3 DEF ReceiveInit, IInv, TypeOK
<1> QED
  BY <1>1, <1>2, <1>4 DEF ReceiveInit, IInv, StartsClean, HeaderIsRead, PosFollows,
                          CountsAgree, OnlyLastIsShort, EndsWithImage

LEMMA QueryStep == IInv /\ BlockQuery => IInv'
<1> SUFFICES ASSUME IInv, BlockQuery PROVE IInv'
    OBVIOUS
<1> USE DEF sender, node
<1>1. TypeOK'
  BY JunkTyped, SizesAssumption DEF BlockQuery, IInv, TypeOK
<1>2. Len(got) \in Nat
  BY LenProperties DEF IInv, TypeOK
<1> QED
  BY <1>1, <1>2 DEF BlockQuery, IInv, StartsClean, HeaderIsRead, PosFollows,
                    CountsAgree, OnlyLastIsShort, EndsWithImage

\* The answer to a query keeps the invariant: only the end of the image, or of
\* what the server has, makes a block short.
LEMMA ReturnStep ==
    ASSUME IInv, NEW b \in [1..BlockSize -> Nat], NEW bytes \in 0..BlockSize,
           phase = "reading", Answer(b, bytes),
           pos' = Len(got) + bytes, pos' <= file.length,
           buf' = Junk, read_len' = 0, cut' \in BOOLEAN, UNCHANGED <<file, transfers>>,
           ~cut' => pos' = file.length \/ bytes = BlockSize
    PROVE  IInv'
<1>1. ~eof /\ Len(got) % BlockSize = 0 /\ Len(got) \in Nat
  BY LenProperties DEF IInv, PosFollows, OnlyLastIsShort, TypeOK
<1>2. Returned(bytes)
  BY <1>1 DEF Returned, IInv
<1>3. file \in Files /\ file.total \in Nat /\ file.length \in Nat
  BY SizesAssumption DEF IInv, HeaderIsRead
<1>4. pos' \in 0..file.length
  BY <1>1, <1>3, SizesAssumption
<1>5. CASE Aborted
  <2>1. TypeOK'
    BY <1>4, <1>5, JunkTyped, SizesAssumption DEF Aborted, IInv, TypeOK, node
  <2> QED
    BY <1>5, <2>1 DEF Aborted, IInv, StartsClean, HeaderIsRead, PosFollows, CountsAgree,
                      OnlyLastIsShort, EndsWithImage, node
<1>6. CASE \E len \in 0..BlockSize : Sent(b, bytes, len)
  <2>1. PICK len \in 0..BlockSize : Sent(b, bytes, len)
    BY <1>6
  <2>2. got' \in Seq(Nat) /\ Len(got') = Len(got) + len
    BY <2>1, BlockAdds DEF Sent, IInv, TypeOK
  <2>3. len \in Nat /\ Len(got) + len \in Nat /\ Len(got') > 0
    BY <1>1, <2>1, <2>2, SizesAssumption DEF Sent
  <2>4. got' # <<>>
    BY <2>3, EmptySeq
  <2>5. TypeOK'
    <3>1. /\ phase' = "streaming"
          /\ mNumBytesSent' \in Nat /\ mOtaImageSize' \in Nat /\ eof' \in BOOLEAN
      BY <1>3, <2>1, <2>3 DEF Sent
    <3> QED BY <1>4, <2>2, <3>1, JunkTyped, SizesAssumption DEF IInv, TypeOK
  <2>6. ~eof' => len = BlockSize /\ len = bytes
    BY <2>1, SizesAssumption DEF Sent
  <2>7. OnlyLastIsShort'
    BY <1>1, <2>2, <2>6, FullBlocks, SizesAssumption DEF OnlyLastIsShort
  <2>8. StartsClean' /\ HeaderIsRead' /\ CountsAgree' /\ PosFollows'
    BY <1>3, <2>1, <2>2, <2>4, <2>6
       DEF Sent, StartsClean, HeaderIsRead, CountsAgree, PosFollows
  <2>9. EndsWithImage'
    <3>1. ASSUME ~cut', file.length >= file.total, len < BlockSize
          PROVE  Len(got) + len = file.total
      BY <1>1, <1>3, <2>1, <3>1, SizesAssumption DEF Sent
    <3> QED BY <2>1, <2>2, <3>1 DEF Sent, EndsWithImage
  <2> QED BY <2>5, <2>7, <2>8, <2>9 DEF IInv
<1> QED BY <1>2, <1>5, <1>6, AnswerGives

\* What one read may bring fits the block and is there.
LEMMA AvailableFits ==
    ASSUME IInv, phase = "reading"
    PROVE  /\ Available \in Nat /\ read_len \in Nat /\ pos \in Nat
           /\ read_len + Available <= BlockSize /\ pos + Available <= file.length
           /\ read_len + Available = BlockSize \/ pos + Available = file.length
<1>1. file.length \in Nat /\ pos \in 0..file.length /\ read_len \in 0..BlockSize
  BY SizesAssumption DEF IInv, TypeOK, HeaderIsRead
<1> QED BY <1>1, SizesAssumption DEF Available, Min2

LEMMA ReadStep == IInv /\ HttpRead => IInv'
<1> SUFFICES ASSUME IInv, HttpRead PROVE IInv'
    OBVIOUS
<1>1. phase = "reading" /\ UNCHANGED <<file, cut, transfers>>
  BY DEF HttpRead
<1>2. PICK len \in 0..Available :
          /\ pos' = pos + len
          /\ IF pos' = file.length \/ read_len + len = BlockSize
             THEN /\ Answer(Written(len), read_len + len)
                  /\ buf' = Junk /\ read_len' = 0
             ELSE /\ buf' = Written(len) /\ read_len' = read_len + len
                  /\ UNCHANGED <<phase, sender, node>>
  BY DEF HttpRead
<1>3. len \in Nat /\ len <= Available
  BY <1>1, AvailableFits
<1>4. /\ read_len + len \in 0..BlockSize /\ pos + len \in 0..file.length
      /\ pos + len <= file.length
  <2>1. file.length \in Nat
    BY <1>1, SizesAssumption DEF IInv, HeaderIsRead
  <2> QED BY <1>1, <1>3, <2>1, AvailableFits, SizesAssumption
<1>5. Written(len) \in [1..BlockSize -> Nat]
  BY <1>3, WrittenTyped DEF IInv
<1>6. Len(got) \in Nat /\ ~eof /\ pos = Len(got) + read_len
  BY <1>1, LenProperties DEF IInv, TypeOK, PosFollows
<1>7. pos + len = Len(got) + (read_len + len)
  BY <1>1, <1>3, <1>6, AvailableFits
<1>8. cut' \in BOOLEAN
  BY <1>1 DEF IInv, TypeOK
<1>9. CASE pos' = file.length \/ read_len + len = BlockSize
  BY <1>1, <1>2, <1>4, <1>5, <1>7, <1>8, <1>9, ReturnStep
<1>10. CASE ~(pos' = file.length \/ read_len + len = BlockSize)
  <2>1. TypeOK'
    BY <1>1, <1>2, <1>4, <1>5, <1>10 DEF IInv, TypeOK, sender, node
  <2> QED
    BY <1>1, <1>2, <1>6, <1>7, <1>10, <2>1
       DEF IInv, StartsClean, HeaderIsRead, PosFollows, CountsAgree, OnlyLastIsShort,
           EndsWithImage, sender, node
<1> QED BY <1>9, <1>10

\* A connection that fails ends the transfer with a short block.
LEMMA CutStep == IInv /\ HttpFail => IInv'
<1> SUFFICES ASSUME IInv, HttpFail PROVE IInv'
    OBVIOUS
<1>1. /\ phase = "reading" /\ UNCHANGED <<file, transfers>>
      /\ buf' = Junk /\ read_len' = 0 /\ cut' = TRUE
  BY DEF HttpFail
<1>2. PICK len \in 0..Available - 1 :
          pos' = pos + len /\ Answer(Written(len), read_len + len)
  BY DEF HttpFail
<1>3. len \in Nat /\ len <= Available
  BY <1>1, AvailableFits
<1>4. read_len + len \in 0..BlockSize /\ pos + len <= file.length
  <2>1. file.length \in Nat
    BY <1>1, SizesAssumption DEF IInv, HeaderIsRead
  <2> QED BY <1>1, <1>3, <2>1, AvailableFits, SizesAssumption
<1>5. Written(len) \in [1..BlockSize -> Nat]
  BY <1>3, WrittenTyped DEF IInv
<1>6. Len(got) \in Nat /\ pos = Len(got) + read_len
  BY <1>1, LenProperties DEF IInv, TypeOK, PosFollows
<1>7. pos + len = Len(got) + (read_len + len)
  BY <1>1, <1>3, <1>6, AvailableFits
<1> QED BY <1>1, <1>2, <1>4, <1>5, <1>7, ReturnStep

\* After the last block, a status report or a timeout nothing is left.
LEMMA ResetStep == IInv /\ (AckEof \/ Fail) => IInv'
<1> SUFFICES ASSUME IInv, AckEof \/ Fail PROVE IInv'
    OBVIOUS
<1>1. Reset /\ phase' = "idle" /\ UNCHANGED <<node, cut, transfers>>
  BY DEF AckEof, Fail
<1>2. TypeOK'
  BY <1>1, JunkTyped, SizesAssumption DEF Reset, Released, NoFile, node, IInv, TypeOK
<1> QED
  BY <1>1, <1>2 DEF Reset, node, IInv, StartsClean, HeaderIsRead, PosFollows,
                    CountsAgree, OnlyLastIsShort, EndsWithImage

LEMMA InvStep == IInv /\ [Next]_vars => IInv'
<1> SUFFICES ASSUME IInv, [Next]_vars PROVE IInv'
    OBVIOUS
<1>1. CASE UNCHANGED vars
  BY <1>1 DEF vars, sender, node, IInv, TypeOK, StartsClean, HeaderIsRead, PosFollows,
              CountsAgree, OnlyLastIsShort, EndsWithImage
<1> QED
  BY <1>1, PrepareStep, ConnectStep, QueryStep, ReadStep, CutStep, ResetStep DEF Next

LEMMA InvAlways == Spec => []IInv
BY InvInit, InvStep, PTL DEF Spec

-----------------------------------------------------------------------------
(* The units received *)

\* When reads come whole, a block is filled by the first.
WholeReads == phase = "reading" => read_len = 0

Beginning == ReceivesImage /\ WholeReads

\* A block goes out from the place in the file the node has come to.
LEMMA BlockContinues ==
    ASSUME IInv, Beginning, phase = "reading", NEW len \in 0..BlockSize, NEW n \in 0..len,
           got' = got \o SubSeq(Written(len), 1, n)
    PROVE  ReceivesImage'
<1>1. /\ got \in Seq(Nat) /\ Len(got) \in Nat /\ pos = Len(got)
      /\ got = Units(Len(got)) /\ len \in Nat /\ n \in Nat
  <2>1. got \in Seq(Nat) /\ Len(got) \in Nat
    BY LenProperties DEF IInv, TypeOK
  <2>2. pos = Len(got) + read_len /\ read_len = 0
    BY DEF IInv, PosFollows, Beginning, WholeReads
  <2>3. got = Units(Len(got))
    BY DEF Beginning, ReceivesImage
  <2>4. len \in Nat /\ n \in Nat
    BY SizesAssumption
  <2> QED BY <2>1, <2>2, <2>3, <2>4
<1>2. Written(len) \in [1..BlockSize -> Nat] /\ n \in 0..BlockSize
  <2>1. Written(len) \in [1..BlockSize -> Nat]
    BY <1>1, WrittenTyped DEF IInv
  <2>2. n \in 0..BlockSize
    BY <1>1, SizesAssumption
  <2> QED BY <2>1, <2>2
<1>3. /\ got' \in Seq(Nat) /\ Len(got') = Len(got) + n
      /\ \A i \in 1..(Len(got) + n) :
            got'[i] = IF i <= Len(got) THEN got[i] ELSE Written(len)[i - Len(got)]
  BY <1>1, <1>2, BlockAdds
<1>4. ASSUME NEW i \in 1..(Len(got) + n) PROVE got'[i] = i
  <2>1. CASE i <= Len(got)
    <3>1. i \in 1..Len(got)
      BY <1>1, <2>1
    <3>2. Units(Len(got))[i] = i
      BY <3>1 DEF Units
    <3> QED BY <1>1, <1>3, <2>1, <3>2
  <2>2. CASE ~(i <= Len(got))
    <3>1. i - Len(got) \in 1..BlockSize /\ i - Len(got) <= len
      BY <1>1, <1>2, <2>2, SizesAssumption
    <3>2. Written(len)[i - Len(got)] = pos + (i - Len(got))
      BY <3>1 DEF Written
    <3>3. pos + (i - Len(got)) = i
      BY <1>1
    <3> QED BY <1>3, <2>2, <3>2, <3>3
  <2> QED BY <2>1, <2>2
<1>5. DOMAIN got' = 1..(Len(got) + n) /\ got' \in [1..(Len(got) + n) -> Nat]
  BY <1>3, LenProperties
<1>6. got' = [i \in 1..(Len(got) + n) |-> i]
  BY <1>4, <1>5
<1> QED BY <1>3, <1>6 DEF ReceivesImage, Units

LEMMA BeginningStep ==
    ASSUME ShortReads = FALSE, IInv, Beginning, [Next]_vars
    PROVE  Beginning'
<1> USE DEF Beginning
<1>1. ASSUME UNCHANGED got, phase' # "reading" \/ read_len' = 0
      PROVE  Beginning'
  BY <1>1 DEF ReceivesImage, WholeReads
<1>2. ASSUME phase = "reading", NEW len \in 0..Available,
             Answer(Written(len), read_len + len), read_len' = 0
      PROVE  Beginning'
  <2>1. read_len = 0 /\ len \in Nat /\ len \in 0..BlockSize /\ read_len + len = len
    BY <1>2, AvailableFits, SizesAssumption DEF WholeReads
  <2>2. Written(len) \in [1..BlockSize -> Nat]
    BY <2>1, WrittenTyped DEF IInv
  <2>3. Returned(len)
    BY <1>2, <2>1 DEF Returned, IInv, PosFollows
  <2>4. CASE Aborted
    BY <1>1, <2>4 DEF Aborted, node
  <2>5. ASSUME NEW n \in 0..BlockSize, Sent(Written(len), len, n) PROVE Beginning'
    <3>1. n \in 0..len /\ got' = got \o SubSeq(Written(len), 1, n) /\ phase' = "streaming"
      BY <2>1, <2>5, SizesAssumption DEF Sent
    <3>2. ReceivesImage'
      BY <1>2, <2>1, <3>1, BlockContinues
    <3> QED BY <3>1, <3>2 DEF WholeReads
  <2>6. Answer(Written(len), len)
    BY <1>2, <2>1
  <2> QED BY <2>2, <2>3, <2>4, <2>5, <2>6, AnswerGives
<1>3. CASE Prepare
  <2>1. got' = <<>> /\ phase' # "reading" /\ Len(got') = 0
    BY <1>3, EmptySeq DEF Prepare
  <2>2. Units(0) = <<>>
    BY DEF Units
  <2> QED BY <2>1, <2>2 DEF ReceivesImage, WholeReads
<1>4. CASE ReceiveInit \/ BlockQuery \/ AckEof \/ Fail \/ UNCHANGED vars
  BY <1>1, <1>4 DEF ReceiveInit, BlockQuery, AckEof, Fail, vars, node, WholeReads
<1>5. CASE HttpRead
  <2>1. phase = "reading"
    BY <1>5 DEF HttpRead
  <2>2. PICK len \in 0..Available :
          /\ len = Available
          /\ pos' = pos + len
          /\ IF pos' = file.length \/ read_len + len = BlockSize
             THEN /\ Answer(Written(len), read_len + len)
                  /\ buf' = Junk /\ read_len' = 0
             ELSE /\ buf' = Written(len) /\ read_len' = read_len + len
                  /\ UNCHANGED <<phase, sender, node>>
    BY <1>5 DEF HttpRead
  <2>3. pos' = file.length \/ read_len + len = BlockSize
    BY <2>1, <2>2, AvailableFits
  <2> QED BY <1>2, <2>1, <2>2, <2>3
<1>6. CASE HttpFail
  <2>1. PICK len \in 0..Available - 1 : Answer(Written(len), read_len + len)
    BY <1>6 DEF HttpFail
  <2>2. phase = "reading" /\ read_len' = 0
    BY <1>6 DEF HttpFail
  <2>3. len \in 0..Available
    BY <2>2, AvailableFits
  <2> QED BY <1>2, <2>1, <2>2, <2>3
<1> QED BY <1>3, <1>4, <1>5, <1>6 DEF Next

-----------------------------------------------------------------------------
(* Theorems *)

\* Types: in particular no block reaches beyond the buffer, and no count becomes
\* negative.
THEOREM Typed == Spec => []TypeOK
BY InvAlways, PTL DEF IInv

\* The sender counts what the node has, in every transfer, and never counts more
\* than the header announced.
THEOREM CountIsExact == Spec => []CountsAgree
BY InvAlways, PTL DEF IInv

\* Until the last block every block is full, whatever the reads were like.
THEOREM BlocksAreFull == Spec => []OnlyLastIsShort
BY InvAlways, PTL DEF IInv

\* If the connection holds and the server has the whole image, its end is
\* announced with its last unit and not before.
THEOREM EndIsTheEnd == Spec => []EndsWithImage
BY InvAlways, PTL DEF IInv

\* If no read comes short, the node has the beginning of the image, also when
\* connections fail and transfers start again.  With short reads it is false,
\* and the run BdxImage_short shows how.
THEOREM ImageIsReceived == ShortReads = FALSE /\ Spec => []ReceivesImage
<1> SUFFICES ASSUME ShortReads = FALSE PROVE Spec => []ReceivesImage
    OBVIOUS
<1>1. Init => Beginning
  <2>1. Len(<<>>) = 0 /\ Units(0) = <<>>
    BY EmptySeq DEF Units
  <2> QED BY <2>1 DEF Init, Beginning, ReceivesImage, WholeReads
<1>2. IInv /\ Beginning /\ [Next]_vars => Beginning'
  BY BeginningStep
<1>3. Beginning => ReceivesImage
  BY DEF Beginning
<1> QED BY <1>1, <1>2, <1>3, InvAlways, PTL DEF Spec

=============================================================================
