------------------------------ MODULE BdxImage ------------------------------
(***************************************************************************)
(* How an OTA image travels: the HTTP downloader fills blocks from the      *)
(* server's stream, the BDX sender cuts them to the size the image header   *)
(* announces, and the node asks for block after block until one is marked   *)
(* as the last.                                                             *)
(*                                                                         *)
(* The n-th unit of the file is the number n, and 0 is a unit nobody wrote. *)
(* Which node owns the sender is the subject of OtaProvider; here one node  *)
(* updates.  A read that yields nothing without an error leaves the loop    *)
(* of _http_client_read where it is and is left out, as are the redirects   *)
(* while connecting, of which only the outcome is modelled.                 *)
(***************************************************************************)
EXTENDS Integers, Sequences

CONSTANTS
    BlockSize,      \* the block size of the session
    Prefix,         \* size of the fixed part of the image header
    Files,          \* what the server may hold at the URL
    ShortReads,     \* TRUE: a read may give less than asked and available
    CutReads,       \* TRUE: the connection may fail half-way
    MaxTransfers    \* bound: number of transfers

\* length: what the server sends; total: the size in the header, 0 if the
\* header is not one of an OTA image.
ASSUME SizesAssumption ==
    /\ BlockSize \in Nat \ {0} /\ Prefix \in Nat \ {0} /\ Prefix < BlockSize
    /\ Files \subseteq [length : Nat \ {0}, total : Nat]
    /\ ShortReads \in BOOLEAN /\ CutReads \in BOOLEAN /\ MaxTransfers \in Nat

VARIABLES
    phase,          \* "idle" (after Reset), "prepared", "streaming", "reading"
                    \* (inside _http_client_read), "ended" (no session, no Reset)
    file, pos,      \* the server's file and how much of it was read
    buf, read_len,  \* the block buffer and how much of it counts as read
    mNumBytesSent, mOtaImageSize,
    got, eof,       \* node: the units received, and whether the last block came
    cut,            \* history: the connection failed in this transfer
    transfers       \* bound: transfers so far

sender == <<mNumBytesSent, mOtaImageSize>>
node   == <<got, eof>>
vars   == <<phase, file, pos, buf, read_len, sender, node, cut, transfers>>

-----------------------------------------------------------------------------
Min2(a, b) == IF a <= b THEN a ELSE b

\* The first n units of the file.
Units(n) == [i \in 1..n |-> i]

Junk == [i \in 1..BlockSize |-> 0]

NoFile == [length |-> 0, total |-> 0]

\* A client that is released gives up its connection.
Released == file' = NoFile /\ pos' = 0 /\ buf' = Junk /\ read_len' = 0

Init ==
    /\ phase = "idle" /\ file = NoFile /\ pos = 0 /\ buf = Junk /\ read_len = 0
    /\ mNumBytesSent = 0 /\ mOtaImageSize = 0
    /\ got = <<>> /\ eof = FALSE /\ cut = FALSE /\ transfers = 0

\* Mutated form: the count of the previous transfer is kept.
Reset_KeepsCount == Released /\ mOtaImageSize' = 0 /\ UNCHANGED mNumBytesSent

Reset == Released /\ mOtaImageSize' = 0 /\ mNumBytesSent' = 0

\* The node asks for the image again or for the first time: InitializeTransfer
\* resets what is left of an earlier transfer, PrepareForTransfer opens a session.
Prepare ==
    /\ phase # "reading"
    /\ transfers < MaxTransfers /\ transfers' = transfers + 1
    /\ IF phase = "idle" THEN UNCHANGED <<file, pos, buf, read_len, sender>> ELSE Reset
    /\ phase' \in {"prepared", "ended"}   \* "ended": PrepareForTransfer failed
    /\ got' = <<>> /\ eof' = FALSE /\ cut' = FALSE

\* ReceiveInit: accept, release an old client and connect.
ReceiveInit ==
    /\ phase = "prepared"
    /\ \/ phase' = "streaming" /\ file' \in Files
       \/ phase' = "ended" /\ file' = NoFile
    /\ pos' = 0
    /\ UNCHANGED <<buf, read_len, sender, node, cut, transfers>>

\* A block is asked for; without a packet buffer for it the transfer is aborted.
BlockQuery ==
    /\ phase = "streaming" /\ ~eof
    /\ phase' \in {"reading", "ended"}
    /\ buf' = Junk /\ read_len' = 0
    /\ UNCHANGED <<file, pos, sender, node, cut, transfers>>

\* The identifier is at the start of the buffer, and the total size behind it.
ValidHeader(b, bytes) ==
    /\ bytes >= Prefix
    /\ \A i \in 1..Prefix : b[i] = i
    /\ file.total > Prefix

\* Mutated form: the end is seen in the size of the block only.
LastBlock_Short(len, sent, size) == len < BlockSize

\* Mutated form: the end is seen in the size of the image only.
LastBlock_Size(len, sent, size) == sent + len = size

LastBlock(len, sent, size) == len < BlockSize \/ sent + len = size

BlockLength(bytes, sent, size) == Min2(bytes, size - sent)

\* http_downloader_read returned bytes: the block is counted and sent, or the
\* transfer is aborted because the image has no valid header, or because the
\* session does not take the block.
Answer(b, bytes) ==
    LET first == mOtaImageSize = 0 /\ mNumBytesSent = 0
        size  == IF first THEN file.total ELSE mOtaImageSize
        len   == BlockLength(bytes, mNumBytesSent, size)
    IN  \/ /\ first /\ ~ValidHeader(b, bytes)
           /\ phase' = "ended"
           /\ UNCHANGED <<sender, node>>
        \/ /\ first => ValidHeader(b, bytes)
           /\ mOtaImageSize' = size
           /\ mNumBytesSent' = mNumBytesSent + len
           /\ \/ /\ phase' = "streaming"
                 /\ got' = got \o SubSeq(b, 1, len)
                 /\ eof' = LastBlock(len, mNumBytesSent, size)
              \/ phase' = "ended" /\ UNCHANGED node

\* A read of len units goes to the start of the buffer.
Written(len) == [i \in 1..BlockSize |-> IF i <= len THEN pos + i ELSE buf[i]]

\* Mutated form: as much is read as the buffer holds.
Available_Room == BlockSize - read_len

\* The most one read can bring: what the block lacks and the server still has.
Available == Min2(BlockSize - read_len, file.length - pos)

\* One turn of the loop of _http_client_read that brings data, or finds that
\* all of it had come.
HttpRead ==
    /\ phase = "reading"
    /\ \E len \in 0..Available :
          /\ len = Available \/ (ShortReads /\ len > 0)
          /\ pos' = pos + len
          /\ IF pos' = file.length \/ read_len + len = BlockSize
             THEN /\ Answer(Written(len), read_len + len)
                  /\ buf' = Junk /\ read_len' = 0
             ELSE /\ buf' = Written(len) /\ read_len' = read_len + len
                  /\ UNCHANGED <<phase, sender, node>>
    /\ UNCHANGED <<file, cut, transfers>>

\* Mutated form: a read that fails counts as a whole block.
HttpFail_Full ==
    /\ phase = "reading" /\ CutReads /\ pos < file.length
    /\ Answer(buf, BlockSize)
    /\ buf' = Junk /\ read_len' = 0 /\ cut' = TRUE
    /\ UNCHANGED <<file, pos, transfers>>

\* The connection fails, after a last turn that may still bring something: what
\* was read is returned as if it were all there is.
HttpFail ==
    /\ phase = "reading" /\ CutReads
    /\ \E len \in 0..Available - 1 :
          /\ pos' = pos + len
          /\ Answer(Written(len), read_len + len)
    /\ buf' = Junk /\ read_len' = 0 /\ cut' = TRUE
    /\ UNCHANGED <<file, transfers>>

\* The node acknowledges the last block.
AckEof ==
    /\ phase = "streaming" /\ eof
    /\ Reset /\ phase' = "idle"
    /\ UNCHANGED <<node, cut, transfers>>

\* A status report of the node, a timeout or an internal error of the session.
Fail ==
    /\ phase \in {"prepared", "streaming"}
    /\ Reset /\ phase' = "idle"
    /\ UNCHANGED <<node, cut, transfers>>

Next ==
    \/ Prepare \/ ReceiveInit \/ BlockQuery \/ HttpRead \/ HttpFail
    \/ AckEof \/ Fail

Spec == Init /\ [][Next]_vars

-----------------------------------------------------------------------------
(* Properties *)

\* Every variable of the sender, the connection and the node keeps its type.
TypeOK ==
    /\ phase \in {"idle", "prepared", "streaming", "reading", "ended"}
    /\ file \in Files \cup {NoFile} /\ pos \in 0..file.length
    /\ buf \in [1..BlockSize -> Nat] /\ read_len \in 0..BlockSize
    /\ mNumBytesSent \in Nat /\ mOtaImageSize \in Nat
    /\ got \in Seq(Nat) /\ eof \in BOOLEAN /\ cut \in BOOLEAN
    /\ transfers \in 0..MaxTransfers

\* What the node has received is the beginning of the image, in order and
\* without gaps, over every transfer.
ReceivesImage == got = Units(Len(got))

\* During a transfer the sender's count is what the node has, never more than
\* the header announces, also after earlier transfers that were given up: a
\* stale count would skip the header and cut the image short.
CountsAgree ==
    /\ phase \in {"prepared", "streaming", "reading"} => mNumBytesSent = Len(got)
    /\ mNumBytesSent <= mOtaImageSize

\* Every block but the last is full: the node may place the n-th block at n
\* times the block size.
OnlyLastIsShort == ~eof => Len(got) % BlockSize = 0

\* The node is told that the image ends exactly when it has all of it, if the
\* connection held and the server had all of it.
EndsWithImage ==
    phase = "streaming" /\ got # <<>> /\ ~cut /\ file.length >= file.total
        => (eof <=> Len(got) = file.total)

=============================================================================
