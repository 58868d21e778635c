--------------------------- MODULE DownloadProofs ---------------------------
(***************************************************************************)
(* Theorems about Download, for every header, chunk and sector size, every *)
(* set of files and every budget of faults, resets and commands.           *)
(***************************************************************************)
EXTENDS Download, TLAPS

\* A 16-bit length read back is the number itself, unless recv() failed at 0.
LEMMA UnsignedValue ==
    ASSUME NEW x \in -1..(Width - 1)
    PROVE  Unsigned(x) = IF x = -1 THEN Width - 1 ELSE x
BY DownloadAssumption DEF Unsigned

LEMMA UnsignedRange ==
    ASSUME NEW x \in Int
    PROVE  Unsigned(x) \in 0..(Width - 1)
BY DownloadAssumption DEF Unsigned

LEMMA LengthRange ==
    ASSUME NEW x \in Int
    PROVE  Length(x) \in -Width..Width
BY UnsignedRange, DownloadAssumption DEF Length, Signed

LEMMA ChunkLenRange ==
    ASSUME NEW f \in File, NEW k \in Nat
    PROVE  ChunkLen(f, k) \in 1..FullLen
BY DownloadAssumption DEF ChunkLen

LEMMA RecvResultRange ==
    ASSUME wire \in Nat, NEW n, NEW r \in RecvResult(n)
    PROVE  r \in Int /\ r >= -1 /\ r <= wire /\ (r > 0 => r <= n)
BY DEF RecvResult

-----------------------------------------------------------------------------
(* Type correctness                                                        *)

LEMMA ProgramType ==
    ASSUME LinkOK, FlashOK, NEW n
    PROVE  Program(n) \in [Position -> Cell]
BY DEF LinkOK, FlashOK, Program, Programmed, Payload, Cell, Frame

LEMMA BudgetType ==
    ASSUME FlashOK, NEW e \in Event, Spend(e)
    PROVE  budget' \in [Event -> Nat]
BY DEF FlashOK, Spend

LEMMA TypeInit == Init => TypeOK
<1> SUFFICES ASSUME Init PROVE TypeOK
    OBVIOUS
<1>1. BooleansOK
    BY DEF Init, BooleansOK
<1>2. LinkOK
    BY DownloadAssumption DEF Init, LinkOK, Frame
<1>3. TaskOK
    BY DownloadAssumption DEF Init, TaskOK
<1>4. FlashOK
    BY DownloadAssumption DEF Init, FlashOK, Cell
<1> QED
    BY <1>1, <1>2, <1>3, <1>4 DEF TypeOK

LEMMA BooleansNext == BooleansOK /\ [Next]_vars => BooleansOK'
<1> SUFFICES ASSUME BooleansOK, [Next]_vars PROVE BooleansOK'
    OBVIOUS
<1> USE DEF BooleansOK, peerVars, lenVars, progVars, history, opVars
<1>1. CASE UNCHANGED vars
    BY <1>1 DEF vars
<1>2. CASE Environment
    BY <1>2 DEF Environment, Connect, NewFile, SendFrame, ReadAck, PeerCloses,
                ConnReset
<1>3. CASE Operator
    BY <1>3 DEF Operator, Pause, Continue, Stop, StopTaskSends, EraseCommand,
                PowerLoss
<1>4. CASE Receiver
    BY <1>4 DEF Receiver, Recv, RecvMore, FirstBytes, MoreBytes, Abandon,
                RefuseFrame, EraseForFile,
                BeginWrite, WriteWord, WriteByte, EndWrite, SendAck, Close,
                ProgramFails, Programs
<1> QED
    BY <1>1, <1>2, <1>3, <1>4 DEF Next

LEMMA LinkNext == LinkOK /\ TaskOK /\ [Next]_vars => LinkOK'
<1> SUFFICES ASSUME LinkOK, TaskOK, [Next]_vars PROVE LinkOK'
    OBVIOUS
<1> USE DEF LinkOK, peerVars
<1>1. CASE UNCHANGED vars
    BY <1>1 DEF vars
<1>2. ASSUME NEW f \in File, Connect(f) PROVE LinkOK'
    BY <1>2, DownloadAssumption DEF Connect
<1>11. ASSUME NEW f \in File, NewFile(f) PROVE LinkOK'
    BY <1>11, DownloadAssumption DEF NewFile
<1>3. ASSUME NEW ok \in BOOLEAN, SendFrame(ok) PROVE LinkOK'
    <2>1. cur' \in Frame
        <3>1. sIdx \in Nat /\ sIdx <= MaxIdx
            BY DownloadAssumption
        <3>2. (IF sIdx = 0 THEN 0 ELSE ChunkLen(sFile, sIdx)) \in 0..FullLen
            BY <3>1, ChunkLenRange, DownloadAssumption
        <3> QED
            BY <1>3, <3>1, <3>2 DEF SendFrame, Frame
    <2>2. FrameSize(cur') \in Nat
        BY <2>1, DownloadAssumption, SMTT(30) DEF FrameSize, Frame
    <2> QED
        BY <1>3, <2>1, <2>2 DEF SendFrame
<1>4. CASE ReadAck
    BY <1>4, DownloadAssumption DEF ReadAck
<1>5. CASE PeerCloses \/ ConnReset
    BY <1>5 DEF PeerCloses, ConnReset
<1>6. CASE Recv
    <2>1. PICK r \in RecvResult(BufSize) : FirstBytes(r)
        BY <1>6 DEF Recv
    <2> QED
        BY <1>6, <2>1 DEF Recv, FirstBytes, RecvResult
<1>7. CASE RecvMore
    <2>1. PICK r \in RecvResult(BufSize - lastLength) : MoreBytes(r)
        BY <1>7 DEF RecvMore
    <2> QED
        BY <1>7, <2>1 DEF RecvMore, MoreBytes, RecvResult
<1>8. CASE SendAck
    BY <1>8 DEF SendAck, TaskOK
<1>12. CASE Close
    BY <1>12 DEF Close
<1>9. CASE Receiver /\ ~Recv /\ ~RecvMore /\ ~SendAck /\ ~Close
    BY <1>9 DEF Receiver, Abandon, RefuseFrame,
                EraseForFile, BeginWrite, WriteWord, WriteByte, EndWrite
<1>10. CASE StopTaskSends
    BY <1>10 DEF StopTaskSends
<1>13. CASE PowerLoss
    BY <1>13 DEF PowerLoss
<1>14. CASE Operator /\ ~StopTaskSends /\ ~PowerLoss
    BY <1>14 DEF Operator, Pause, Continue, Stop, EraseCommand
<1> QED
    BY <1>1, <1>2, <1>3, <1>4, <1>5, <1>6, <1>7, <1>8, <1>9, <1>10, <1>11,
       <1>12, <1>13, <1>14
       DEF Next, Environment

LEMMA TaskNext == LinkOK /\ TaskOK /\ [Next]_vars => TaskOK'
<1> SUFFICES ASSUME LinkOK, TaskOK, [Next]_vars PROVE TaskOK'
    OBVIOUS
<1> USE DEF LinkOK, TaskOK, lenVars, progVars
<1>1. CASE UNCHANGED vars
    BY <1>1 DEF vars
<1>2. ASSUME NEW f \in File, Connect(f) PROVE TaskOK'
    BY <1>2, DownloadAssumption DEF Connect
<1>9. CASE Environment /\ ~(\E f \in File : Connect(f))
    BY <1>9 DEF Environment, NewFile, SendFrame, ReadAck, PeerCloses, ConnReset
<1>3. CASE PowerLoss
    BY <1>3 DEF PowerLoss
<1>10. CASE Operator /\ ~PowerLoss
    BY <1>10 DEF Operator, Pause, Continue, Stop, StopTaskSends, EraseCommand
<1>4. CASE Recv
    <2>1. PICK r \in RecvResult(BufSize) : FirstBytes(r)
        BY <1>4 DEF Recv
    <2>2. r \in Int /\ Length(r) \in -Width..Width
        BY RecvResultRange, LengthRange
    <2>3. r \in {-1} \cup 0..(Width - 1)
        BY DownloadAssumption DEF RecvResult, BufSize
    <2>4. Length(-1) <= 0 \/ Length(-1) > BufSize
        BY UnsignedValue, DownloadAssumption DEF Length, Signed, BufSize
    <2> QED
        BY <1>4, <2>1, <2>2, <2>3, <2>4 DEF Recv, FirstBytes
<1>5. CASE RecvMore
    <2>1. PICK r \in RecvResult(BufSize - lastLength) : MoreBytes(r)
        BY <1>5 DEF RecvMore
    <2>2. r \in Int
        BY RecvResultRange
    <2>3. Length(lastLength + r) \in -Width..Width
        <3>1. lastLength + r \in Int
            BY <2>2, DownloadAssumption
        <3> QED
            BY <3>1, LengthRange
    <2>4. Unsigned(Length(lastLength + r)) \in 0..(Width - 1)
        BY <2>3, UnsignedRange, DownloadAssumption
    <2> QED
        BY <1>5, <2>1, <2>2, <2>3, <2>4, SMTT(30) DEF RecvMore, MoreBytes
<1>6. CASE Abandon \/ RefuseFrame \/ SendAck \/ Close
    BY <1>6, SMTT(30) DEF Abandon, RefuseFrame, SendAck, Close
<1>7. CASE EraseForFile \/ EndWrite
    BY <1>7 DEF EraseForFile, EndWrite
<1>11. CASE BeginWrite
    BY <1>11, DownloadAssumption DEF BeginWrite, Received
<1>8. CASE WriteWord
    BY <1>8, DownloadAssumption
       DEF WriteWord, WordLeft, Programs, ProgramFails
<1>12. CASE WriteByte
    BY <1>12 DEF WriteByte, Programs, ProgramFails
<1> QED
    BY <1>1, <1>2, <1>3, <1>4, <1>5, <1>6, <1>7, <1>8, <1>9, <1>10, <1>11,
       <1>12 DEF Next, Receiver

LEMMA FlashNext == LinkOK /\ FlashOK /\ [Next]_vars => FlashOK'
<1> SUFFICES ASSUME LinkOK, FlashOK, [Next]_vars PROVE FlashOK'
    OBVIOUS
<1> USE DEF FlashOK, progVars, history
<1>1. CASE UNCHANGED vars
    BY <1>1 DEF vars
<1>2. CASE Environment
    BY <1>2, BudgetType
       DEF Event, Environment, Connect, NewFile, SendFrame, ReadAck,
           PeerCloses, ConnReset
<1>3. CASE Pause \/ Continue \/ Stop \/ StopTaskSends
    BY <1>3, BudgetType DEF Event, Pause, Continue, Stop, StopTaskSends
<1>4. ASSUME NEW busy \in BOOLEAN, EraseCommand(busy) PROVE FlashOK'
    <2>1. flash' \in [Position -> Cell]
        BY <1>4 DEF EraseCommand, Erased, Cell
    <2>2. budget' \in [Event -> Nat]
        BY <1>4, BudgetType DEF EraseCommand, Event
    <2>3. acked' = acked /\ reported' \in {reported, reported \cup {0}}
        BY <1>4 DEF EraseCommand
    <2>4. 0 \in 0..MaxIdx
        BY DownloadAssumption
    <2> QED
        BY <2>1, <2>2, <2>3, <2>4
<1>5. CASE PowerLoss
    <2>1. \A n : \A c \in Torn(n) : c \in [Position -> Cell]
        BY ProgramType DEF Torn, Cell
    <2>2. \A S : Erased(S) \in [Position -> Cell]
        BY DEF Erased, Cell
    <2>3. flash' \in [Position -> Cell]
        BY <1>5, <2>1, <2>2 DEF PowerLoss
    <2>4. budget' \in [Event -> Nat]
        BY <1>5, BudgetType DEF PowerLoss, Event
    <2> QED
        BY <1>5, <2>3, <2>4 DEF PowerLoss
<1>6. CASE EraseForFile
    <2>1. flash' \in [Position -> Cell]
        BY <1>6 DEF EraseForFile, Erased, Cell
    <2>2. budget' \in [Event -> Nat]
        BY <1>6, BudgetType DEF EraseForFile, Event
    <2> QED
        BY <1>6, <2>1, <2>2, DownloadAssumption DEF EraseForFile
<1>7. CASE WriteWord \/ WriteByte
    <2>1. flash' \in [Position -> Cell]
        BY <1>7, ProgramType
           DEF WriteWord, WriteByte, Programs, ProgramFails
    <2>2. budget' \in [Event -> Nat]
        BY <1>7, BudgetType
           DEF WriteWord, WriteByte, Programs, ProgramFails, Event
    <2>3. acked' = acked /\ reported' \subseteq 0..MaxIdx
        BY <1>7
           DEF LinkOK, Frame, WriteWord, WriteByte, Programs,
               ProgramFails
    <2> QED
        BY <2>1, <2>2, <2>3
<1>8. CASE SendAck
    <2>1. cur.idx \in 0..MaxIdx /\ cur.file \in File
        BY DEF LinkOK, Frame
    <2> QED
        BY <1>8, <2>1 DEF SendAck
<1>9. CASE Receiver /\ ~EraseForFile /\ ~WriteWord /\ ~WriteByte /\ ~SendAck
    BY <1>9 DEF Receiver, Recv, RecvMore, Abandon, RefuseFrame, BeginWrite, EndWrite, Close
<1> QED
    BY <1>1, <1>2, <1>3, <1>4, <1>5, <1>6, <1>7, <1>8, <1>9 DEF Next, Operator

LEMMA TypeNext == TypeOK /\ [Next]_vars => TypeOK'
BY BooleansNext, LinkNext, TaskNext, FlashNext DEF TypeOK

\* Lengths stay inside their 16-bit variables, counters never go below zero and
\* every flash byte is erased, a file byte at its own position or a mixture.
THEOREM TypeCorrect == Spec => []TypeOK
BY TypeInit, TypeNext, PTL DEF Spec

-----------------------------------------------------------------------------
(* The bytes of one frame: LinkInv is inductive; it ties the peer, the stream, *)
(* the receive buffer and the pending answer together, without the flash.     *)


NoAnswer == \A i \in DOMAIN acks : acks[i] = 6

\* A frame is on its way in, in the task or on its way out as an answer, and
\* never two of these.
Turn ==
    /\ \A i, j \in DOMAIN acks : acks[i] # 6 /\ acks[j] # 6 => i = j
    /\ ~NoAnswer => sWait /\ wire = 0 /\ pc \in {"none", "recv", "close"}
    /\ wire > 0 => sWait
    /\ pc \in {"fill", "words", "bytes", "ack"} => sWait /\ NoAnswer

\* The frame the peer waits on is the one it means to send.
Outstanding ==
    /\ sWait => /\ cur.idx = sIdx /\ cur.file = sFile
                /\ cur.len = IF sIdx = 0 THEN 0 ELSE ChunkLen(sFile, sIdx)
    /\ sIdx <= LastIdx

\* The task's idea of a length is exact until recv() fails, and after that too
\* small, until the 16 bits run over and the frame is given up.
LengthsOK ==
    /\ lastLength = Unsigned(newLength) /\ newLength <= have
    /\ conn # "rst" => newLength = have /\ have >= 1
    /\ IF Client THEN 2 * newLength >= -Width ELSE newLength >= 0

Buffered ==
    /\ wire <= FrameSize(cur)
    /\ pc = "recv" => wire \in {0, FrameSize(cur)} \/ conn = "eof"
    /\ pc = "fill" => /\ have + wire <= FrameSize(cur)
                      /\ have + wire = FrameSize(cur) \/ conn # "open"
                      /\ ~flag => LengthsOK
    /\ pc \in {"words", "bytes", "ack"} => wire = 0
    /\ pc \in {"words", "bytes"} => have = Hdr + cur.len /\ off + number = cur.len

\* The chunk of cur lies in the sector.
InSector == /\ cur.idx \in 1..LastIdx
            /\ cur.idx = LastIdx => cur.len <= LastLen

Answers ==
    /\ pc \in {"words", "bytes"} => InSector
    /\ pc = "ack" /\ code = 0 => cur.idx = 0
    /\ pc = "ack" /\ code = 1 => InSector
    /\ \A i \in DOMAIN acks : /\ acks[i] = 0 => cur.idx = 0
                              /\ acks[i] = 1 => InSector

LinkInv == Turn /\ Outstanding /\ Buffered /\ Answers

-----------------------------------------------------------------------------
(* Arithmetic                                                              *)

LEMMA UnsignedCases ==
    ASSUME NEW x \in -Width..(Width - 1)
    PROVE  Unsigned(x) = IF x < 0 THEN x + Width ELSE x
BY DownloadAssumption DEF Unsigned

LEMMA BufSizeRange == BufSize \in Nat /\ BufSize > 0 /\ 2 * (BufSize + 1) < Width
BY DownloadAssumption DEF BufSize

LEMMA LengthExact ==
    ASSUME NEW x \in 0..BufSize
    PROVE  Length(x) = x
<1>1. x \in -Width..(Width - 1) /\ 2 * x < Width
    BY BufSizeRange, DownloadAssumption
<1> QED
    BY <1>1, UnsignedCases DEF Length, Signed

LEMMA LengthOfError ==
    Length(-1) <= 0 \/ Length(-1) > BufSize
<1>1. -1 \in -Width..(Width - 1) /\ Unsigned(-1) = Width - 1
    BY BufSizeRange, DownloadAssumption, UnsignedCases
<1> QED
    BY <1>1, BufSizeRange, DownloadAssumption DEF Length, Signed

\* An error of recv() makes the length smaller or, once, too long for the buffer.
LEMMA LengthAfterError ==
    ASSUME NEW m \in Int, m <= BufSize,
           IF Client THEN 2 * m >= -Width ELSE m >= 0
    PROVE  \/ Length(Unsigned(m) - 1) > BufSize
           \/ /\ Length(Unsigned(m) - 1) < m
              /\ IF Client THEN 2 * Length(Unsigned(m) - 1) >= -Width
                           ELSE Length(Unsigned(m) - 1) >= 0
<1> DEFINE u == Unsigned(m)
           n == Length(u - 1)
<1>1. m \in -Width..(Width - 1)
    BY BufSizeRange, DownloadAssumption
<1>2. u = IF m < 0 THEN m + Width ELSE m
    BY <1>1, UnsignedCases
<1>3. u - 1 \in -Width..(Width - 1)
    BY <1>1, <1>2, BufSizeRange, DownloadAssumption
<1>4. Unsigned(u - 1) = IF u - 1 < 0 THEN u - 1 + Width ELSE u - 1
    BY <1>3, UnsignedCases
<1> HIDE DEF u
<1>5. CASE Client
    <2>1. n = IF 2 * Unsigned(u - 1) < Width THEN Unsigned(u - 1)
              ELSE Unsigned(u - 1) - Width
        BY <1>5 DEF Length, Signed
    <2> HIDE DEF n
    <2>2. n > BufSize \/ (n < m /\ 2 * n >= -Width)
        BY <2>1, <1>1, <1>2, <1>4, <1>5, BufSizeRange, DownloadAssumption
    <2> QED
        BY <2>2, <1>5 DEF n, u
<1>6. CASE ~Client
    <2>1. n = Unsigned(u - 1)
        BY <1>6 DEF Length
    <2> HIDE DEF n
    <2>2. n > BufSize \/ (n < m /\ n >= 0)
        BY <2>1, <1>1, <1>2, <1>4, <1>6, BufSizeRange, DownloadAssumption
    <2> QED
        BY <2>2, <1>6 DEF n, u
<1> QED
    BY <1>5, <1>6

LEMMA FrameSizeRange ==
    ASSUME LinkOK
    PROVE  /\ FrameSize(cur) \in Hdr..BufSize
           /\ cur.idx \in 0..MaxIdx /\ cur.len \in 0..FullLen /\ cur.file \in File
           /\ cur.plc \in BOOLEAN
BY DownloadAssumption DEF LinkOK, Frame, FrameSize, BufSize

-----------------------------------------------------------------------------
(* Peer, stream and buffer                                                 *)

\* A frame found complete has arrived completely.
LEMMA ReceivedWhole ==
    ASSUME TypeOK, LinkInv, Received
    PROVE  /\ have = FrameSize(cur) /\ newLength = have /\ wire = 0
           /\ cur.idx # 0 => have = Hdr + cur.len /\ ~WrongLength
           /\ sWait /\ NoAnswer
           /\ cur.idx = sIdx /\ sIdx \in 0..LastIdx
<1>1. LinkOK /\ TaskOK
    BY DEF TypeOK
<1>2. /\ FrameSize(cur) \in Hdr..BufSize
      /\ cur.idx \in 0..MaxIdx /\ cur.len \in 0..FullLen
    BY <1>1, FrameSizeRange
<1>3. /\ pc = "fill" /\ ~flag /\ newLength >= Hdr
      /\ cur.idx = 0 \/ newLength = cur.len + Hdr
    BY DEF Received, FrameComplete
<1>4. LengthsOK /\ have + wire <= FrameSize(cur)
    BY <1>3 DEF LinkInv, Buffered
<1>5. newLength >= FrameSize(cur)
    BY <1>2, <1>3, DownloadAssumption DEF FrameSize
<1>6. newLength \in Int /\ have \in Nat /\ wire \in Nat /\ newLength <= have
    BY <1>1, <1>4, DownloadAssumption DEF LinkOK, TaskOK, LengthsOK
<1>7. have = FrameSize(cur) /\ newLength = have /\ wire = 0
    BY <1>2, <1>4, <1>5, <1>6, DownloadAssumption DEF BufSize
<1>8. cur.idx # 0 => have = Hdr + cur.len /\ ~WrongLength
    BY <1>2, <1>7, DownloadAssumption DEF FrameSize, WrongLength
<1>9. sWait /\ NoAnswer /\ cur.idx = sIdx /\ sIdx <= LastIdx
    BY <1>3 DEF LinkInv, Turn, Outstanding
<1> QED
    BY <1>2, <1>7, <1>8, <1>9, DownloadAssumption

LEMMA LinkInit == Init => LinkInv
<1> SUFFICES ASSUME Init PROVE LinkInv
    OBVIOUS
<1>1. acks = <<>> /\ NoAnswer
    BY DEF Init, NoAnswer
<1>2. Turn
    BY <1>1 DEF Init, Turn
<1>3. Outstanding
    BY DownloadAssumption DEF Init, Outstanding
<1>4. Buffered
    BY DownloadAssumption DEF Init, Buffered, FrameSize
<1>5. Answers
    BY <1>1 DEF Init, Answers
<1> QED
    BY <1>2, <1>3, <1>4, <1>5 DEF LinkInv

LEMMA LinkConnect ==
    ASSUME TypeOK, LinkInv, NEW f \in File, Connect(f) PROVE LinkInv'
<1>1. NoAnswer'
    BY DEF Connect, NoAnswer
<1>2. Turn'
    BY <1>1 DEF Connect, Turn
<1>3. Outstanding'
    BY DownloadAssumption DEF Connect, Outstanding
<1>4. FrameSize(cur) \in Hdr..BufSize
    BY FrameSizeRange DEF TypeOK
<1>5. Buffered'
    BY <1>4, DownloadAssumption, BufSizeRange DEF Connect, Buffered, FrameSize
<1>6. Answers'
    BY DEF Connect, Answers
<1> QED
    BY <1>2, <1>3, <1>5, <1>6 DEF LinkInv

LEMMA LinkSendFrame ==
    ASSUME TypeOK, LinkInv, NEW ok \in BOOLEAN, SendFrame(ok) PROVE LinkInv'
<1>1. ~sWait /\ wire = 0 /\ NoAnswer /\ pc \notin {"fill", "words", "bytes", "ack"}
    BY DEF SendFrame, LinkInv, Turn, TypeOK, LinkOK
<1>2. /\ cur'.idx = sIdx /\ cur'.file = sFile
      /\ cur'.len = IF sIdx = 0 THEN 0 ELSE ChunkLen(sFile, sIdx)
      /\ UNCHANGED <<acks, pc, sIdx, sFile, conn>> /\ sWait'
    BY DEF SendFrame, lenVars
<1>3. LinkOK'
    BY LinkNext DEF TypeOK, Next, Environment
<1>4. FrameSize(cur)' \in Hdr..BufSize
    <2>1. cur' \in Frame
        BY <1>3 DEF LinkOK
    <2> QED
        BY <2>1, DownloadAssumption DEF Frame, FrameSize, BufSize
<1>5. wire' = FrameSize(cur)'
    BY <1>1, <1>4, BufSizeRange, DownloadAssumption DEF SendFrame, FrameSize
<1>6. NoAnswer'
    BY <1>1, <1>2 DEF NoAnswer
<1>7. Turn'
    BY <1>1, <1>2, <1>6 DEF LinkInv, Turn
<1>8. Outstanding'
    BY <1>2 DEF LinkInv, Outstanding
<1>9. Buffered'
    BY <1>1, <1>2, <1>4, <1>5, BufSizeRange, DownloadAssumption DEF Buffered
<1>10. Answers'
    BY <1>1, <1>2, <1>6 DEF Answers, NoAnswer
<1> QED
    BY <1>7, <1>8, <1>9, <1>10 DEF LinkInv

LEMMA LinkReadAck == TypeOK /\ LinkInv /\ ReadAck => LinkInv'
<1> SUFFICES ASSUME TypeOK, LinkInv, ReadAck PROVE LinkInv'
    OBVIOUS
<1>1. acks \in Seq(0..6) /\ acks # <<>> /\ sIdx \in Nat
    BY DownloadAssumption DEF TypeOK, LinkOK, ReadAck
<1>2. /\ 1 \in DOMAIN acks /\ Head(acks) = acks[1]
      /\ \A i \in DOMAIN acks' : i + 1 \in DOMAIN acks /\ acks'[i] = acks[i + 1]
                                /\ i + 1 # 1
    BY <1>1 DEF ReadAck
<1>3. /\ sWait' = (sWait /\ acks[1] = 6)
      /\ UNCHANGED <<conn, cur, wire, sFile, pc, newLength, lastLength, have, flag,
                     code, off, number>>
    BY <1>2 DEF ReadAck, lenVars, progVars
<1>4. \A i, j \in DOMAIN acks' : acks'[i] # 6 /\ acks'[j] # 6 => i = j
    <2> SUFFICES ASSUME NEW i \in DOMAIN acks', NEW j \in DOMAIN acks',
                        acks'[i] # 6, acks'[j] # 6
                 PROVE  i = j
        OBVIOUS
    <2>1. i + 1 = j + 1
        BY <1>2 DEF LinkInv, Turn
    <2>2. acks' = Tail(acks) /\ i \in Nat /\ j \in Nat
        BY <1>1 DEF ReadAck
    <2> QED
        BY <2>1, <2>2
<1>5. CASE acks[1] = 6
    <2>1. /\ sWait' = sWait /\ NoAnswer => NoAnswer'
          /\ ~NoAnswer' => ~NoAnswer /\ sIdx' = sIdx
        BY <1>2, <1>3, <1>5 DEF ReadAck, NoAnswer
    <2>2. sIdx' = sIdx
        BY <1>2, <1>5 DEF ReadAck
    <2>3. Turn'
        BY <1>3, <1>4, <2>1, <1>5 DEF LinkInv, Turn, TypeOK, BooleansOK
    <2>4. Outstanding'
        BY <1>3, <2>1, <2>2 DEF LinkInv, Outstanding, TypeOK, BooleansOK
    <2>5. Buffered'
        BY <1>3 DEF LinkInv, Buffered, FrameSize, LengthsOK
    <2>6. Answers'
        BY <1>2, <1>3 DEF LinkInv, Answers, InSector
    <2> QED
        BY <2>3, <2>4, <2>5, <2>6 DEF LinkInv
<1>6. CASE acks[1] # 6
    <2>1. ~NoAnswer /\ ~sWait' /\ wire = 0 /\ pc \in {"none", "recv", "close"} /\ sWait
        BY <1>2, <1>3, <1>6 DEF LinkInv, Turn, NoAnswer
    <2>2. \A i \in DOMAIN acks' : acks'[i] = 6
        <3> SUFFICES ASSUME NEW i \in DOMAIN acks', acks'[i] # 6 PROVE FALSE
            OBVIOUS
        <3>1. i + 1 = 1
            BY <1>2, <1>6 DEF LinkInv, Turn
        <3> QED
            BY <3>1, <1>2
    <2>3. Turn'
        BY <1>3, <2>1, <2>2 DEF Turn, NoAnswer
    <2>4. sIdx' <= LastIdx
        <3>1. CASE acks[1] \in {0, 1} /\ sIdx < Frames[sFile]
            <4>1. sIdx' = sIdx + 1
                BY <3>1, <1>1, <1>2, DownloadAssumption DEF ReadAck, TypeOK, LinkOK
            <4>2. CASE acks[1] = 0
                BY <4>1, <4>2, <1>2, <2>1, DownloadAssumption
                   DEF LinkInv, Answers, Outstanding
            <4>3. CASE acks[1] = 1
                <5>1. InSector /\ cur.idx = sIdx /\ sIdx # 0
                    BY <4>3, <1>2, <2>1, DownloadAssumption
                       DEF LinkInv, Answers, Outstanding, InSector
                <5>2. cur.len = FullLen
                    BY <5>1, <2>1, <3>1 DEF LinkInv, Outstanding, ChunkLen
                <5>3. sIdx # LastIdx /\ sIdx \in 1..LastIdx
                    BY <5>1, <5>2, DownloadAssumption DEF InSector
                <5> QED
                    BY <4>1, <5>3, DownloadAssumption
            <4> QED
                BY <3>1, <4>2, <4>3
        <3>2. CASE ~(acks[1] \in {0, 1} /\ sIdx < Frames[sFile])
            <4>1. sIdx' = sIdx
                BY <3>2, <1>1, <1>2, DownloadAssumption DEF ReadAck, TypeOK, LinkOK
            <4> QED
                BY <4>1 DEF LinkInv, Outstanding
        <3> QED
            BY <3>1, <3>2
    <2>5. Outstanding'
        BY <2>1, <2>4 DEF Outstanding
    <2>6. Buffered'
        BY <1>3 DEF LinkInv, Buffered, FrameSize, LengthsOK
    <2>7. Answers'
        BY <1>3, <2>1, <2>2 DEF LinkInv, Answers, InSector
    <2> QED
        BY <2>3, <2>5, <2>6, <2>7 DEF LinkInv
<1> QED
    BY <1>5, <1>6

LEMMA LinkNewFile ==
    ASSUME TypeOK, LinkInv, NEW f \in File, NewFile(f) PROVE LinkInv'
<1>1. ~sWait /\ sWait' = sWait /\ sIdx' = 0
    BY DEF NewFile
<1>2. UNCHANGED <<conn, cur, wire, acks, pc, newLength, lastLength, have, flag, code,
                  off, number>>
    BY DEF NewFile, lenVars, progVars
<1>3. Turn'
    BY <1>1, <1>2 DEF LinkInv, Turn, NoAnswer
<1>4. Outstanding'
    BY <1>1, DownloadAssumption DEF Outstanding
<1>5. Buffered'
    BY <1>2 DEF LinkInv, Buffered, FrameSize, LengthsOK
<1>6. Answers'
    BY <1>2 DEF LinkInv, Answers, InSector
<1> QED
    BY <1>3, <1>4, <1>5, <1>6 DEF LinkInv

\* The peer or the network takes away bytes in flight.
LEMMA LinkConnEnds == TypeOK /\ LinkInv /\ (PeerCloses \/ ConnReset) => LinkInv'
<1> SUFFICES ASSUME TypeOK, LinkInv, PeerCloses \/ ConnReset PROVE LinkInv'
    OBVIOUS
<1>1. /\ wire \in Nat /\ wire' \in 0..wire /\ have \in Nat
      /\ FrameSize(cur) \in Hdr..BufSize /\ newLength \in Int
    BY FrameSizeRange, DownloadAssumption
       DEF TypeOK, LinkOK, TaskOK, PeerCloses, ConnReset
<1>2. UNCHANGED <<cur, acks, sWait, sFile, sIdx, pc, newLength, lastLength, have, flag,
                  code, off, number>>
    BY DEF PeerCloses, ConnReset, lenVars, progVars, peerVars
<1>3. /\ conn' \in {"eof", "rst"} /\ conn # "rst"
      /\ conn' = "rst" => wire' = 0
    BY DEF PeerCloses, ConnReset
<1>4. Turn'
    BY <1>1, <1>2 DEF LinkInv, Turn, NoAnswer
<1>5. Outstanding'
    BY <1>2 DEF LinkInv, Outstanding
<1>6. FrameSize(cur)' = FrameSize(cur)
    BY <1>2 DEF FrameSize
<1>7. LengthsOK => LengthsOK'
    BY <1>2, <1>3 DEF LengthsOK
<1>8. Buffered'
    BY <1>1, <1>2, <1>3, <1>6, <1>7, BufSizeRange, DownloadAssumption
       DEF LinkInv, Buffered
<1>9. Answers'
    BY <1>2 DEF LinkInv, Answers, InSector
<1> QED
    BY <1>4, <1>5, <1>8, <1>9 DEF LinkInv

LEMMA LinkRecv == TypeOK /\ LinkInv /\ Recv => LinkInv'
<1> SUFFICES ASSUME TypeOK, LinkInv, Recv PROVE LinkInv'
    OBVIOUS
<1>1. PICK r \in RecvResult(BufSize) : FirstBytes(r)
    BY DEF Recv
<1>2. /\ wire \in Nat /\ FrameSize(cur) \in Hdr..BufSize
      /\ pc = "recv" /\ pc' \in {"fill", "close"} /\ flag' = flag
    BY <1>1, FrameSizeRange DEF TypeOK, LinkOK, Recv, FirstBytes
<1>3. UNCHANGED <<conn, cur, acks, sWait, sFile, sIdx, code, off, number>>
    BY DEF Recv, peerVars, progVars
<1>4. r \in -1..wire /\ (conn = "rst" => r = -1) /\ (r > 0 => r <= BufSize)
    BY <1>2 DEF RecvResult
<1>5. wire <= FrameSize(cur) /\ (wire \in {0, FrameSize(cur)} \/ conn = "eof")
    BY <1>2 DEF LinkInv, Buffered
<1>6. Outstanding'
    BY <1>3 DEF LinkInv, Outstanding
<1>7. Answers'
    BY <1>2, <1>3 DEF LinkInv, Answers, InSector
<1>8. FrameSize(cur)' = FrameSize(cur)
    BY <1>3 DEF FrameSize
<1>9. CASE pc' = "close"
    <2>1. wire' = wire
        BY <1>1, <1>9 DEF FirstBytes
    <2>2. Turn'
        BY <1>2, <1>3, <1>9, <2>1 DEF LinkInv, Turn, NoAnswer
    <2>3. Buffered'
        BY <1>2, <1>5, <1>8, <1>9, <2>1 DEF Buffered
    <2> QED
        BY <1>6, <1>7, <2>2, <2>3 DEF LinkInv
<1>10. CASE pc' = "fill"
    <2>1. /\ newLength' = Length(r) /\ lastLength' = r /\ have' = r
          /\ wire' = wire - r /\ ~(Length(r) <= 0 \/ Length(r) > BufSize)
        <3>1. CASE Length(r) <= 0 \/ Length(r) > BufSize
            <4>1. pc' = "close"
                BY <1>1, <3>1 DEF FirstBytes
            <4> QED
                BY <4>1, <1>10
        <3>2. CASE ~(Length(r) <= 0 \/ Length(r) > BufSize)
            BY <1>1, <3>2 DEF FirstBytes
        <3> QED
            BY <3>1, <3>2
    <2>2. r # -1
        <3> SUFFICES ASSUME r = -1 PROVE FALSE
            OBVIOUS
        <3> QED
            BY <2>1, LengthOfError
    <2>3. r \in 0..BufSize
        BY <1>4, <2>2, BufSizeRange
    <2>4. Length(r) = r /\ r >= 1 /\ conn # "rst"
        <3>1. Length(r) = r
            BY <2>3, LengthExact
        <3> QED
            BY <2>1, <2>2, <2>3, <1>4, <3>1
    <2>5. wire > 0
        BY <1>2, <1>4, <2>4
    <2>6. sWait /\ NoAnswer
        BY <2>5 DEF LinkInv, Turn
    <2>7. Turn'
        BY <1>2, <1>3, <1>10, <2>6 DEF LinkInv, Turn, NoAnswer
    <2>8. Unsigned(r) = r
        BY <2>3, BufSizeRange, DownloadAssumption, UnsignedCases
    <2>9. LengthsOK'
        <3>1. lastLength' = Unsigned(newLength')
            BY <2>1, <2>4, <2>8
        <3>2. newLength' = r /\ have' = r /\ r \in 1..BufSize
            BY <2>1, <2>3, <2>4
        <3>3. 2 * newLength' >= -Width /\ newLength' >= 0
            BY <3>2, DownloadAssumption, BufSizeRange
        <3> QED
            BY <3>1, <3>2, <3>3, <2>4, <1>3, BufSizeRange DEF LengthsOK, Unsigned
    <2>10. Buffered'
        BY <1>2, <1>3, <1>4, <1>5, <1>8, <1>10, <2>1, <2>4, <2>5, <2>9, BufSizeRange,
           DownloadAssumption DEF Buffered
    <2> QED
        BY <1>6, <1>7, <2>7, <2>10 DEF LinkInv
<1> QED
    BY <1>2, <1>9, <1>10

\* The receive loop only takes up a frame that is there.
LEMMA RecvTakes ==
    ASSUME TypeOK, Recv
    PROVE  wire' > 0 \/ pc' = "fill" => wire > 0
<1>1. PICK r \in RecvResult(BufSize) : FirstBytes(r)
    BY DEF Recv
<1>2. CASE Length(r) <= 0 \/ Length(r) > BufSize
    BY <1>1, <1>2 DEF FirstBytes
<1>3. CASE ~(Length(r) <= 0 \/ Length(r) > BufSize)
    <2>1. wire \in Nat /\ r \in -1..wire /\ (r > 0 \/ r = 0 \/ r = -1)
        BY DEF TypeOK, LinkOK, RecvResult
    <2>2. r # -1
        <3> SUFFICES ASSUME r = -1 PROVE FALSE
            OBVIOUS
        <3> QED
            BY <1>3, LengthOfError
    <2>3. r # 0
        <3> SUFFICES ASSUME r = 0 PROVE FALSE
            OBVIOUS
        <3>1. Length(0) = 0
            BY LengthExact, BufSizeRange
        <3> QED
            BY <1>3, <3>1
    <2> QED
        BY <2>1, <2>2, <2>3
<1> QED
    BY <1>2, <1>3

LEMMA LinkRecvMore == TypeOK /\ LinkInv /\ RecvMore => LinkInv'
<1> SUFFICES ASSUME TypeOK, LinkInv, RecvMore PROVE LinkInv'
    OBVIOUS
<1>1. PICK r \in RecvResult(BufSize - lastLength) : MoreBytes(r)
    BY DEF RecvMore
<1>2. /\ wire \in Nat /\ have \in Nat /\ newLength \in Int
      /\ FrameSize(cur) \in Hdr..BufSize
      /\ pc = "fill" /\ pc' = "fill" /\ flag = FALSE
    BY FrameSizeRange, DownloadAssumption
       DEF TypeOK, LinkOK, TaskOK, BooleansOK, RecvMore
<1>3. UNCHANGED <<conn, cur, acks, sWait, sFile, sIdx, code, off, number>>
    BY DEF RecvMore, peerVars, progVars
<1>4. /\ LengthsOK /\ have + wire <= FrameSize(cur)
      /\ have + wire = FrameSize(cur) \/ conn # "open"
    BY <1>2 DEF LinkInv, Buffered
<1>5. /\ r \in -1..wire /\ (conn = "rst" => r = -1) /\ (conn # "rst" => r >= 0)
      /\ (r > 0 => r <= BufSize - lastLength)
    BY <1>2 DEF RecvResult
<1>6. Outstanding'
    BY <1>3 DEF LinkInv, Outstanding
<1>7. Answers'
    BY <1>2, <1>3 DEF LinkInv, Answers, InSector
<1>8. FrameSize(cur)' = FrameSize(cur)
    BY <1>3 DEF FrameSize
<1> DEFINE n == Length(lastLength + r)
<1>9. CASE Broken(n)
    <2>1. flag' = TRUE /\ wire' = wire /\ have' = have
        BY <1>1, <1>9 DEF MoreBytes
    <2>2. Turn'
        BY <1>2, <1>3, <2>1 DEF LinkInv, Turn, NoAnswer
    <2>3. Buffered'
        BY <1>2, <1>3, <1>4, <1>8, <2>1 DEF LinkInv, Buffered
    <2> QED
        BY <1>6, <1>7, <2>2, <2>3 DEF LinkInv
<1>10. CASE ~Broken(n)
    <2>1. /\ newLength' = n /\ lastLength' = Unsigned(n) /\ flag' = flag
          /\ have' = (IF r > 0 THEN have + r ELSE have)
          /\ wire' = (IF r > 0 THEN wire - r ELSE wire)
          /\ n # lastLength /\ ~(n > BufSize)
        BY <1>1, <1>10 DEF MoreBytes, Broken
    <2>2. have' + wire' = have + wire /\ wire' \in 0..wire /\ have' \in Nat
        BY <1>2, <1>5, <2>1
    <2>3. Turn'
        BY <1>2, <1>3, <2>2 DEF LinkInv, Turn, NoAnswer
    <2>4. LengthsOK'
        <3>1. CASE conn = "rst"
            <4>1. r = -1 /\ have' = have /\ lastLength = Unsigned(newLength)
                BY <3>1, <1>4, <1>5, <2>1 DEF LengthsOK
            <4>2. newLength <= have /\ have <= BufSize
                BY <1>2, <1>4, BufSizeRange, DownloadAssumption DEF LengthsOK
            <4>3. newLength <= BufSize
                BY <4>2, <1>2, BufSizeRange
            <4>4. n = Length(Unsigned(newLength) - 1)
                <5>1. lastLength \in Int
                    BY DEF TypeOK, TaskOK
                <5>2. lastLength + r = Unsigned(newLength) - 1
                    BY <4>1, <5>1
                <5> QED
                    BY <5>2
            <4>5. \/ n > BufSize
                  \/ n < newLength /\ IF Client THEN 2 * n >= -Width ELSE n >= 0
                <5> DEFINE u == Length(Unsigned(newLength) - 1)
                <5>1. IF Client THEN 2 * newLength >= -Width ELSE newLength >= 0
                    BY <1>4 DEF LengthsOK
                <5>2. \/ u > BufSize
                      \/ u < newLength /\ IF Client THEN 2 * u >= -Width ELSE u >= 0
                    BY <1>2, <4>3, <5>1, LengthAfterError
                <5> HIDE DEF u, n
                <5>3. n = u
                    BY <4>4 DEF n, u
                <5> QED
                    BY <5>2, <5>3
            <4>6. n < newLength /\ IF Client THEN 2 * n >= -Width ELSE n >= 0
                BY <4>5, <2>1
            <4>7. n \in Int
                BY <4>1, LengthRange, DownloadAssumption DEF TypeOK, TaskOK
            <4> HIDE DEF n
            <4>8. newLength' <= have'
                BY <4>1, <4>2, <4>6, <4>7, <2>1, <1>2
            <4> QED
                BY <3>1, <2>1, <4>6, <4>8, <1>3 DEF LengthsOK, Unsigned
        <3>2. CASE conn # "rst"
            <4>1. newLength = have /\ have >= 1 /\ lastLength = Unsigned(newLength)
                BY <3>2, <1>4 DEF LengthsOK
            <4>2. have \in 1..BufSize
                BY <4>1, <1>2, <1>4, BufSizeRange, DownloadAssumption
            <4>3. lastLength = have
                BY <4>1, <4>2, BufSizeRange, DownloadAssumption, UnsignedCases
            <4>4. r # 0
                <5> SUFFICES ASSUME r = 0 PROVE FALSE
                    OBVIOUS
                <5>1. n = have
                    BY <4>2, <4>3, LengthExact
                <5> QED
                    BY <5>1, <4>3, <2>1
            <4>5. r >= 1 /\ have + r \in 0..BufSize /\ r \in Int
                BY <1>2, <1>5, <3>2, <4>2, <4>3, <4>4, BufSizeRange
            <4>6. n = have + r
                BY <4>3, <4>5, LengthExact
            <4> HIDE DEF n
            <4>7. newLength' = have' /\ have' >= 1 /\ newLength' >= 0
                  /\ 2 * newLength' >= -Width
                BY <2>1, <4>2, <4>5, <4>6, DownloadAssumption
            <4>8. newLength' <= have'
                BY <4>7, <2>2
            <4> QED
                BY <2>1, <4>7, <4>8 DEF LengthsOK, Unsigned
        <3> QED
            BY <3>1, <3>2
    <2>5. wire' <= FrameSize(cur)' /\ have' + wire' <= FrameSize(cur)'
        <3>1. FrameSize(cur) \in Int /\ wire <= FrameSize(cur)
            BY <1>2, <1>4, BufSizeRange, DownloadAssumption
        <3>2. wire' <= FrameSize(cur)
            BY <1>2, <2>2, <3>1
        <3>3. have' + wire' <= FrameSize(cur)
            BY <1>4, <2>2
        <3> QED
            BY <1>8, <3>2, <3>3
    <2>6. have' + wire' = FrameSize(cur)' \/ conn' # "open"
        BY <1>3, <1>4, <1>8, <2>2
    <2>7. Buffered'
        BY <1>2, <2>4, <2>5, <2>6 DEF Buffered
    <2> QED
        BY <1>6, <1>7, <2>3, <2>7 DEF LinkInv
<1> QED
    BY <1>9, <1>10

\* The actions that leave the link alone.
LEMMA LinkSame ==
    ASSUME LinkInv,
           UNCHANGED <<conn, cur, wire, acks, sWait, sFile, sIdx, pc, lenVars, code,
                       off, number>>
    PROVE  LinkInv'
<1>1. Turn'
    BY DEF LinkInv, Turn, NoAnswer
<1>2. Outstanding'
    BY DEF LinkInv, Outstanding
<1>3. Buffered'
    BY DEF LinkInv, Buffered, FrameSize, LengthsOK, lenVars
<1>4. Answers'
    BY DEF LinkInv, Answers, InSector
<1> QED
    BY <1>1, <1>2, <1>3, <1>4 DEF LinkInv

LEMMA LinkAbandon == LinkInv /\ Abandon => LinkInv'
<1> SUFFICES ASSUME LinkInv, Abandon PROVE LinkInv'
    OBVIOUS
<1>1. Turn'
    BY DEF LinkInv, Turn, NoAnswer, Abandon, peerVars
<1>2. Outstanding'
    BY DEF LinkInv, Outstanding, Abandon, peerVars
<1>3. Buffered'
    BY DEF LinkInv, Buffered, FrameSize, Abandon
<1>4. Answers'
    BY DEF LinkInv, Answers, InSector, Abandon
<1> QED
    BY <1>1, <1>2, <1>3, <1>4 DEF LinkInv

\* A complete frame: refused, an announcement, or a chunk to be written.
LEMMA LinkJudged ==
    ASSUME TypeOK, LinkInv, RefuseFrame \/ EraseForFile \/ BeginWrite
    PROVE  LinkInv'
<1>1. Received
    BY DEF RefuseFrame, EraseForFile, BeginWrite
<1>2. /\ have = FrameSize(cur) /\ newLength = have /\ wire = 0
      /\ cur.idx # 0 => have = Hdr + cur.len /\ ~WrongLength
      /\ sWait /\ NoAnswer
      /\ cur.idx = sIdx /\ sIdx \in 0..LastIdx
    BY <1>1, ReceivedWhole
<1>3. /\ UNCHANGED <<conn, cur, wire, acks, sFile, sIdx, newLength, have>>
      /\ sWait' = sWait /\ pc' \in {"ack", "words"}
    BY DEF RefuseFrame, EraseForFile, BeginWrite, peerVars, lenVars
<1>4. Turn'
    BY <1>2, <1>3 DEF LinkInv, Turn, NoAnswer
<1>5. Outstanding'
    BY <1>3 DEF LinkInv, Outstanding
<1>6. FrameSize(cur)' = FrameSize(cur) /\ FrameSize(cur) \in Hdr..BufSize
    BY <1>3, FrameSizeRange DEF FrameSize, TypeOK
<1>7. CASE pc' = "ack"
    <2>1. Buffered'
        BY <1>2, <1>3, <1>6, <1>7, DownloadAssumption DEF Buffered
    <2>2. code' \in {0, 3, 4, 5} /\ (code' = 0 => cur.idx = 0)
        BY <1>7 DEF RefuseFrame, EraseForFile, BeginWrite, Verdict
    <2>3. Answers'
        BY <1>2, <1>3, <1>7, <2>2 DEF Answers, NoAnswer
    <2> QED
        BY <1>4, <1>5, <2>1, <2>3 DEF LinkInv
<1>8. CASE pc' = "words"
    <2>1. BeginWrite /\ cur.idx # 0 /\ ~Overfull
        BY <1>8 DEF RefuseFrame, EraseForFile, BeginWrite, Verdict
    <2>2. cur.len \in 0..FullLen /\ off' = 0 /\ number' = newLength - Hdr
        BY <2>1, FrameSizeRange DEF BeginWrite, TypeOK
    <2>3. have' = Hdr + cur.len /\ off' + number' = cur.len
        BY <1>2, <1>3, <2>1, <2>2, DownloadAssumption
    <2>4. Buffered'
        BY <1>2, <1>3, <1>6, <1>8, <2>3, DownloadAssumption DEF Buffered
    <2>5. InSector'
        BY <1>2, <1>3, <2>1, <2>2, DownloadAssumption DEF InSector, Overfull
    <2>6. Answers'
        BY <1>2, <1>3, <1>8, <2>5 DEF Answers, NoAnswer
    <2> QED
        BY <1>4, <1>5, <2>4, <2>6 DEF LinkInv
<1> QED
    BY <1>3, <1>7, <1>8

LEMMA LinkWrite ==
    ASSUME TypeOK, LinkInv, WriteWord \/ WriteByte \/ EndWrite
    PROVE  LinkInv'
<1>1. /\ UNCHANGED <<conn, cur, wire, acks, sWait, sFile, sIdx, have>>
      /\ pc \in {"words", "bytes"} /\ pc' \in {"words", "bytes", "ack"}
    BY DEF WriteWord, WriteByte, EndWrite, peerVars, lenVars
<1>2. /\ sWait /\ NoAnswer /\ wire = 0 /\ have = Hdr + cur.len /\ InSector
      /\ off + number = cur.len /\ off \in Nat /\ number \in Nat
    BY <1>1 DEF LinkInv, Turn, Buffered, Answers, TypeOK, TaskOK
<1>3. pc' = "ack" => code' = 1
    BY DEF WriteWord, WriteByte, EndWrite
<1>4. off' + number' = off + number
    <2>1. CASE \E n \in {1, WordLen} : Programs(n)
        BY <1>2, <2>1, DownloadAssumption DEF Programs
    <2>2. CASE UNCHANGED <<off, number>>
        BY <2>2
    <2> QED
        BY <2>1, <2>2 DEF WriteWord, WriteByte, EndWrite, ProgramFails
<1>5. Turn'
    BY <1>1, <1>2 DEF LinkInv, Turn, NoAnswer
<1>6. Outstanding'
    BY <1>1 DEF LinkInv, Outstanding
<1>7. FrameSize(cur)' = FrameSize(cur) /\ FrameSize(cur) \in Hdr..BufSize
    BY <1>1, FrameSizeRange DEF FrameSize, TypeOK
<1>8. Buffered'
    BY <1>1, <1>2, <1>4, <1>7, DownloadAssumption DEF Buffered
<1>9. InSector'
    BY <1>1, <1>2 DEF InSector
<1>10. Answers'
    BY <1>1, <1>2, <1>3, <1>9 DEF Answers, NoAnswer
<1> QED
    BY <1>5, <1>6, <1>8, <1>10 DEF LinkInv

LEMMA LinkSendAck == TypeOK /\ LinkInv /\ SendAck => LinkInv'
<1> SUFFICES ASSUME TypeOK, LinkInv, SendAck PROVE LinkInv'
    OBVIOUS
<1>1. /\ UNCHANGED <<conn, cur, wire, sFile, sIdx>> /\ sWait' = sWait
      /\ pc = "ack" /\ pc' \in {"recv", "close"}
    BY DEF SendAck, peerVars
<1>2. sWait /\ NoAnswer /\ wire = 0
    BY <1>1 DEF LinkInv, Turn, Buffered
<1>3. /\ acks \in Seq(0..6) /\ Len(acks) \in Nat /\ code \in 0..6
      /\ acks' = acks \/ acks' = Append(acks, code)
    BY DEF TypeOK, LinkOK, TaskOK, SendAck
<1>4. \A i \in DOMAIN acks' : acks'[i] = 6 \/ (i = Len(acks) + 1 /\ acks'[i] = code)
    BY <1>2, <1>3 DEF NoAnswer
<1>5. Turn'
    BY <1>1, <1>2, <1>4 DEF Turn
<1>6. Outstanding'
    BY <1>1 DEF LinkInv, Outstanding
<1>7. Buffered'
    BY <1>1, <1>2 DEF LinkInv, Buffered, FrameSize
<1>8. Answers'
    <2>1. code = 0 => cur.idx = 0
        BY <1>1 DEF LinkInv, Answers
    <2>2. code = 1 => InSector'
        BY <1>1 DEF LinkInv, Answers, InSector
    <2> QED
        BY <1>1, <1>4, <2>1, <2>2 DEF Answers
<1> QED
    BY <1>5, <1>6, <1>7, <1>8 DEF LinkInv

\* The connection or the task is gone.
LEMMA LinkClose == TypeOK /\ LinkInv /\ Close => LinkInv'
<1> SUFFICES ASSUME TypeOK, LinkInv, Close PROVE LinkInv'
    OBVIOUS
<1>1. UNCHANGED <<cur, acks, sFile, sIdx>> /\ sWait' = sWait /\ wire' = 0 /\ pc' = "none"
    BY DEF Close, peerVars
<1>2. Turn'
    BY <1>1 DEF LinkInv, Turn, NoAnswer
<1>3. Outstanding'
    BY <1>1 DEF LinkInv, Outstanding
<1>4. FrameSize(cur)' \in Nat
    BY <1>1, FrameSizeRange, BufSizeRange, DownloadAssumption DEF FrameSize, TypeOK
<1>5. Buffered'
    BY <1>1, <1>4 DEF Buffered
<1>6. Answers'
    BY <1>1 DEF LinkInv, Answers, InSector
<1> QED
    BY <1>2, <1>3, <1>5, <1>6 DEF LinkInv

LEMMA LinkPowerLoss == TypeOK /\ LinkInv /\ PowerLoss => LinkInv'
<1> SUFFICES ASSUME TypeOK, LinkInv, PowerLoss PROVE LinkInv'
    OBVIOUS
<1>1. /\ UNCHANGED <<cur, sFile, sIdx>> /\ ~sWait' /\ wire' = 0 /\ pc' = "none"
      /\ acks' = <<>>
    BY DEF PowerLoss
<1>2. Turn'
    BY <1>1 DEF Turn, NoAnswer
<1>3. Outstanding'
    BY <1>1 DEF LinkInv, Outstanding
<1>4. FrameSize(cur)' \in Nat
    BY <1>1, FrameSizeRange, BufSizeRange, DownloadAssumption DEF FrameSize, TypeOK
<1>5. Buffered'
    BY <1>1, <1>4 DEF Buffered
<1>6. Answers'
    BY <1>1 DEF Answers
<1> QED
    BY <1>2, <1>3, <1>5, <1>6 DEF LinkInv

LEMMA LinkStopTaskSends == TypeOK /\ LinkInv /\ StopTaskSends => LinkInv'
<1> SUFFICES ASSUME TypeOK, LinkInv, StopTaskSends PROVE LinkInv'
    OBVIOUS
<1>1. /\ UNCHANGED <<conn, cur, wire, sFile, sIdx, pc, lenVars, code, off, number>>
      /\ sWait' = sWait
    BY DEF StopTaskSends, peerVars, progVars
<1>2. /\ acks \in Seq(0..6) /\ Len(acks) \in Nat
      /\ acks' = acks \/ acks' = Append(acks, 6)
    BY DEF TypeOK, LinkOK, StopTaskSends
<1>3. \A i \in DOMAIN acks' : acks'[i] # 6 => i \in DOMAIN acks /\ acks'[i] = acks[i]
    BY <1>2
<1>4. NoAnswer => NoAnswer'
    BY <1>3 DEF NoAnswer
<1>5. Turn'
    BY <1>1, <1>3, <1>4 DEF LinkInv, Turn
<1>6. Outstanding'
    BY <1>1 DEF LinkInv, Outstanding
<1>7. Buffered'
    BY <1>1 DEF LinkInv, Buffered, FrameSize, LengthsOK, lenVars
<1>8. Answers'
    BY <1>1, <1>3 DEF LinkInv, Answers, InSector
<1> QED
    BY <1>5, <1>6, <1>7, <1>8 DEF LinkInv

LEMMA LinkInvNext == TypeOK /\ LinkInv /\ [Next]_vars => LinkInv'
<1> SUFFICES ASSUME TypeOK, LinkInv, [Next]_vars PROVE LinkInv'
    OBVIOUS
<1>1. CASE Receiver
    <2>1. CASE Recv \/ RecvMore \/ Abandon
        BY <2>1, LinkRecv, LinkRecvMore, LinkAbandon
    <2>2. CASE RefuseFrame \/ EraseForFile \/ BeginWrite
        BY <2>2, LinkJudged
    <2>3. CASE WriteWord \/ WriteByte \/ EndWrite
        BY <2>3, LinkWrite
    <2>4. CASE SendAck \/ Close
        BY <2>4, LinkSendAck, LinkClose
    <2> QED
        BY <1>1, <2>1, <2>2, <2>3, <2>4 DEF Receiver
<1>2. CASE Environment
    <2>1. ASSUME NEW f \in File, Connect(f) \/ NewFile(f) PROVE LinkInv'
        BY <2>1, LinkConnect, LinkNewFile
    <2>2. ASSUME NEW ok \in BOOLEAN, SendFrame(ok) PROVE LinkInv'
        BY <2>2, LinkSendFrame
    <2>3. CASE ReadAck \/ PeerCloses \/ ConnReset
        BY <2>3, LinkReadAck, LinkConnEnds
    <2> QED
        BY <1>2, <2>1, <2>2, <2>3 DEF Environment
<1>3. CASE Operator
    <2>1. CASE Pause \/ Continue \/ Stop
        BY <2>1, LinkSame DEF Pause, Continue, Stop, peerVars, progVars
    <2>2. CASE StopTaskSends
        BY <2>2, LinkStopTaskSends
    <2>3. ASSUME NEW busy \in BOOLEAN, EraseCommand(busy) PROVE LinkInv'
        BY <2>3, LinkSame DEF EraseCommand, peerVars
    <2>4. CASE PowerLoss
        BY <2>4, LinkPowerLoss
    <2> QED
        BY <1>3, <2>1, <2>2, <2>3, <2>4 DEF Operator
<1>4. CASE UNCHANGED vars
    BY <1>4, LinkSame DEF vars, peerVars, lenVars, progVars
<1> QED
    BY <1>1, <1>2, <1>3, <1>4 DEF Next

LEMMA LinkInvariant == Spec => [](TypeOK /\ LinkInv)
<1>1. Init => TypeOK /\ LinkInv
    BY TypeInit, LinkInit
<1>2. TypeOK /\ LinkInv /\ [Next]_vars => TypeOK' /\ LinkInv'
    BY TypeNext, LinkInvNext
<1> QED
    BY <1>1, <1>2, PTL DEF Spec

-----------------------------------------------------------------------------
(* Theorems                                                                *)

\* Whatever pieces recv() delivers, whenever the connection ends, the operator
\* stops or the power goes: buffer and stream hold the bytes of one frame, and
\* the reassembly loops neither keep nor lose one.
THEOREM FramesAligned == Spec => []Aligned
<1>1. TypeOK /\ LinkInv => Aligned
    BY DEF TypeOK, LinkOK, LinkInv, Turn, Buffered, Aligned
<1> QED
    BY <1>1, LinkInvariant, PTL

\* The answers stay in step with the frames, whatever is refused, resent or
\* stopped: at most one is out, and only while the peer waits for it.
THEOREM AnswersInStep == Spec => []OneAnswer
<1>1. TypeOK /\ LinkInv => OneAnswer
    BY DEF LinkInv, Turn, NoAnswer, OneAnswer
<1> QED
    BY <1>1, LinkInvariant, PTL

\* The length check behind the reassembly loops (answer 0x04) never fires, for
\* every frame size and every way the 16-bit lengths wrap.
THEOREM LengthCheckIsDead == Spec => []NeverWrongLength
<1>1. Init => NeverWrongLength
    BY DEF Init, NeverWrongLength
<1>2. TypeOK /\ LinkInv /\ NeverWrongLength /\ [Next]_vars => NeverWrongLength'
    <2> SUFFICES ASSUME TypeOK, LinkInv, NeverWrongLength, [Next]_vars
                 PROVE  NeverWrongLength'
        OBVIOUS
    <2> USE DEF NeverWrongLength
    <2>1. CASE RefuseFrame
        <3>1. cur.idx # 0 => ~WrongLength
            BY <2>1, ReceivedWhole DEF RefuseFrame
        <3> QED
            BY <2>1, <3>1 DEF RefuseFrame, Verdict
    <2>2. CASE EraseForFile
        BY <2>2 DEF EraseForFile
    <2>3. CASE WriteByte
        BY <2>3 DEF WriteByte
    <2>4. CASE EndWrite
        BY <2>4 DEF EndWrite
    <2>5. CASE UNCHANGED code
        BY <2>5
    <2>6. CASE Receiver
        BY <2>1, <2>2, <2>3, <2>4, <2>5, <2>6
           DEF Receiver, Recv, RecvMore, Abandon, BeginWrite, WriteWord, SendAck, Close
    <2>7. CASE Environment
        BY <2>5, <2>7 DEF Environment, Connect, NewFile, SendFrame, ReadAck, PeerCloses,
                          ConnReset
    <2>8. CASE Operator
        BY <2>5, <2>8 DEF Operator, Pause, Continue, Stop, StopTaskSends, EraseCommand,
                          PowerLoss
    <2> QED
        BY <2>5, <2>6, <2>7, <2>8 DEF Next, vars
<1> QED
    BY <1>1, <1>2, LinkInvariant, PTL DEF Spec

-----------------------------------------------------------------------------
(***************************************************************************)
(* What is acknowledged is stored: the contents of the flash.              *)
(*                                                                         *)
(* LinkInv says which frame is where; FlashInv adds, for each point of a   *)
(* transfer, which bytes of the sector are still blank, which are written, *)
(* and that no chunk is acknowledged before its turn.                      *)
(***************************************************************************)

\* Chunk k and those behind it are neither acknowledged nor begun.
BlankFrom(a) == 0 \in reported \/ \A p \in Sector5 : p >= a => flash[p] = Blank
Untouched(k) == BlankFrom(Addr(k)) /\ \A c \in acked : c[2] < k

Done == \/ cur.idx \in reported \/ 0 \in reported
        \/ \A i \in 0..(off - 1) :
             flash[Addr(cur.idx) + i] = Byte(cur.file, Addr(cur.idx) + i)

TurnInv ==
    /\ ~sWait /\ ~sDone /\ sIdx > 0 => Untouched(sIdx)
    /\ wire > 0 \/ pc = "fill" => cur.idx = 0 \/ Untouched(cur.idx)
    /\ pc = "ack" => IF code \in {0, 1} THEN Untouched(cur.idx + 1)
                     ELSE cur.idx = 0 \/ Untouched(cur.idx)
    /\ \A i \in DOMAIN acks :
         /\ acks[i] \in {0, 1} => Untouched(sIdx + 1)
         /\ acks[i] \notin {0, 1, 5, 6} => sIdx = 0 \/ Untouched(sIdx)

WriteInv ==
    /\ pc \in {"words", "bytes"} =>
         /\ \A c \in acked : c[2] < cur.idx
         /\ BlankFrom(Addr(cur.idx) + off)
         /\ Done
    /\ pc = "ack" /\ code = 1 =>
         \/ cur.idx \in reported \/ 0 \in reported \/ Stored(cur.file, cur.idx)

FlashInv ==
    /\ acked \subseteq File \X (1..LastIdx)
    /\ TurnInv /\ WriteInv /\ AckedIsStored /\ SectorHeld

IInv == TypeOK /\ LinkInv /\ FlashInv

-----------------------------------------------------------------------------
(* Addresses                                                               *)

LEMMA AddrRange ==
    ASSUME NEW k \in Nat \ {0}
    PROVE  Addr(k) \in Nat /\ Addr(k + 1) = Addr(k) + FullLen
<1>1. (k - 1) * FullLen \in Nat /\ (k + 1 - 1) * FullLen = (k - 1) * FullLen + FullLen
    BY DownloadAssumption
<1> QED
    BY <1>1 DEF Addr

LEMMA AddrApart ==
    ASSUME NEW k \in Nat \ {0}, NEW l \in Nat \ {0}, k < l
    PROVE  Addr(k) + FullLen <= Addr(l)
<1>1. PICK d \in Nat : l = k + 1 + d
    <2>1. l - k - 1 \in Nat /\ l = k + 1 + (l - k - 1)
        OBVIOUS
    <2> QED
        BY <2>1
<1>2. d * FullLen \in Nat /\ k * FullLen \in Int
    BY DownloadAssumption
<1>3. (k + d) * FullLen = k * FullLen + d * FullLen
    BY DownloadAssumption
<1>4. Addr(l) = (k + d) * FullLen
    BY <1>1 DEF Addr
<1>5. Addr(k) + FullLen = k * FullLen
    BY DownloadAssumption DEF Addr
<1> QED
    BY <1>2, <1>3, <1>4, <1>5

LEMMA CapRange == Cap \in Nat /\ Cap <= MaxIdx * FullLen /\ MaxIdx * FullLen \in Nat
<1>1. Cap = Addr(LastIdx) + LastLen /\ Addr(LastIdx) \in Nat
    BY AddrRange, DownloadAssumption DEF Cap, Addr
<1>2. Addr(LastIdx) + FullLen <= Addr(MaxIdx + 1)
    BY AddrApart, DownloadAssumption
<1>3. Addr(MaxIdx + 1) = MaxIdx * FullLen /\ MaxIdx * FullLen \in Nat
    BY DownloadAssumption DEF Addr
<1> QED
    BY <1>1, <1>2, <1>3, DownloadAssumption

\* The payload of a chunk that passed the checks lies inside the sector.
LEMMA ChunkInSector ==
    ASSUME LinkOK, InSector
    PROVE  /\ Addr(cur.idx) \in Nat /\ Addr(cur.idx) + cur.len <= Cap
           /\ Addr(cur.idx + 1) = Addr(cur.idx) + FullLen
           /\ cur.len \in 0..FullLen
           /\ \A i \in 0..(cur.len - 1) : Addr(cur.idx) + i \in Sector5
<1>1. cur.idx \in 1..LastIdx /\ cur.idx \in Nat \ {0} /\ cur.len \in 0..FullLen
    BY FrameSizeRange, DownloadAssumption DEF InSector
<1>2. Addr(cur.idx) \in Nat /\ Addr(cur.idx + 1) = Addr(cur.idx) + FullLen
    BY <1>1, AddrRange
<1>3. Cap = Addr(LastIdx) + LastLen /\ Addr(LastIdx) \in Nat
    BY AddrRange, DownloadAssumption DEF Cap, Addr
<1>4. Addr(cur.idx) + cur.len <= Cap
    <2>1. CASE cur.idx = LastIdx
        BY <1>1, <1>3, <2>1, DownloadAssumption DEF InSector
    <2>2. CASE cur.idx # LastIdx
        <3>1. Addr(cur.idx) + FullLen <= Addr(LastIdx)
            BY <1>1, <2>2, AddrApart, DownloadAssumption
        <3> QED
            BY <1>1, <1>2, <1>3, <3>1, DownloadAssumption
    <2> QED
        BY <2>1, <2>2
<1>5. \A i \in 0..(cur.len - 1) : Addr(cur.idx) + i \in Sector5
    BY <1>1, <1>2, <1>4, CapRange DEF Sector5, Position
<1> QED
    BY <1>1, <1>2, <1>4, <1>5

-----------------------------------------------------------------------------
(* Steps that leave the flash alone                                        *)

\* The history and the flash keep what they have.
LEMMA KeepStored ==
    ASSUME FlashInv, UNCHANGED <<flash, acked, reported>>
    PROVE  /\ (acked \subseteq File \X (1..LastIdx))'
           /\ AckedIsStored' /\ SectorHeld'
BY DEF FlashInv, AckedIsStored, SectorHeld, Stored

LEMMA FlashInit == Init => FlashInv
<1> SUFFICES ASSUME Init PROVE FlashInv
    OBVIOUS
<1>1. TurnInv /\ WriteInv
    BY DEF Init, TurnInv, WriteInv
<1>2. AckedIsStored /\ SectorHeld
    BY DEF Init, AckedIsStored, SectorHeld
<1> QED
    BY <1>1, <1>2 DEF Init, FlashInv

LEMMA FlashConnect ==
    ASSUME FlashInv, NEW f \in File, Connect(f) PROVE FlashInv'
<1>1. UNCHANGED <<flash, acked, reported>>
    BY DEF Connect, progVars, history
<1>2. TurnInv' /\ WriteInv'
    BY DEF Connect, TurnInv, WriteInv
<1> QED
    BY <1>1, <1>2, KeepStored DEF FlashInv

LEMMA FlashSendFrame ==
    ASSUME TypeOK, LinkInv, FlashInv, NEW ok \in BOOLEAN, SendFrame(ok)
    PROVE  FlashInv'
<1>1. /\ UNCHANGED <<flash, acked, reported, acks, pc, sIdx>> /\ cur'.idx = sIdx
      /\ ~sWait /\ ~sDone /\ sWait'
    BY DEF SendFrame, progVars, history
<1>2. NoAnswer /\ pc \notin {"fill", "words", "bytes", "ack"} /\ sIdx \in Nat
    BY <1>1, DownloadAssumption DEF LinkInv, Turn, TypeOK, LinkOK
<1>3. sIdx = 0 \/ Untouched(sIdx)
    BY <1>1, <1>2 DEF FlashInv, TurnInv
<1>4. sIdx = 0 \/ Untouched(sIdx)'
    BY <1>1, <1>3 DEF Untouched, BlankFrom
<1>5. TurnInv'
    BY <1>1, <1>2, <1>4 DEF TurnInv, NoAnswer, Untouched, BlankFrom
<1>6. WriteInv'
    BY <1>1, <1>2 DEF WriteInv
<1> QED
    BY <1>1, <1>5, <1>6, KeepStored DEF FlashInv

LEMMA FlashReadAck == TypeOK /\ LinkInv /\ FlashInv /\ ReadAck => FlashInv'
<1> SUFFICES ASSUME TypeOK, LinkInv, FlashInv, ReadAck PROVE FlashInv'
    OBVIOUS
<1>1. /\ acks \in Seq(0..6) /\ acks # <<>> /\ sIdx \in Nat
      /\ sWait \in BOOLEAN /\ sDone \in BOOLEAN /\ acks[1] \in 0..6
    BY DownloadAssumption DEF TypeOK, BooleansOK, LinkOK, ReadAck
<1>2. /\ 1 \in DOMAIN acks /\ Head(acks) = acks[1]
      /\ \A i \in DOMAIN acks' : i + 1 \in DOMAIN acks /\ acks'[i] = acks[i + 1]
                                /\ i + 1 # 1
    BY <1>1 DEF ReadAck
<1>3. UNCHANGED <<flash, acked, reported, pc, cur, wire, code, off>>
    BY DEF ReadAck, progVars, history
<1>4. WriteInv'
    BY <1>3 DEF FlashInv, WriteInv, BlankFrom, Done, Stored
<1>5. CASE acks[1] = 6
    <2>1. sIdx' = sIdx
        BY <1>2, <1>5 DEF ReadAck
    <2>2. sDone'
        BY <1>2, <1>5 DEF ReadAck
    <2>3. TurnInv'
        BY <1>2, <1>3, <2>1, <2>2 DEF FlashInv, TurnInv, Untouched, BlankFrom
    <2> QED
        BY <1>3, <1>4, <2>3, KeepStored DEF FlashInv
<1>6. CASE acks[1] # 6
    <2>1. wire = 0 /\ pc \in {"none", "recv", "close"}
        BY <1>2, <1>6 DEF LinkInv, Turn, NoAnswer
    <2>2. \A i \in DOMAIN acks' : acks'[i] = 6
        BY <1>2, <1>6 DEF LinkInv, Turn
    <2>3. ~sDone' /\ sIdx' > 0 => Untouched(sIdx')
        <3>1. CASE acks[1] \in {0, 1}
            <4>1. Untouched(sIdx + 1)
                BY <1>2, <3>1 DEF FlashInv, TurnInv
            <4>2. sDone' \/ sIdx' = sIdx + 1
                BY <1>2, <3>1 DEF ReadAck
            <4> QED
                BY <4>1, <4>2
        <3>2. CASE acks[1] = 5
            BY <1>2, <3>2 DEF ReadAck
        <3>3. CASE acks[1] \notin {0, 1, 5}
            <4>1. sIdx = 0 \/ Untouched(sIdx)
                BY <1>2, <1>6, <3>3 DEF FlashInv, TurnInv
            <4>2. sIdx' = sIdx
                BY <1>2, <3>3 DEF ReadAck
            <4> QED
                BY <4>1, <4>2
        <3> QED
            BY <3>1, <3>2, <3>3
    <2>4. ~sDone' /\ sIdx' > 0 => Untouched(sIdx)'
        BY <2>3, <1>3 DEF Untouched, BlankFrom
    <2>5. TurnInv'
        BY <1>3, <2>1, <2>2, <2>4 DEF TurnInv
    <2> QED
        BY <1>3, <1>4, <2>5, KeepStored DEF FlashInv
<1> QED
    BY <1>5, <1>6

LEMMA FlashNewFile ==
    ASSUME TypeOK, LinkInv, FlashInv, NEW f \in File, NewFile(f) PROVE FlashInv'
<1>1. UNCHANGED <<flash, acked, reported, acks, pc, wire, cur, code>>
      /\ ~sWait /\ sIdx' = 0
    BY DEF NewFile, progVars, history
<1>2. NoAnswer /\ wire = 0 /\ pc \notin {"fill", "words", "bytes", "ack"}
    BY <1>1 DEF LinkInv, Turn, TypeOK, LinkOK
<1>3. TurnInv'
    BY <1>1, <1>2 DEF TurnInv, NoAnswer
<1>4. WriteInv'
    BY <1>1, <1>2 DEF WriteInv
<1> QED
    BY <1>1, <1>3, <1>4, KeepStored DEF FlashInv

\* Bytes are lost or taken out of the stream, or a frame is given up.
LEMMA FlashStream ==
    ASSUME TypeOK, LinkInv, FlashInv,
           PeerCloses \/ ConnReset \/ RecvMore \/ Abandon
    PROVE  FlashInv'
<1>1. /\ UNCHANGED <<flash, acked, reported, acks, cur, sIdx, off, code>>
      /\ sWait' = sWait /\ sDone' = sDone
    BY DEF PeerCloses, ConnReset, RecvMore, Abandon, peerVars, progVars, history
<1>2. pc' = pc \/ pc' = "close"
    BY DEF PeerCloses, ConnReset, RecvMore, Abandon
<1>3. wire' > 0 => wire > 0 \/ pc = "fill"
    BY DEF PeerCloses, ConnReset, RecvMore, Abandon, TypeOK, LinkOK
<1>4. TurnInv'
    BY <1>1, <1>2, <1>3 DEF FlashInv, TurnInv, Untouched, BlankFrom
<1>5. WriteInv'
    BY <1>1, <1>2 DEF FlashInv, WriteInv, BlankFrom, Done, Stored
<1> QED
    BY <1>1, <1>4, <1>5, KeepStored DEF FlashInv

LEMMA FlashRecv == TypeOK /\ LinkInv /\ FlashInv /\ Recv => FlashInv'
<1> SUFFICES ASSUME TypeOK, LinkInv, FlashInv, Recv PROVE FlashInv'
    OBVIOUS
<1>1. /\ UNCHANGED <<flash, acked, reported, acks, cur, sIdx, off, code>>
      /\ sWait' = sWait /\ sDone' = sDone
    BY DEF Recv, peerVars, progVars, history
<1>2. pc' \in {"fill", "close"}
    BY DEF Recv, FirstBytes
<1>3. wire' > 0 \/ pc' = "fill" => wire > 0
    BY RecvTakes
<1>4. TurnInv'
    BY <1>1, <1>2, <1>3 DEF FlashInv, TurnInv, Untouched, BlankFrom
<1>5. WriteInv'
    BY <1>2 DEF WriteInv
<1> QED
    BY <1>1, <1>4, <1>5, KeepStored DEF FlashInv

LEMMA FlashRefuseFrame == TypeOK /\ LinkInv /\ FlashInv /\ RefuseFrame => FlashInv'
<1> SUFFICES ASSUME TypeOK, LinkInv, FlashInv, RefuseFrame PROVE FlashInv'
    OBVIOUS
<1>1. /\ UNCHANGED <<flash, acked, reported, acks, cur, sIdx, wire>>
      /\ sWait' = sWait /\ pc' = "ack" /\ code' \in {3, 4, 5}
    BY DEF RefuseFrame, peerVars, progVars, history
<1>2. Received /\ pc = "fill"
    BY DEF RefuseFrame, Received
<1>3. sWait /\ NoAnswer
    BY <1>2, ReceivedWhole
<1>4. cur.idx = 0 \/ Untouched(cur.idx)
    BY <1>2 DEF FlashInv, TurnInv
<1>5. TurnInv'
    BY <1>1, <1>3, <1>4 DEF TurnInv, Untouched, BlankFrom, NoAnswer
<1>6. WriteInv'
    BY <1>1 DEF WriteInv
<1> QED
    BY <1>1, <1>5, <1>6, KeepStored DEF FlashInv

LEMMA FlashBeginWrite == TypeOK /\ LinkInv /\ FlashInv /\ BeginWrite => FlashInv'
<1> SUFFICES ASSUME TypeOK, LinkInv, FlashInv, BeginWrite PROVE FlashInv'
    OBVIOUS
<1>1. /\ UNCHANGED <<flash, acked, reported, acks, cur, sIdx, wire>>
      /\ sWait' = sWait /\ pc' = "words" /\ off' = 0
    BY DEF BeginWrite, peerVars, progVars, history
<1>2. Received /\ pc = "fill" /\ cur.idx # 0
    BY DEF BeginWrite, Received, Verdict
<1>3. sWait /\ NoAnswer /\ wire = 0 /\ cur.idx \in Nat \ {0}
    BY <1>2, ReceivedWhole, DownloadAssumption
<1>4. Untouched(cur.idx) /\ Addr(cur.idx) \in Nat
    BY <1>2, <1>3, AddrRange DEF FlashInv, TurnInv
<1>5. TurnInv'
    BY <1>1, <1>3 DEF TurnInv, NoAnswer
<1>6. BlankFrom(Addr(cur.idx) + off)'
    BY <1>1, <1>4 DEF Untouched, BlankFrom
<1>7. Done' /\ \A c \in acked' : c[2] < cur'.idx
    BY <1>1, <1>4 DEF Untouched, Done
<1>8. WriteInv'
    BY <1>1, <1>6, <1>7 DEF WriteInv
<1> QED
    BY <1>1, <1>5, <1>8, KeepStored DEF FlashInv

LEMMA FlashEndWrite == TypeOK /\ LinkInv /\ FlashInv /\ EndWrite => FlashInv'
<1> SUFFICES ASSUME TypeOK, LinkInv, FlashInv, EndWrite PROVE FlashInv'
    OBVIOUS
<1>1. /\ UNCHANGED <<flash, acked, reported, acks, cur, sIdx, wire, off>>
      /\ sWait' = sWait /\ pc' = "ack" /\ code' = 1 /\ pc = "bytes" /\ number = 0
    BY DEF EndWrite, peerVars, history
<1>2. /\ sWait /\ NoAnswer /\ wire = 0 /\ InSector /\ off + number = cur.len
      /\ cur.idx = sIdx /\ cur.file = sFile /\ off \in Nat
      /\ cur.len = IF sIdx = 0 THEN 0 ELSE ChunkLen(sFile, sIdx)
    BY <1>1 DEF LinkInv, Turn, Buffered, Answers, Outstanding, TypeOK, TaskOK
<1>3. /\ Addr(cur.idx) \in Nat /\ Addr(cur.idx + 1) = Addr(cur.idx) + FullLen
      /\ cur.len \in 0..FullLen /\ off = cur.len
      /\ cur.idx \in Nat \ {0} /\ cur.len = ChunkLen(cur.file, cur.idx)
    BY <1>1, <1>2, ChunkInSector, DownloadAssumption DEF InSector, TypeOK
<1>4. /\ \A c \in acked : c[2] < cur.idx /\ c[2] \in Int
      /\ BlankFrom(Addr(cur.idx) + off) /\ Done
    BY <1>1 DEF FlashInv, WriteInv
<1>5. BlankFrom(Addr(cur.idx + 1))
    BY <1>3, <1>4, DownloadAssumption DEF BlankFrom, Sector5, Position
<1>6. \A c \in acked : c[2] < cur.idx + 1
    BY <1>3, <1>4
<1>7. TurnInv'
    BY <1>1, <1>2, <1>5, <1>6 DEF TurnInv, NoAnswer, Untouched, BlankFrom
<1>8. cur.idx \in reported \/ 0 \in reported \/ Stored(cur.file, cur.idx)
    BY <1>3, <1>4 DEF Done, Stored
<1>9. WriteInv'
    BY <1>1, <1>8 DEF WriteInv, Stored
<1> QED
    BY <1>1, <1>7, <1>9, KeepStored DEF FlashInv

LEMMA FlashSendAck == TypeOK /\ LinkInv /\ FlashInv /\ SendAck => FlashInv'
<1> SUFFICES ASSUME TypeOK, LinkInv, FlashInv, SendAck PROVE FlashInv'
    OBVIOUS
<1>1. /\ UNCHANGED <<flash, reported, cur, sIdx, wire>>
      /\ sWait' = sWait /\ pc = "ack" /\ pc' \in {"recv", "close"}
    BY DEF SendAck, peerVars, progVars
<1>2. /\ sWait /\ NoAnswer /\ wire = 0 /\ cur.idx = sIdx /\ sIdx \in Nat
      /\ cur.file \in File
    BY <1>1, FrameSizeRange, DownloadAssumption
       DEF LinkInv, Turn, Buffered, Outstanding, TypeOK, LinkOK
<1>3. /\ acks \in Seq(0..6) /\ code \in 0..6
      /\ acks' = acks \/ acks' = Append(acks, code)
    BY DEF TypeOK, LinkOK, TaskOK, SendAck
<1>4. \A i \in DOMAIN acks' : acks'[i] = 6 \/ acks'[i] = code
    BY <1>2, <1>3 DEF NoAnswer
<1>5. acked' = IF code = 1 THEN acked \cup {<<cur.file, cur.idx>>} ELSE acked
    BY DEF SendAck
<1>6. code = 1 => cur.idx \in 1..LastIdx
    BY <1>1 DEF LinkInv, Answers, InSector
<1>7. (acked \subseteq File \X (1..LastIdx))'
    BY <1>2, <1>5, <1>6 DEF FlashInv
<1>8. IF code \in {0, 1} THEN Untouched(sIdx + 1) ELSE sIdx = 0 \/ Untouched(sIdx)
    BY <1>1, <1>2 DEF FlashInv, TurnInv
<1>9. IF code \in {0, 1} THEN Untouched(sIdx + 1)' ELSE sIdx = 0 \/ Untouched(sIdx)'
    BY <1>1, <1>2, <1>5, <1>8 DEF Untouched, BlankFrom
<1>10. TurnInv'
    BY <1>1, <1>2, <1>4, <1>9 DEF TurnInv
<1>11. WriteInv'
    BY <1>1 DEF WriteInv
<1>12. AckedIsStored'
    <2>1. code = 1 => \/ cur.idx \in reported \/ 0 \in reported
                      \/ Stored(cur.file, cur.idx)
        BY <1>1 DEF FlashInv, WriteInv
    <2> QED
        BY <1>1, <1>5, <2>1 DEF FlashInv, AckedIsStored, Stored
<1>13. SectorHeld'
    BY <1>1 DEF FlashInv, SectorHeld
<1> QED
    BY <1>7, <1>10, <1>11, <1>12, <1>13 DEF FlashInv

LEMMA FlashClose == FlashInv /\ Close => FlashInv'
<1> SUFFICES ASSUME FlashInv, Close PROVE FlashInv'
    OBVIOUS
<1>1. /\ UNCHANGED <<flash, acked, reported, acks, cur, sIdx, code, off>>
      /\ sWait' = sWait /\ sDone' = sDone /\ wire' = 0 /\ pc' = "none"
    BY DEF Close, peerVars, progVars, history
<1>2. TurnInv'
    BY <1>1 DEF FlashInv, TurnInv, Untouched, BlankFrom
<1>3. WriteInv'
    BY <1>1 DEF WriteInv
<1> QED
    BY <1>1, <1>2, <1>3, KeepStored DEF FlashInv

LEMMA FlashSame ==
    ASSUME FlashInv, UNCHANGED <<flash, acked, reported, acks, cur, sIdx, sWait, sDone,
                                 wire, pc, code, off>>
    PROVE  FlashInv'
<1>1. TurnInv'
    BY DEF FlashInv, TurnInv, Untouched, BlankFrom
<1>2. WriteInv'
    BY DEF FlashInv, WriteInv, BlankFrom, Done, Stored
<1> QED
    BY <1>1, <1>2, KeepStored DEF FlashInv

LEMMA FlashStopTaskSends == TypeOK /\ FlashInv /\ StopTaskSends => FlashInv'
<1> SUFFICES ASSUME TypeOK, FlashInv, StopTaskSends PROVE FlashInv'
    OBVIOUS
<1>1. /\ UNCHANGED <<flash, acked, reported, cur, sIdx, code, off, wire, pc>>
      /\ sWait' = sWait /\ sDone' = sDone
    BY DEF StopTaskSends, peerVars, progVars, history
<1>2. /\ acks \in Seq(0..6)
      /\ acks' = acks \/ acks' = Append(acks, 6)
    BY DEF TypeOK, LinkOK, StopTaskSends
<1>3. \A i \in DOMAIN acks' : acks'[i] # 6 => i \in DOMAIN acks /\ acks'[i] = acks[i]
    BY <1>2
<1>4. TurnInv'
    BY <1>1, <1>3 DEF FlashInv, TurnInv, Untouched, BlankFrom
<1>5. WriteInv'
    BY <1>1 DEF FlashInv, WriteInv, BlankFrom, Done, Stored
<1> QED
    BY <1>1, <1>4, <1>5, KeepStored DEF FlashInv

-----------------------------------------------------------------------------
(* Steps that erase                                                        *)

LEMMA ErasedSector ==
    ASSUME NEW S \in SUBSET Sector5, SectorHeld, flash' = Erased(S)
    PROVE  /\ SectorHeld'
           /\ \A p \in Position : flash'[p] = flash[p] \/ flash'[p] = Blank
           /\ S = Sector5 => \A p \in Sector5 : flash'[p] = Blank
BY DEF Erased, SectorHeld, Sector5

LEMMA FlashEraseForFile == TypeOK /\ LinkInv /\ FlashInv /\ EraseForFile => FlashInv'
<1> SUFFICES ASSUME TypeOK, LinkInv, FlashInv, EraseForFile PROVE FlashInv'
    OBVIOUS
<1>1. /\ UNCHANGED <<acks, cur, sIdx, wire>> /\ sWait' = sWait
      /\ pc' = "ack" /\ code' = 0 /\ acked' = {}
    BY DEF EraseForFile, peerVars
<1>2. Received
    BY DEF EraseForFile
<1>3. sWait /\ NoAnswer /\ wire = 0
    BY <1>2, ReceivedWhole
<1>4. \/ 0 \in reported' /\ flash' = flash
      \/ flash' = Erased(Sector5)
    BY DEF EraseForFile
<1>5. SectorHeld' /\ (0 \in reported' \/ \A p \in Sector5 : flash'[p] = Blank)
    <2>1. CASE flash' = flash /\ 0 \in reported'
        BY <2>1 DEF FlashInv, SectorHeld
    <2>2. CASE flash' = Erased(Sector5)
        BY <2>2, ErasedSector DEF FlashInv
    <2> QED
        BY <1>4, <2>1, <2>2
<1>6. Untouched(cur.idx + 1)'
    BY <1>1, <1>5 DEF Untouched, BlankFrom
<1>7. TurnInv'
    BY <1>1, <1>3, <1>6 DEF TurnInv, NoAnswer
<1>8. WriteInv'
    BY <1>1 DEF WriteInv
<1>9. AckedIsStored'
    BY <1>1 DEF AckedIsStored
<1> QED
    BY <1>1, <1>5, <1>7, <1>8, <1>9 DEF FlashInv

LEMMA FlashEraseCommand ==
    ASSUME FlashInv, NEW busy \in BOOLEAN, EraseCommand(busy) PROVE FlashInv'
<1>1. UNCHANGED <<acked, acks, cur, sIdx, sWait, sDone, wire, pc, code, off>>
    BY DEF EraseCommand, peerVars
<1>2. CASE busy
    BY <1>1, <1>2, FlashSame DEF EraseCommand
<1>3. CASE ~busy
    <2>1. flash' = Erased(Sector5) /\ 0 \in reported'
        BY <1>3 DEF EraseCommand
    <2>2. SectorHeld'
        BY <2>1, ErasedSector DEF FlashInv
    <2>3. TurnInv'
        BY <1>1, <2>1 DEF FlashInv, TurnInv, Untouched, BlankFrom
    <2>4. WriteInv'
        BY <1>1, <2>1 DEF FlashInv, WriteInv, BlankFrom, Done
    <2>5. AckedIsStored'
        BY <2>1 DEF AckedIsStored
    <2> QED
        BY <1>1, <2>2, <2>3, <2>4, <2>5 DEF FlashInv
<1> QED
    BY <1>2, <1>3

-----------------------------------------------------------------------------
(* Steps that program                                                      *)

\* What a write has at its cursor.
LEMMA CursorInSector ==
    ASSUME TypeOK, LinkInv, FlashInv, pc \in {"words", "bytes"},
           NEW n \in Nat, n <= number
    PROVE  /\ Addr(cur.idx) \in Nat /\ off \in Nat /\ off + n <= cur.len
           /\ cur.idx \in 1..LastIdx /\ cur.len \in 0..FullLen
           /\ Addr(cur.idx + 1) = Addr(cur.idx) + FullLen
           /\ have = Hdr + cur.len
           /\ AtCursor(n) \subseteq Sector5
           /\ \A p \in AtCursor(n) : \/ 0 \in reported
                                     \/ /\ flash[p] = Blank
                                        /\ Program(n)[p] = Byte(cur.file, p)
<1>1. /\ InSector /\ off + number = cur.len /\ have = Hdr + cur.len
      /\ off \in Nat /\ number \in Nat
    BY DEF LinkInv, Buffered, Answers, TypeOK, TaskOK
<1>2. /\ Addr(cur.idx) \in Nat /\ Addr(cur.idx) + cur.len <= Cap
      /\ Addr(cur.idx + 1) = Addr(cur.idx) + FullLen
      /\ cur.len \in 0..FullLen
    BY <1>1, ChunkInSector DEF TypeOK
<1>3. off + n <= cur.len
    BY <1>1, <1>2
<1>4. \A p \in AtCursor(n) : /\ p \in Sector5 /\ p \in Int
                             /\ Addr(cur.idx) + off <= p
                             /\ p < Addr(cur.idx) + cur.len
    BY <1>1, <1>2, <1>3, CapRange DEF AtCursor, Sector5, Position
<1>5. BlankFrom(Addr(cur.idx) + off)
    BY DEF FlashInv, WriteInv
<1>6. ASSUME NEW p \in AtCursor(n), 0 \notin reported
      PROVE  flash[p] = Blank /\ Program(n)[p] = Byte(cur.file, p)
    <2>1. flash[p] = Blank
        BY <1>4, <1>5, <1>6 DEF BlankFrom
    <2>2. Hdr + (p - Addr(cur.idx)) < have
        BY <1>1, <1>2, <1>4, DownloadAssumption
    <2>3. Payload(p) = Byte(cur.file, p)
        BY <2>2 DEF Payload
    <2>4. Program(n)[p] = Programmed(flash[p], Payload(p))
        BY DEF Program, AtCursor
    <2> QED
        BY <2>1, <2>3, <2>4 DEF Programmed
<1> QED
    BY <1>1, <1>2, <1>3, <1>4, <1>6 DEF InSector

\* The chunks in front of the one being written keep their bytes.
LEMMA AckedBelow ==
    ASSUME FlashInv, cur.idx \in 1..LastIdx, \A c \in acked : c[2] < cur.idx,
           \A p \in Position : p < Addr(cur.idx) => flash'[p] = flash[p],
           acked' = acked, reported \subseteq reported'
    PROVE  AckedIsStored'
<1> SUFFICES ASSUME NEW c \in acked, c[2] \notin reported, 0 \notin reported,
                    NEW i \in 0..(ChunkLen(c[1], c[2]) - 1)
             PROVE  flash'[Addr(c[2]) + i] = Byte(c[1], Addr(c[2]) + i)
    BY DEF AckedIsStored, Stored
<1>1. /\ c[1] \in File /\ c[2] \in Nat \ {0} /\ c[2] < cur.idx
      /\ cur.idx \in Nat \ {0} /\ MaxIdx + 1 \in Nat \ {0} /\ cur.idx < MaxIdx + 1
    BY DownloadAssumption DEF FlashInv
<1>2. ChunkLen(c[1], c[2]) \in 1..FullLen
    BY <1>1, ChunkLenRange
<1>3. /\ Addr(c[2]) \in Nat /\ Addr(cur.idx) \in Nat
      /\ Addr(c[2]) + FullLen <= Addr(cur.idx)
      /\ Addr(cur.idx) + FullLen <= Addr(MaxIdx + 1)
    BY <1>1, AddrRange, AddrApart
<1>4. Addr(MaxIdx + 1) = MaxIdx * FullLen /\ MaxIdx * FullLen \in Nat
    BY DownloadAssumption, CapRange DEF Addr
<1>5. Addr(c[2]) + i \in Position /\ Addr(c[2]) + i < Addr(cur.idx)
    BY <1>2, <1>3, <1>4, DownloadAssumption DEF Position
<1>6. flash[Addr(c[2]) + i] = Byte(c[1], Addr(c[2]) + i)
    BY DEF FlashInv, AckedIsStored, Stored
<1> QED
    BY <1>5, <1>6

\* A word or byte that is programmed extends what is written and shortens what
\* is blank.
LEMMA WritesOn ==
    ASSUME TypeOK, LinkInv, FlashInv, pc \in {"words", "bytes"},
           NEW n \in Nat, n <= number, Programs(n), UNCHANGED <<cur, acked>>
    PROVE  /\ AckedIsStored' /\ SectorHeld' /\ Done'
           /\ BlankFrom(Addr(cur.idx) + off)'
<1>1. /\ Addr(cur.idx) \in Nat /\ off \in Nat /\ off + n <= cur.len
      /\ cur.idx \in 1..LastIdx /\ cur.len \in 0..FullLen
      /\ AtCursor(n) \subseteq Sector5
      /\ \A p \in AtCursor(n) : \/ 0 \in reported
                                \/ /\ flash[p] = Blank
                                   /\ Program(n)[p] = Byte(cur.file, p)
    BY CursorInSector
<1>2. /\ flash' = Program(n) /\ off' = off + n
      /\ reported' = reported /\ cur' = cur /\ acked' = acked
    BY DEF Programs
<1>3. /\ \A c \in acked : c[2] < cur.idx
      /\ BlankFrom(Addr(cur.idx) + off) /\ Done
    BY DEF FlashInv, WriteInv
<1>4. \A p \in Position \ AtCursor(n) : flash'[p] = flash[p]
    BY <1>2 DEF Program
<1>5. AckedIsStored'
    <2>1. \A p \in Position : p < Addr(cur.idx) => flash'[p] = flash[p]
        BY <1>1, <1>4 DEF AtCursor, Position
    <2> QED
        BY <1>1, <1>2, <1>3, <2>1, AckedBelow
<1>6. SectorHeld'
    BY <1>1, <1>4 DEF FlashInv, SectorHeld
<1>7. Done'
    <2>1. ASSUME cur.idx \notin reported, 0 \notin reported,
                 NEW i \in 0..(off + n - 1)
          PROVE  flash'[Addr(cur.idx) + i] = Byte(cur.file, Addr(cur.idx) + i)
        <3>1. Addr(cur.idx) + i \in Position
            BY <1>1, ChunkInSector DEF LinkInv, Answers, TypeOK, Sector5
        <3>2. CASE i < off
            <4>1. Addr(cur.idx) + i \notin AtCursor(n)
                BY <1>1, <3>2 DEF AtCursor
            <4>2. flash[Addr(cur.idx) + i] = Byte(cur.file, Addr(cur.idx) + i)
                BY <1>1, <1>3, <2>1, <3>2 DEF Done
            <4> QED
                BY <1>4, <3>1, <4>1, <4>2
        <3>3. CASE ~(i < off)
            <4>1. Addr(cur.idx) + i \in AtCursor(n)
                BY <1>1, <3>1, <3>3 DEF AtCursor
            <4> QED
                BY <1>1, <1>2, <2>1, <4>1
        <3> QED
            BY <3>2, <3>3
    <2>2. off' - 1 = off + n - 1
        BY <1>1, <1>2
    <2> QED
        BY <1>2, <2>1, <2>2 DEF Done
<1>8. BlankFrom(Addr(cur.idx) + off)'
    <2> SUFFICES ASSUME 0 \notin reported, NEW p \in Sector5,
                        p >= Addr(cur.idx) + (off + n)
                 PROVE  flash'[p] = Blank
        BY <1>2 DEF BlankFrom
    <2>1. p \in Position /\ p \in Int
        BY CapRange DEF Sector5, Position
    <2>2. p \notin AtCursor(n) /\ p >= Addr(cur.idx) + off
        BY <1>1, <2>1 DEF AtCursor
    <2>3. flash[p] = Blank
        BY <1>3, <2>2 DEF BlankFrom
    <2> QED
        BY <1>4, <2>1, <2>2, <2>3
<1> QED
    BY <1>5, <1>6, <1>7, <1>8

LEMMA FlashWriteWord == TypeOK /\ LinkInv /\ FlashInv /\ WriteWord => FlashInv'
<1> SUFFICES ASSUME TypeOK, LinkInv, FlashInv, WriteWord PROVE FlashInv'
    OBVIOUS
<1>1. /\ UNCHANGED <<acked, acks, cur, sIdx, wire>> /\ sWait' = sWait
      /\ pc = "words" /\ pc' \in {"words", "bytes"}
    BY DEF WriteWord, peerVars
<1>2. sWait /\ NoAnswer /\ wire = 0
    BY <1>1 DEF LinkInv, Turn, Buffered
<1>3. TurnInv'
    BY <1>1, <1>2 DEF TurnInv, NoAnswer
<1>4. /\ \A c \in acked : c[2] < cur.idx
      /\ BlankFrom(Addr(cur.idx) + off) /\ Done
    BY <1>1 DEF FlashInv, WriteInv
<1>5. CASE WordLeft /\ Programs(WordLen)
    <2>1. WordLen \in Nat /\ WordLen <= number
        BY <1>5, DownloadAssumption DEF WordLeft, TypeOK, TaskOK
    <2>2. AckedIsStored' /\ SectorHeld' /\ Done' /\ BlankFrom(Addr(cur.idx) + off)'
        BY <1>1, <1>5, <2>1, WritesOn
    <2>3. WriteInv'
        BY <1>1, <1>4, <2>2 DEF WriteInv
    <2> QED
        BY <1>1, <1>3, <2>2, <2>3 DEF FlashInv
<1>6. CASE UNCHANGED <<flash, off>> /\ reported \subseteq reported'
    <2>1. AckedIsStored' /\ SectorHeld'
        BY <1>1, <1>6 DEF FlashInv, AckedIsStored, SectorHeld, Stored
    <2>2. WriteInv'
        BY <1>1, <1>4, <1>6 DEF WriteInv, BlankFrom, Done
    <2> QED
        BY <1>1, <1>3, <2>1, <2>2 DEF FlashInv
<1> QED
    BY <1>5, <1>6 DEF WriteWord, ProgramFails

LEMMA FlashWriteByte == TypeOK /\ LinkInv /\ FlashInv /\ WriteByte => FlashInv'
<1> SUFFICES ASSUME TypeOK, LinkInv, FlashInv, WriteByte PROVE FlashInv'
    OBVIOUS
<1>1. /\ UNCHANGED <<acked, acks, cur, sIdx, wire>> /\ sWait' = sWait
      /\ pc = "bytes" /\ 1 <= number
    BY DEF WriteByte, peerVars, TypeOK, TaskOK
<1>2. sWait /\ NoAnswer /\ wire = 0
    BY <1>1 DEF LinkInv, Turn, Buffered
<1>3. /\ \A c \in acked : c[2] < cur.idx
      /\ BlankFrom(Addr(cur.idx) + off) /\ Done
    BY <1>1 DEF FlashInv, WriteInv
<1>4. CASE Programs(1) /\ pc' = pc
    <2>1. AckedIsStored' /\ SectorHeld' /\ Done' /\ BlankFrom(Addr(cur.idx) + off)'
        BY <1>1, <1>4, WritesOn
    <2>2. TurnInv'
        BY <1>1, <1>2, <1>4 DEF TurnInv, NoAnswer
    <2>3. WriteInv'
        BY <1>1, <1>3, <1>4, <2>1 DEF WriteInv
    <2> QED
        BY <1>1, <2>1, <2>2, <2>3 DEF FlashInv
<1>5. CASE ProgramFails /\ pc' = "ack" /\ code' = 1
    <2>1. /\ Addr(cur.idx) \in Nat /\ off \in Nat /\ off + 1 <= cur.len
          /\ cur.idx \in 1..LastIdx /\ cur.len \in 0..FullLen
          /\ Addr(cur.idx + 1) = Addr(cur.idx) + FullLen
        BY <1>1, CursorInSector
    <2>2. BlankFrom(Addr(cur.idx + 1))
        BY <1>3, <2>1, CapRange, DownloadAssumption DEF BlankFrom, Sector5, Position
    <2>3. \A c \in acked : c[2] < cur.idx + 1
        BY <1>3, <2>1, DownloadAssumption DEF FlashInv
    <2>4. /\ flash' = flash /\ reported \subseteq reported' /\ cur'.idx \in reported'
        BY <1>1, <1>5 DEF ProgramFails
    <2>5. TurnInv'
        BY <1>1, <1>2, <1>5, <2>2, <2>3, <2>4
           DEF TurnInv, NoAnswer, Untouched, BlankFrom
    <2>6. WriteInv'
        BY <1>5, <2>4 DEF WriteInv
    <2>7. AckedIsStored' /\ SectorHeld'
        BY <1>1, <2>4 DEF FlashInv, AckedIsStored, SectorHeld, Stored
    <2> QED
        BY <1>1, <2>5, <2>6, <2>7 DEF FlashInv
<1> QED
    BY <1>4, <1>5 DEF WriteByte

\* Power fails: what was being programmed lies behind everything acknowledged.
LEMMA FlashPowerLoss == TypeOK /\ LinkInv /\ FlashInv /\ PowerLoss => FlashInv'
<1> SUFFICES ASSUME TypeOK, LinkInv, FlashInv, PowerLoss PROVE FlashInv'
    OBVIOUS
<1>1. wire' = 0 /\ pc' = "none" /\ acks' = <<>> /\ sDone'
    BY DEF PowerLoss
<1>2. TurnInv' /\ WriteInv'
    BY <1>1 DEF TurnInv, WriteInv
<1>3. CASE /\ pc \in {"words", "bytes"} /\ number > 0 /\ UNCHANGED history
           /\ flash' \in Torn(IF pc = "words" /\ WordLeft THEN WordLen ELSE 1)
    <2> DEFINE n == IF pc = "words" /\ WordLeft THEN WordLen ELSE 1
    <2>1. n \in Nat /\ n <= number
        BY <1>3, DownloadAssumption DEF WordLeft, TypeOK, TaskOK
    <2>2. /\ Addr(cur.idx) \in Nat /\ off \in Nat /\ cur.idx \in 1..LastIdx
          /\ AtCursor(n) \subseteq Sector5
        BY <1>3, <2>1, CursorInSector
    <2>3. PICK New \in SUBSET AtCursor(n), Between \in SUBSET AtCursor(n) :
            flash' = [p \in Position |-> IF p \in New THEN Program(n)[p]
                                         ELSE IF p \in Between THEN Garbled
                                         ELSE flash[p]]
        BY <1>3 DEF Torn
    <2>4. \A p \in Position \ AtCursor(n) : flash'[p] = flash[p]
        BY <2>3
    <2> HIDE DEF n
    <2>5. \A p \in Position : p < Addr(cur.idx) => flash'[p] = flash[p]
        BY <2>2, <2>4 DEF AtCursor, Position
    <2>6. acked' = acked /\ reported' = reported /\ \A c \in acked : c[2] < cur.idx
        BY <1>3 DEF history, FlashInv, WriteInv
    <2>7. AckedIsStored'
        BY <2>2, <2>5, <2>6, AckedBelow
    <2>8. SectorHeld'
        BY <2>2, <2>4 DEF FlashInv, SectorHeld
    <2> QED
        BY <1>2, <2>6, <2>7, <2>8 DEF FlashInv
<1>4. CASE acked' = {} /\ \E S \in SUBSET Sector5 : flash' = Erased(S)
    <2>1. SectorHeld'
        BY <1>4, ErasedSector DEF FlashInv
    <2>2. AckedIsStored'
        BY <1>4 DEF AckedIsStored
    <2> QED
        BY <1>2, <1>4, <2>1, <2>2 DEF FlashInv
<1>5. CASE UNCHANGED <<flash, history>>
    BY <1>2, <1>5, KeepStored DEF FlashInv, history
<1> QED
    BY <1>3, <1>4, <1>5 DEF PowerLoss

LEMMA FlashInvNext == TypeOK /\ LinkInv /\ FlashInv /\ [Next]_vars => FlashInv'
<1> SUFFICES ASSUME TypeOK, LinkInv, FlashInv, [Next]_vars PROVE FlashInv'
    OBVIOUS
<1>1. CASE Receiver
    <2>1. CASE Recv \/ RecvMore \/ Abandon
        BY <2>1, FlashRecv, FlashStream
    <2>2. CASE RefuseFrame \/ EraseForFile \/ BeginWrite
        BY <2>2, FlashRefuseFrame, FlashEraseForFile, FlashBeginWrite
    <2>3. CASE WriteWord \/ WriteByte \/ EndWrite
        BY <2>3, FlashWriteWord, FlashWriteByte, FlashEndWrite
    <2>4. CASE SendAck \/ Close
        BY <2>4, FlashSendAck, FlashClose
    <2> QED
        BY <1>1, <2>1, <2>2, <2>3, <2>4 DEF Receiver
<1>2. CASE Environment
    <2>1. ASSUME NEW f \in File, Connect(f) \/ NewFile(f) PROVE FlashInv'
        BY <2>1, FlashConnect, FlashNewFile
    <2>2. ASSUME NEW ok \in BOOLEAN, SendFrame(ok) PROVE FlashInv'
        BY <2>2, FlashSendFrame
    <2>3. CASE ReadAck \/ PeerCloses \/ ConnReset
        BY <2>3, FlashReadAck, FlashStream
    <2> QED
        BY <1>2, <2>1, <2>2, <2>3 DEF Environment
<1>3. CASE Operator
    <2>1. CASE Pause \/ Continue \/ Stop
        BY <2>1, FlashSame DEF Pause, Continue, Stop, peerVars, progVars, history
    <2>2. CASE StopTaskSends
        BY <2>2, FlashStopTaskSends
    <2>3. ASSUME NEW busy \in BOOLEAN, EraseCommand(busy) PROVE FlashInv'
        BY <2>3, FlashEraseCommand
    <2>4. CASE PowerLoss
        BY <2>4, FlashPowerLoss
    <2> QED
        BY <1>3, <2>1, <2>2, <2>3, <2>4 DEF Operator
<1>4. CASE UNCHANGED vars
    BY <1>4, FlashSame DEF vars, peerVars, progVars, history
<1> QED
    BY <1>1, <1>2, <1>3, <1>4 DEF Next

LEMMA Invariant == Spec => []IInv
<1>1. Init => IInv
    BY TypeInit, LinkInit, FlashInit DEF IInv
<1>2. IInv /\ [Next]_vars => IInv'
    BY TypeNext, LinkInvNext, FlashInvNext DEF IInv
<1> QED
    BY <1>1, <1>2, PTL DEF Spec

-----------------------------------------------------------------------------
(* Theorems                                                                *)

\* A chunk answered 0x01 is in flash at its address, byte for byte, until the
\* next announcement, unless the console was told of a failure: through every
\* segmentation, refusal, reconnection, pause, stop and loss of power.
THEOREM AcknowledgedIsStored == Spec => []AckedIsStored
<1>1. IInv => AckedIsStored
    BY DEF IInv, FlashInv
<1> QED
    BY <1>1, Invariant, PTL

\* The test of idx == 188 keeps the image inside the sector, for every size of
\* sector and chunk and every peer that stops a file when a chunk is refused.
THEOREM ImageInsideSector == Spec => []SectorHeld
<1>1. IInv => SectorHeld
    BY DEF IInv, FlashInv
<1> QED
    BY <1>1, Invariant, PTL

\* Only erased bytes are programmed, unless an erase failed or the operator
\* erased in the middle of a file.
THEOREM ProgramsErasedOnly == Spec => NoOverprogramming
<1>1. IInv /\ [Next]_vars => ByteOnce
    <2> SUFFICES ASSUME IInv, [Next]_vars PROVE ByteOnce
        OBVIOUS
    <2>1. TypeOK /\ LinkInv /\ FlashInv /\ SectorHeld
        BY DEF IInv, FlashInv
    <2>2. CASE UNCHANGED flash
        BY <2>2 DEF ByteOnce
    <2>3. ASSUME NEW S \in SUBSET Sector5, flash' = Erased(S) PROVE ByteOnce
        BY <2>1, <2>3, ErasedSector DEF ByteOnce
    <2>4. ASSUME NEW n \in Nat, n <= number, pc \in {"words", "bytes"},
                 \A p \in Position \ AtCursor(n) : flash'[p] = flash[p]
          PROVE  ByteOnce
        BY <2>1, <2>4, CursorInSector DEF ByteOnce
    <2>5. ASSUME NEW n \in Nat, n <= number, pc \in {"words", "bytes"}, Programs(n)
          PROVE  ByteOnce
        BY <2>4, <2>5 DEF Programs, Program
    <2>6. CASE WriteWord
        <3>1. WordLeft => WordLen \in Nat /\ WordLen <= number
            BY <2>1, DownloadAssumption DEF WordLeft, TypeOK, TaskOK
        <3> QED
            BY <2>2, <2>5, <2>6, <3>1 DEF WriteWord, ProgramFails
    <2>7. CASE WriteByte
        <3>1. 1 \in Nat /\ 1 <= number
            BY <2>1, <2>7 DEF WriteByte, TypeOK, TaskOK
        <3> QED
            BY <2>2, <2>5, <2>7, <3>1 DEF WriteByte, ProgramFails
    <2>8. CASE EraseForFile
        BY <2>2, <2>3, <2>8 DEF EraseForFile
    <2>9. CASE \E busy \in BOOLEAN : EraseCommand(busy)
        BY <2>2, <2>3, <2>9 DEF EraseCommand
    <2>10. CASE PowerLoss
        <3>1. ASSUME NEW n \in Nat, n <= number, pc \in {"words", "bytes"},
                     flash' \in Torn(n)
              PROVE  ByteOnce
            <4>1. \A p \in Position \ AtCursor(n) : flash'[p] = flash[p]
                BY <3>1 DEF Torn
            <4> QED
                BY <2>4, <3>1, <4>1
        <3>2. pc = "words" /\ WordLeft => WordLen \in Nat /\ WordLen <= number
            BY <2>1, DownloadAssumption DEF WordLeft, TypeOK, TaskOK
        <3>3. number > 0 => 1 \in Nat /\ 1 <= number
            BY <2>1 DEF TypeOK, TaskOK
        <3> QED
            BY <2>2, <2>3, <2>10, <3>1, <3>2, <3>3 DEF PowerLoss
    <2>11. CASE Receiver
        BY <2>2, <2>6, <2>7, <2>8, <2>11
           DEF Receiver, Recv, RecvMore, Abandon, RefuseFrame, BeginWrite, EndWrite,
               SendAck, Close, progVars
    <2>12. CASE Environment
        BY <2>2, <2>12 DEF Environment, Connect, NewFile, SendFrame, ReadAck,
                           PeerCloses, ConnReset, progVars
    <2>13. CASE Operator
        BY <2>2, <2>9, <2>10, <2>13 DEF Operator, Pause, Continue, Stop,
                                        StopTaskSends, progVars
    <2> QED
        BY <2>2, <2>11, <2>12, <2>13 DEF Next, vars, progVars
<1> QED
    BY <1>1, Invariant, PTL DEF Spec, NoOverprogramming

-----------------------------------------------------------------------------
(* The receiving task implements FileTransfer                              *)

\* The flash takes what it is given and nobody erases it from the console.
FlashWorks == \A b \in Budgets : b["fault"] = 0 /\ b["erase"] = 0

\* Then no fault and no erase is ever left to happen, none was reported, and
\* nobody locks the flash while it is written.
NoTrouble ==
    /\ budget["fault"] = 0 /\ budget["erase"] = 0 /\ reported = {}
    /\ pc \in {"words", "bytes"} => ~locked

LEMMA TroubleInit == ASSUME FlashWorks PROVE Init => NoTrouble
BY DEF FlashWorks, Init, NoTrouble

LEMMA TroubleNext == TypeOK /\ NoTrouble /\ [Next]_vars => NoTrouble'
<1> SUFFICES ASSUME TypeOK, NoTrouble, [Next]_vars PROVE NoTrouble'
    OBVIOUS
<1>1. ~Spend("fault") /\ ~Spend("erase")
    BY DEF NoTrouble, Spend
<1>2. ASSUME NEW e \in Event, Spend(e)
      PROVE  budget'["fault"] = 0 /\ budget'["erase"] = 0
    BY <1>1, <1>2 DEF NoTrouble, Spend, TypeOK, FlashOK
<1>3. ASSUME Receiver PROVE NoTrouble'
    <2>1. ASSUME Recv \/ RecvMore \/ Abandon PROVE NoTrouble'
        BY <2>1 DEF NoTrouble, Recv, FirstBytes, RecvMore, Abandon, history, progVars
    <2>2. ASSUME RefuseFrame \/ BeginWrite \/ EndWrite PROVE NoTrouble'
        BY <2>2 DEF NoTrouble, RefuseFrame, BeginWrite, EndWrite, history, progVars
    <2>3. ASSUME EraseForFile PROVE NoTrouble'
        BY <1>1, <2>3 DEF NoTrouble, EraseForFile
    <2>4. ASSUME WriteWord PROVE NoTrouble'
        <3>1. budget' = budget /\ reported' = reported /\ locked' = locked
            BY <1>1, <2>4 DEF NoTrouble, WriteWord, Programs, ProgramFails
        <3> QED
            BY <2>4, <3>1 DEF NoTrouble, WriteWord
    <2>5. ASSUME WriteByte PROVE NoTrouble'
        <3>1. Programs(1) /\ UNCHANGED <<pc, locked>>
            BY <1>1, <2>5 DEF NoTrouble, WriteByte, ProgramFails
        <3> QED
            BY <3>1 DEF NoTrouble, Programs
    <2>6. ASSUME SendAck \/ Close PROVE NoTrouble'
        BY <2>6 DEF NoTrouble, SendAck, Close, history, progVars
    <2> QED
        BY <1>3, <2>1, <2>2, <2>3, <2>4, <2>5, <2>6 DEF Receiver
<1>4. ASSUME Environment PROVE NoTrouble'
    <2>1. ASSUME NEW f \in File, Connect(f) PROVE NoTrouble'
        BY <1>2, <2>1 DEF NoTrouble, Connect, history, progVars, Event
    <2>2. ASSUME NEW f \in File, NewFile(f) PROVE NoTrouble'
        BY <1>2, <2>2 DEF NoTrouble, NewFile, history, progVars, Event
    <2>3. ASSUME NEW ok \in BOOLEAN, SendFrame(ok) PROVE NoTrouble'
        BY <1>2, <2>3 DEF NoTrouble, SendFrame, history, progVars, Event
    <2>4. ASSUME ReadAck \/ PeerCloses \/ ConnReset PROVE NoTrouble'
        BY <2>4 DEF NoTrouble, ReadAck, PeerCloses, ConnReset, history, progVars
    <2> QED
        BY <1>4, <2>1, <2>2, <2>3, <2>4 DEF Environment
<1>5. ASSUME Operator PROVE NoTrouble'
    <2>1. ASSUME Pause \/ Stop PROVE NoTrouble'
        BY <1>2, <2>1 DEF NoTrouble, Pause, Stop, history, progVars, Event
    <2>2. ASSUME Continue \/ StopTaskSends PROVE NoTrouble'
        BY <2>2 DEF NoTrouble, Continue, StopTaskSends, history, progVars
    <2>3. \A busy \in BOOLEAN : ~EraseCommand(busy)
        BY <1>1 DEF EraseCommand
    <2>4. ASSUME PowerLoss PROVE NoTrouble'
        <3>1. Spend("reset") /\ pc' = "none" /\ reported' \in {reported, {}}
            BY <2>4 DEF PowerLoss, history
        <3> QED
            BY <1>2, <3>1 DEF NoTrouble, Event
    <2> QED
        BY <1>5, <2>1, <2>2, <2>3, <2>4 DEF Operator
<1>6. ASSUME UNCHANGED vars PROVE NoTrouble'
    BY <1>6 DEF vars, NoTrouble, history, progVars
<1> QED
    BY <1>3, <1>4, <1>5, <1>6 DEF Next

\* Chunks have bytes, none of them blank or garbled, and bytes of different
\* chunks are different bytes.
LEMMA ChunkBytes ==
    ASSUME NEW c \in AllChunks
    PROVE  /\ c[1] \in File /\ c[2] \in Nat \ {0} /\ c = <<c[1], c[2]>>
           /\ Addr(c[2]) \in Nat /\ ChunkLen(c[1], c[2]) \in 1..FullLen
           /\ \A i \in 0..(ChunkLen(c[1], c[2]) - 1) : Addr(c[2]) + i \in Position
<1>1. c[1] \in File /\ c[2] \in 1..MaxIdx /\ c = <<c[1], c[2]>>
    BY DEF AllChunks
<1>2. c[2] \in Nat \ {0} /\ MaxIdx + 1 \in Nat \ {0} /\ c[2] < MaxIdx + 1
    BY <1>1, DownloadAssumption
<1>3. Addr(c[2]) \in Nat /\ ChunkLen(c[1], c[2]) \in 1..FullLen
    BY <1>1, <1>2, AddrRange, ChunkLenRange
<1>4. Addr(c[2]) + FullLen <= Addr(MaxIdx + 1)
    BY <1>2, AddrApart
<1>5. Addr(MaxIdx + 1) = MaxIdx * FullLen /\ MaxIdx * FullLen \in Nat
    BY DownloadAssumption, CapRange DEF Addr
<1>6. \A i \in 0..(ChunkLen(c[1], c[2]) - 1) : Addr(c[2]) + i \in Position
    BY <1>3, <1>4, <1>5, DownloadAssumption DEF Position
<1> QED
    BY <1>1, <1>2, <1>3, <1>6

\* Erasing takes stored chunks away and adds none.
LEMMA ErasingLoses ==
    ASSUME NEW S, flash' = Erased(S) PROVE StoredChunks' \subseteq StoredChunks
<1> SUFFICES ASSUME NEW c \in AllChunks, Stored(c[1], c[2])' PROVE Stored(c[1], c[2])
    BY DEF StoredChunks, AllChunks
<1>1. ASSUME NEW i \in 0..(ChunkLen(c[1], c[2]) - 1)
      PROVE  flash[Addr(c[2]) + i] = Byte(c[1], Addr(c[2]) + i)
    <2>1. Addr(c[2]) + i \in Position /\ c[1] \in File
        BY ChunkBytes
    <2>2. flash'[Addr(c[2]) + i] = Byte(c[1], Addr(c[2]) + i)
        BY DEF Stored
    <2>3. Byte(c[1], Addr(c[2]) + i) # Blank
        BY <2>1, DownloadAssumption DEF Byte, Blank
    <2> QED
        BY <2>1, <2>2, <2>3 DEF Erased
<1> QED
    BY <1>1 DEF Stored

\* Programming, finished or cut short, takes no stored chunk away and completes
\* at most the chunk that is being written.
LEMMA ProgrammingStores ==
    ASSUME TypeOK, LinkInv, FlashInv, reported = {}, pc \in {"words", "bytes"},
           NEW n \in Nat, n <= number,
           \A p \in Position \ AtCursor(n) : flash'[p] = flash[p],
           \A p \in AtCursor(n) : flash'[p] \in {Blank, Garbled, Byte(cur.file, p)}
    PROVE  \/ StoredChunks' = StoredChunks
           \/ \E c \in AllChunks : /\ c \notin StoredChunks
                                    /\ StoredChunks' = StoredChunks \cup {c}
<1>1. /\ Addr(cur.idx) \in Nat /\ off \in Nat /\ off + n <= cur.len
      /\ cur.idx \in 1..LastIdx /\ cur.len \in 0..FullLen
      /\ \A p \in AtCursor(n) : flash[p] = Blank
    BY CursorInSector
<1>2. ASSUME NEW c \in StoredChunks PROVE c \in StoredChunks'
    <2>1. c \in AllChunks /\ Stored(c[1], c[2])
        BY DEF StoredChunks
    <2>2. ASSUME NEW i \in 0..(ChunkLen(c[1], c[2]) - 1)
          PROVE  flash'[Addr(c[2]) + i] = Byte(c[1], Addr(c[2]) + i)
        <3>1. Addr(c[2]) + i \in Position /\ c[1] \in File
            BY <2>1, ChunkBytes
        <3>2. flash[Addr(c[2]) + i] = Byte(c[1], Addr(c[2]) + i)
            BY <2>1 DEF Stored
        <3>3. flash[Addr(c[2]) + i] # Blank
            BY <3>1, <3>2, DownloadAssumption DEF Byte, Blank
        <3> QED
            BY <1>1, <3>1, <3>2, <3>3
    <2> QED
        BY <2>1, <2>2 DEF StoredChunks, AllChunks, Stored
<1>3. ASSUME NEW c \in StoredChunks', c \notin StoredChunks
      PROVE  c \in AllChunks /\ c = <<cur.file, cur.idx>>
    <2>1. c \in AllChunks /\ Stored(c[1], c[2])' /\ ~Stored(c[1], c[2])
        BY <1>3 DEF StoredChunks, AllChunks
    <2>2. PICK i \in 0..(ChunkLen(c[1], c[2]) - 1) :
            flash[Addr(c[2]) + i] # Byte(c[1], Addr(c[2]) + i)
        BY <2>1 DEF Stored
    <2>3. /\ c[1] \in File /\ c[2] \in Nat \ {0} /\ c = <<c[1], c[2]>>
          /\ Addr(c[2]) \in Nat /\ ChunkLen(c[1], c[2]) \in 1..FullLen
          /\ Addr(c[2]) + i \in Position
        BY <2>1, ChunkBytes
    <2> DEFINE p == Addr(c[2]) + i
    <2>4. flash'[p] = Byte(c[1], p)
        BY <2>1 DEF Stored
    <2>5. p \in AtCursor(n)
        BY <2>2, <2>3, <2>4
    <2>6. Byte(c[1], p) # Blank /\ Byte(c[1], p) # Garbled
        BY <2>3, DownloadAssumption DEF Byte, Blank, Garbled
    <2>7. c[1] = cur.file
        <3> HIDE DEF p
        <3>1. flash'[p] \in {Blank, Garbled, Byte(cur.file, p)}
            BY <2>5
        <3>2. <<c[1], p>> = <<cur.file, p>>
            BY <2>4, <2>6, <3>1 DEF Byte
        <3> QED
            BY <3>2
    <2>8. /\ Addr(cur.idx) <= p /\ p < Addr(cur.idx) + FullLen
          /\ Addr(c[2]) <= p /\ p < Addr(c[2]) + FullLen
        <3>1. Addr(cur.idx) + off <= p /\ p < Addr(cur.idx) + off + n /\ p \in Int
            BY <2>3, <2>5 DEF AtCursor
        <3>2. FullLen \in Nat
            BY DownloadAssumption
        <3> HIDE DEF p
        <3>3. Addr(cur.idx) <= p /\ p < Addr(cur.idx) + FullLen
            BY <1>1, <3>1, <3>2
        <3>4. Addr(c[2]) <= p /\ p < Addr(c[2]) + FullLen
            BY <2>3, <3>2 DEF p
        <3> QED
            BY <3>3, <3>4
    <2>9. cur.idx \in Nat \ {0} /\ FullLen \in Nat /\ p \in Int
        BY <1>1, <2>3, DownloadAssumption
    <2> HIDE DEF p
    <2>10. ~(c[2] < cur.idx)
        BY <1>1, <2>3, <2>8, <2>9, AddrApart
    <2>11. ~(cur.idx < c[2])
        BY <1>1, <2>3, <2>8, <2>9, AddrApart
    <2> QED
        BY <2>1, <2>3, <2>7, <2>9, <2>10, <2>11
<1>4. ASSUME NEW c \in StoredChunks', c \notin StoredChunks
      PROVE  StoredChunks' = StoredChunks \cup {c}
    BY <1>2, <1>3, <1>4
<1> QED
    BY <1>2, <1>3, <1>4

\* Every step of the task, the peer and the operator is a step of FileTransfer
\* or changes nothing that FileTransfer knows.
LEMMA TransferStep ==
    ASSUME IInv, NoTrouble, [Next]_vars
    PROVE  [T!TransferNext]_<<StoredChunks, acked>>
<1>1. TypeOK /\ LinkInv /\ FlashInv /\ reported = {}
    BY DEF IInv, NoTrouble
<1>2. ASSUME flash' = flash PROVE StoredChunks' = StoredChunks
    BY <1>2 DEF StoredChunks, AllChunks, Stored
<1>3. ASSUME flash' = flash, acked' = acked
      PROVE  [T!TransferNext]_<<StoredChunks, acked>>
    BY <1>2, <1>3
<1>4. ASSUME NEW S, flash' = Erased(S), acked' = {}
      PROVE  [T!TransferNext]_<<StoredChunks, acked>>
    BY <1>4, ErasingLoses DEF T!TransferNext, T!Announce
<1>5. ASSUME NEW n \in Nat, n <= number, pc \in {"words", "bytes"}, acked' = acked,
             \A p \in Position \ AtCursor(n) : flash'[p] = flash[p],
             \A p \in AtCursor(n) : flash'[p] \in {Blank, Garbled, Byte(cur.file, p)}
      PROVE  [T!TransferNext]_<<StoredChunks, acked>>
    <2>1. \/ StoredChunks' = StoredChunks
          \/ \E c \in AllChunks : /\ c \notin StoredChunks
                                   /\ StoredChunks' = StoredChunks \cup {c}
        BY <1>1, <1>5, ProgrammingStores
    <2> QED
        BY <1>5, <2>1 DEF T!TransferNext, T!Store
<1>6. ASSUME NEW n \in Nat, n <= number, pc \in {"words", "bytes"}, acked' = acked,
             \A p \in Position \ AtCursor(n) : flash'[p] = flash[p],
             \A p \in AtCursor(n) : flash'[p] \in {flash[p], Garbled, Program(n)[p]}
      PROVE  [T!TransferNext]_<<StoredChunks, acked>>
    <2>1. \A p \in AtCursor(n) : flash[p] = Blank /\ Program(n)[p] = Byte(cur.file, p)
        BY <1>1, <1>6, CursorInSector
    <2> QED
        BY <1>5, <1>6, <2>1
<1>7. ASSUME NEW n \in Nat, n <= number, pc \in {"words", "bytes"}, acked' = acked,
             Programs(n)
      PROVE  [T!TransferNext]_<<StoredChunks, acked>>
    <2>1. \A p \in Position : flash'[p] = Program(n)[p]
        BY <1>7 DEF Programs
    <2>2. AtCursor(n) \subseteq Position
        BY DEF AtCursor
    <2>3. \A p \in Position \ AtCursor(n) : flash'[p] = flash[p]
        BY <2>1 DEF Program
    <2> QED
        BY <1>6, <1>7, <2>1, <2>2, <2>3
<1>8. ASSUME Receiver PROVE [T!TransferNext]_<<StoredChunks, acked>>
    <2>1. ASSUME Recv \/ RecvMore \/ Abandon \/ RefuseFrame \/ BeginWrite
                 \/ EndWrite \/ Close
          PROVE  flash' = flash /\ acked' = acked
        BY <2>1 DEF Recv, RecvMore, Abandon, RefuseFrame, BeginWrite, EndWrite, Close,
                    history, progVars
    <2>2. ASSUME EraseForFile PROVE [T!TransferNext]_<<StoredChunks, acked>>
        <3>1. ~Spend("fault")
            BY DEF NoTrouble, Spend
        <3> QED
            BY <1>4, <2>2, <3>1 DEF EraseForFile
    <2>3. ASSUME WriteWord PROVE [T!TransferNext]_<<StoredChunks, acked>>
        <3>1. pc = "words" /\ acked' = acked
            BY <2>3 DEF WriteWord
        <3>2. ASSUME WordLeft, Programs(WordLen)
              PROVE  [T!TransferNext]_<<StoredChunks, acked>>
            <4>1. WordLen \in Nat /\ WordLen <= number
                BY <1>1, <3>2, DownloadAssumption DEF WordLeft, TypeOK, TaskOK
            <4> QED
                BY <1>7, <3>1, <3>2, <4>1
        <3> QED
            BY <1>3, <2>3, <3>1, <3>2 DEF WriteWord, ProgramFails
    <2>4. ASSUME WriteByte PROVE [T!TransferNext]_<<StoredChunks, acked>>
        <3>1. pc = "bytes" /\ acked' = acked /\ 1 \in Nat /\ 1 <= number
            BY <1>1, <2>4 DEF WriteByte, TypeOK, TaskOK
        <3>2. ASSUME Programs(1) PROVE [T!TransferNext]_<<StoredChunks, acked>>
            BY <1>7, <3>1, <3>2
        <3> QED
            BY <1>3, <2>4, <3>1, <3>2 DEF WriteByte, ProgramFails
    <2>5. ASSUME SendAck PROVE [T!TransferNext]_<<StoredChunks, acked>>
        <3>1. /\ pc = "ack" /\ flash' = flash
              /\ acked' = IF code = 1 THEN acked \cup {<<cur.file, cur.idx>>} ELSE acked
            BY <2>5 DEF SendAck, progVars
        <3>2. ASSUME code = 1 PROVE <<cur.file, cur.idx>> \in StoredChunks
            <4>1. /\ cur.idx \in 1..LastIdx /\ cur.file \in File
                  /\ cur.idx = sIdx /\ cur.file = sFile /\ sIdx \in 0..Frames[sFile]
                BY <1>1, <3>1, <3>2, FrameSizeRange, DownloadAssumption
                   DEF LinkInv, Turn, Buffered, Answers, InSector, Outstanding, TypeOK,
                       LinkOK
            <4>2. <<cur.file, cur.idx>> \in AllChunks
                BY <4>1, DownloadAssumption DEF AllChunks
            <4>3. Stored(cur.file, cur.idx)
                BY <1>1, <3>1, <3>2 DEF FlashInv, WriteInv
            <4> QED
                BY <4>2, <4>3 DEF StoredChunks
        <3>3. ASSUME code = 1 PROVE T!Acknowledge(<<cur.file, cur.idx>>)
            BY <1>2, <3>1, <3>2, <3>3 DEF T!Acknowledge
        <3>4. ASSUME code = 1 PROVE T!TransferNext
            BY <3>2, <3>3, <3>4 DEF T!TransferNext, StoredChunks
        <3> QED
            BY <1>3, <3>1, <3>4
    <2> QED
        BY <1>3, <1>8, <2>1, <2>2, <2>3, <2>4, <2>5 DEF Receiver
<1>9. ASSUME Environment PROVE flash' = flash /\ acked' = acked
    BY <1>9 DEF Environment, Connect, NewFile, SendFrame, ReadAck, PeerCloses, ConnReset,
                progVars, history
<1>10. ASSUME PowerLoss PROVE [T!TransferNext]_<<StoredChunks, acked>>
    <2>1. ASSUME NEW n \in Nat, n <= number, pc \in {"words", "bytes"}, acked' = acked,
                 flash' \in Torn(n)
          PROVE  [T!TransferNext]_<<StoredChunks, acked>>
        <3>1. PICK New \in SUBSET AtCursor(n), Between \in SUBSET AtCursor(n) :
                flash' = [p \in Position |-> IF p \in New THEN Program(n)[p]
                                             ELSE IF p \in Between THEN Garbled
                                             ELSE flash[p]]
            BY <2>1 DEF Torn
        <3>2. AtCursor(n) \subseteq Position
            BY DEF AtCursor
        <3>3. /\ \A p \in Position \ AtCursor(n) : flash'[p] = flash[p]
              /\ \A p \in AtCursor(n) : flash'[p] \in {flash[p], Garbled, Program(n)[p]}
            BY <3>1, <3>2
        <3> QED
            BY <1>6, <2>1, <3>3
    <2>2. ASSUME pc \in {"words", "bytes"}, number > 0, UNCHANGED history,
                 flash' \in Torn(IF pc = "words" /\ WordLeft THEN WordLen ELSE 1)
          PROVE  [T!TransferNext]_<<StoredChunks, acked>>
        <3>1. pc = "words" /\ WordLeft => WordLen \in Nat /\ WordLen <= number
            BY <1>1, DownloadAssumption DEF WordLeft, TypeOK, TaskOK
        <3>2. 1 \in Nat /\ 1 <= number /\ acked' = acked
            BY <1>1, <2>2 DEF TypeOK, TaskOK, history
        <3> QED
            BY <2>1, <2>2, <3>1, <3>2
    <2> QED
        BY <1>3, <1>4, <1>10, <2>2 DEF PowerLoss, history
<1>11. ASSUME Operator PROVE [T!TransferNext]_<<StoredChunks, acked>>
    <2>1. ASSUME Pause \/ Continue \/ Stop \/ StopTaskSends
          PROVE  flash' = flash /\ acked' = acked
        BY <2>1 DEF Pause, Continue, Stop, StopTaskSends, history, progVars
    <2>2. \A busy \in BOOLEAN : ~EraseCommand(busy)
        BY DEF EraseCommand, NoTrouble, Spend
    <2> QED
        BY <1>3, <1>10, <1>11, <2>1, <2>2 DEF Operator
<1>12. ASSUME UNCHANGED vars PROVE flash' = flash /\ acked' = acked
    BY <1>12 DEF vars, history, progVars
<1> QED
    BY <1>3, <1>8, <1>9, <1>11, <1>12 DEF Next

\* With a flash that works and no erasure from the console, the receiving task
\* implements FileTransfer: a chunk is acknowledged only when it is stored, and
\* only the announcement of a file takes stored chunks away, for every file,
\* segmentation, loss of the connection and loss of power.
THEOREM TransferImplemented == ASSUME FlashWorks PROVE Spec => ImplementsTransfer
<1>1. Init => T!TransferInit
    <2> SUFFICES ASSUME Init PROVE T!TransferInit
        OBVIOUS
    <2>1. ASSUME NEW c \in AllChunks PROVE ~Stored(c[1], c[2])
        <3>1. /\ ChunkLen(c[1], c[2]) \in 1..FullLen /\ c[1] \in File
              /\ \A i \in 0..(ChunkLen(c[1], c[2]) - 1) : Addr(c[2]) + i \in Position
            BY ChunkBytes
        <3>2. 0 \in 0..(ChunkLen(c[1], c[2]) - 1)
            BY <3>1, DownloadAssumption
        <3>3. flash[Addr(c[2]) + 0] = Blank
            BY <3>1, <3>2 DEF Init
        <3>4. Byte(c[1], Addr(c[2]) + 0) # Blank
            BY <3>1, DownloadAssumption DEF Byte, Blank
        <3> QED
            BY <3>2, <3>3, <3>4 DEF Stored
    <2>2. StoredChunks = {}
        BY <2>1 DEF StoredChunks
    <2> QED
        BY <2>2 DEF Init, T!TransferInit
<1>2. IInv /\ NoTrouble /\ [Next]_vars => [T!TransferNext]_<<StoredChunks, acked>>
    BY TransferStep
<1>3. Spec => []NoTrouble
    <2>1. IInv => TypeOK
        BY DEF IInv
    <2> QED
        BY TroubleInit, TroubleNext, Invariant, <2>1, PTL DEF Spec
<1> QED
    BY <1>1, <1>2, <1>3, Invariant, PTL DEF Spec, ImplementsTransfer, T!Transfer

=============================================================================
