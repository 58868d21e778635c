------------------------------ MODULE Download ------------------------------
(***************************************************************************)
(* The download of a program file into internal flash sector 5, as         *)
(* Rev_Server_File_task (the board dials out) and Rev_file_task (the board *)
(* listens) receive it.  A frame on the TCP stream is                      *)
(*     plc | idxHi idxLo | lenHi lenLo | payload,                          *)
(* idx 0 announces a file and erases the sector, idx k > 0 carries chunk   *)
(* k, and every frame is answered by one byte.                             *)
(*                                                                         *)
(* The peer is outside the repository.  It is modelled as the one-byte     *)
(* answers allow: it writes one frame and waits for its answer.  Under     *)
(* that discipline the stream holds bytes of one frame only, so bytes in   *)
(* flight and bytes received are kept as counts; Aligned states the fact   *)
(* that makes this abstraction exact; it is checked, and proved in         *)
(* DownloadProofs.                                                         *)
(***************************************************************************)
EXTENDS Integers, Sequences

CONSTANTS
    Hdr,          \* bytes of a frame header (5)
    FullLen,      \* payload bytes of a full frame, stride of the address (1400)
    LastIdx,      \* index of the frame that ends the sector (188)
    LastLen,      \* payload bytes of that frame that still fit (344)
    WordLen,      \* bytes programmed by one FLASH_TYPEPROGRAM_WORD (4)
    Width,        \* 2^16: newLength and lastLength wrap here
    Client,       \* TRUE: Rev_Server_File_task, FALSE: Rev_file_task
    File,         \* files the peer may send
    Frames,       \* frames in each file
    TailLen,      \* payload bytes of the last frame of each file
    MaxIdx,       \* no file has more frames than this
    Budgets       \* how often each of Event may happen: a behaviour has one of these

Event == {"connect", "file", "badplc", "fault", "erase", "stop", "pause",
          "reset"}

ASSUME DownloadAssumption ==
    /\ Hdr \in Nat \ {0} /\ FullLen \in Nat \ {0} /\ WordLen \in Nat \ {0}
    /\ LastIdx \in Nat \ {0} /\ LastLen \in 0..(FullLen - 1)
    /\ Width \in Nat /\ Width > 2 * (Hdr + FullLen + 1)
    /\ Client \in BOOLEAN
    /\ "blank" \notin File /\ "garbled" \notin File
    /\ MaxIdx \in Nat \ {0} /\ LastIdx <= MaxIdx
    /\ Frames \in [File -> 1..MaxIdx] /\ TailLen \in [File -> 1..FullLen]
    /\ Budgets \subseteq [Event -> Nat]

VARIABLES
    conn,        \* the TCP connection: "closed", "open", "eof", "rst"
    cur,         \* the frame the peer wrote last
    wire,        \* bytes of cur that recv() has not returned yet
    acks,        \* answers on their way to the peer
    sFile, sIdx, \* peer: the file it sends, the frame it sends next
    sWait,       \* peer: waiting for the answer to cur
    sDone,       \* peer: has no frame to send
    pc,          \* control point of the receiving task, "none": no task
    newLength, lastLength,  \* the task's variables of the same name
    have,        \* bytes really stored in receiveData
    flag,        \* the task's flag
    code,        \* buf[0], the answer about to be sent
    off, number, \* STMFLASH_WriteDate: bytes behind the cursor, bytes left
    flash,       \* contents of the flash from ADDR_FLASH_SECTOR_5 on
    locked,      \* FLASH_CR_LOCK
    paused,      \* the task is suspended by Pause_Download
    stopTask,    \* Stop_Download_task exists and has not sent yet
    acked,       \* history: chunks answered 0x01 since the last announcement
    reported,    \* history: chunks the console reported as failed, 0: sector
    budget       \* how often each may still happen

peerVars == <<sFile, sIdx, sWait, sDone>>
lenVars  == <<newLength, lastLength, have, flag>>
progVars == <<off, number, flash, locked>>
history  == <<acked, reported>>
opVars   == <<paused, stopTask>>
vars == <<conn, cur, wire, acks, peerVars, pc, lenVars, code, progVars,
          history, opVars, budget>>

Spend(e) == budget[e] > 0 /\ budget' = [budget EXCEPT ![e] = @ - 1]

-----------------------------------------------------------------------------
(* Frames and flash                                                        *)

BufSize == Hdr + FullLen
Cap     == (LastIdx - 1) * FullLen + LastLen        \* size of sector 5

Frame == [plc : BOOLEAN, idx : 0..MaxIdx, len : 0..FullLen, file : File]
FrameSize(fr) == IF fr.idx = 0 THEN Hdr ELSE Hdr + fr.len
ChunkLen(f, k) == IF k < Frames[f] THEN FullLen ELSE TailLen[f]

\* Mutant: forgets that chunks are numbered from 1.
AddrFromZero(k) == k * FullLen
Addr(k) == (k - 1) * FullLen

Position == 0..(MaxIdx * FullLen - 1)
Sector5  == {p \in Position : p < Cap}

Blank      == <<"blank", 0>>     \* an erased byte
Garbled    == <<"garbled", 0>>   \* bits of two different bytes
Byte(f, p) == <<f, p>>           \* byte p of file f
Cell == {Blank, Garbled} \cup {Byte(f, p) : f \in File, p \in Position}

\* Programming only clears bits: over anything but an erased byte, or the same
\* byte, it leaves a mixture.
Programmed(old, new) == IF old \in {Blank, new} THEN new ELSE Garbled

\* What receiveData holds for flash byte p: a payload byte of cur, or the zero
\* memset left there when that byte was never received.
Payload(p) == IF Hdr + (p - Addr(cur.idx)) < have THEN Byte(cur.file, p)
                                                  ELSE Garbled

\* The n flash bytes at the cursor, and the flash after programming them.
AtCursor(n) == {p \in Position : /\ Addr(cur.idx) + off <= p
                                 /\ p < Addr(cur.idx) + off + n}
Program(n) == [p \in Position |-> IF p \in AtCursor(n)
                                  THEN Programmed(flash[p], Payload(p))
                                  ELSE flash[p]]
\* Power fails while n bytes are programmed: each keeps its value, gets the new
\* one or is left between.
Torn(n) ==
    {[p \in Position |-> IF p \in New THEN Program(n)[p]
                         ELSE IF p \in Between THEN Garbled ELSE flash[p]] :
        New \in SUBSET AtCursor(n), Between \in SUBSET AtCursor(n)}

\* Mutant: the sector is not erased.
ErasedNothing(S) == flash
Erased(S) == [p \in Position |-> IF p \in S THEN Blank ELSE flash[p]]

\* Chunk k of file f is in flash, where the application looks for it.
Stored(f, k) ==
    \A i \in 0..(ChunkLen(f, k) - 1) :
        flash[Addr(k) + i] = Byte(f, Addr(k) + i)

-----------------------------------------------------------------------------
(* C integers: newLength is s16 in the client and u16 in the server,       *)
(* lastLength is u16 in both.                                              *)

Unsigned(x) == x % Width
Signed(x)   == IF 2 * Unsigned(x) < Width THEN Unsigned(x)
                                          ELSE Unsigned(x) - Width
Length(x)   == IF Client THEN Signed(x) ELSE Unsigned(x)

-----------------------------------------------------------------------------
Init ==
    /\ conn = "closed" /\ wire = 0 /\ acks = <<>>
    /\ sFile \in File /\ sIdx = 0 /\ sWait = FALSE /\ sDone = TRUE
    /\ cur = [plc |-> TRUE, idx |-> 0, len |-> 0, file |-> sFile]
    /\ pc = "none"
    /\ newLength = 0 /\ lastLength = 0 /\ have = 0 /\ flag = FALSE
    /\ code = 0 /\ off = 0 /\ number = 0
    /\ flash = [p \in Position |-> Blank] /\ locked = TRUE
    /\ paused = FALSE /\ stopTask = FALSE
    /\ acked = {} /\ reported = {}
    /\ budget \in Budgets

-----------------------------------------------------------------------------
(* The peer and the network                                                *)

\* connect() or accept() returned and the receiving task was created.
Connect(f) ==
    /\ pc = "none" /\ Spend("connect")
    /\ conn' = "open" /\ wire' = 0 /\ acks' = <<>>
    /\ sFile' = f /\ sIdx' = 0 /\ sWait' = FALSE /\ sDone' = FALSE
    /\ pc' = "recv" /\ paused' = FALSE
    /\ newLength' = 0 /\ lastLength' = 0 /\ have' = 0 /\ flag' = FALSE
    /\ UNCHANGED <<cur, code, progVars, history, stopTask>>

\* The peer writes a frame; a wrong PLC number is an operator's mistake.
SendFrame(ok) ==
    /\ conn = "open" /\ ~sWait /\ ~sDone
    /\ IF ok THEN UNCHANGED budget ELSE Spend("badplc")
    /\ cur' = [plc |-> ok, idx |-> sIdx, file |-> sFile,
               len |-> IF sIdx = 0 THEN 0 ELSE ChunkLen(sFile, sIdx)]
    /\ wire' = wire + FrameSize(cur')
    /\ sWait' = TRUE
    /\ UNCHANGED <<conn, acks, sFile, sIdx, sDone, pc, lenVars, code, progVars,
                   history, opVars>>

\* The peer acts on an answer: 0x00 and 0x01 take it to the next frame, 0x03
\* and 0x04 make it repeat the frame, 0x05 and 0x06 end the file.
ReadAck ==
    /\ acks # <<>>
    /\ LET a    == Head(acks)
           next == a \in {0, 1}
           last == sIdx >= Frames[sFile]
       IN /\ sWait' = (sWait /\ a = 6)
          /\ sIdx' = IF next /\ ~last THEN sIdx + 1 ELSE sIdx
          /\ sDone' = (sDone \/ (next /\ last) \/ a \in {5, 6})
    /\ acks' = Tail(acks)
    /\ UNCHANGED <<conn, cur, wire, sFile, pc, lenVars, code, progVars,
                   history, opVars, budget>>

\* After a file the peer may send another one on the same connection.
NewFile(f) ==
    /\ conn = "open" /\ sDone /\ ~sWait /\ Spend("file")
    /\ sFile' = f /\ sIdx' = 0 /\ sDone' = FALSE
    /\ UNCHANGED <<conn, cur, wire, acks, sWait, pc, lenVars, code, progVars,
                   history, opVars>>

\* The peer closes in good order, perhaps with a frame written only in part:
\* what is in flight is still delivered.
PeerCloses ==
    /\ conn = "open" /\ conn' = "eof" /\ wire' \in 0..wire
    /\ UNCHANGED <<cur, acks, peerVars, pc, lenVars, code, progVars,
                   history, opVars, budget>>

\* Reset by the peer or by keepalive: lwIP hands out no more queued data.
ConnReset ==
    /\ conn \in {"open", "eof"} /\ conn' = "rst" /\ wire' = 0
    /\ UNCHANGED <<cur, acks, peerVars, pc, lenVars, code, progVars, history,
                   opVars, budget>>

-----------------------------------------------------------------------------
(* The receiving task                                                      *)

\* What recv() with room for n bytes may return now; none while it blocks.
RecvResult(n) ==
    {r \in -1..wire :
        \/ conn = "rst" /\ r = -1
        \/ conn # "rst" /\ wire > 0 /\ (IF n <= 0 THEN r = 0 ELSE r \in 1..n)
        \/ conn = "eof" /\ wire = 0 /\ r = 0}

\* Mutant: the announced length is compared without the header.
FrameCompleteNoHeader == cur.idx = 0 \/ newLength = cur.len
FrameComplete == cur.idx = 0 \/ newLength = cur.len + Hdr

\* First recv() of a frame; an end of stream or an error ends the task.
FirstBytes(r) ==
    IF Length(r) <= 0 \/ Length(r) > BufSize
    THEN /\ newLength' = Length(r) /\ have' = 0 /\ pc' = "close"
         /\ UNCHANGED <<lastLength, wire>>
    ELSE /\ newLength' = Length(r) /\ lastLength' = r /\ have' = r
         /\ wire' = wire - r /\ pc' = "fill"
Recv ==
    /\ pc = "recv" /\ ~paused
    /\ \E r \in RecvResult(BufSize) : FirstBytes(r)
    /\ UNCHANGED <<conn, cur, acks, peerVars, flag, code, progVars, history,
                   opVars, budget>>

\* Mutant: an end of stream inside a frame is not recognised.
BrokenOverflowOnly(n) == n > BufSize
Broken(n) == n = lastLength \/ n > BufSize

\* The two loops that append to receiveData: until the header is there, then
\* until the length it announces is there.  An answer of recv() that is an
\* error (-1) is added to the length like any other.
MoreBytes(r) ==
    LET n == Length(lastLength + r) IN
    /\ newLength' = n
    /\ IF Broken(n)
       THEN flag' = TRUE /\ UNCHANGED <<lastLength, have, wire>>
       ELSE /\ lastLength' = Unsigned(n) /\ UNCHANGED flag
            /\ have' = IF r > 0 THEN have + r ELSE have
            /\ wire' = IF r > 0 THEN wire - r ELSE wire
RecvMore ==
    /\ pc = "fill" /\ ~paused /\ ~flag
    /\ newLength < Hdr \/ ~FrameComplete
    /\ \E r \in RecvResult(BufSize - lastLength) : MoreBytes(r)
    /\ UNCHANGED <<conn, cur, acks, peerVars, pc, code, progVars, history,
                   opVars, budget>>

\* flag==1 leaves the receive loop.  (A second loop entered with the flag set
\* only repeats the answer that set it.)
Abandon ==
    /\ pc = "fill" /\ ~paused /\ flag
    /\ pc' = "close"
    /\ UNCHANGED <<conn, cur, wire, acks, peerVars, lenVars, code, progVars,
                   history, opVars, budget>>

Received == pc = "fill" /\ ~paused /\ ~flag /\ newLength >= Hdr /\ FrameComplete

WrongLength == cur.len # newLength - Hdr
\* Mutant: an off-by-one in the length that still fits.
OverfullLoose == cur.idx = LastIdx /\ newLength - Hdr > LastLen + 1
Overfull == cur.idx = LastIdx /\ newLength - Hdr > LastLen


\* The checks of a complete frame in the order of the code, as the answer each
\* leads to.
Verdict == IF ~cur.plc THEN 3
           ELSE IF cur.idx = 0 THEN 0
           ELSE IF WrongLength THEN 4
           ELSE IF Overfull THEN 5 ELSE 1

RefuseFrame ==
    /\ Received /\ Verdict \in {3, 4, 5}
    /\ code' = Verdict /\ pc' = "ack"
    /\ UNCHANGED <<conn, cur, wire, acks, peerVars, lenVars, progVars, history,
                   opVars, budget>>

\* An announcement: STMFLASH_EraseSector, whose failure only reaches the
\* console, and 0x00.
EraseForFile ==
    /\ Received /\ Verdict = 0
    /\ \/ /\ flash' = Erased(Sector5) /\ reported' = {} /\ UNCHANGED budget
       \/ /\ Spend("fault") /\ reported' = {0} /\ UNCHANGED flash
    /\ acked' = {} /\ locked' = TRUE /\ code' = 0 /\ pc' = "ack"
    /\ UNCHANGED <<conn, cur, wire, acks, peerVars, lenVars, off, number,
                   opVars>>

\* A chunk: STMFLASH_WriteDate unlocks the flash and programs it step by step.
BeginWrite ==
    /\ Received /\ Verdict = 1
    /\ locked' = FALSE /\ off' = 0 /\ number' = newLength - Hdr
    /\ pc' = "words"
    /\ UNCHANGED <<conn, cur, wire, acks, peerVars, lenVars, code, flash,
                   history, opVars, budget>>

\* HAL_FLASH_Program fails on a locked flash, or because the device does.
ProgramFails ==
    /\ \/ locked /\ UNCHANGED budget
       \/ ~locked /\ Spend("fault")
    /\ reported' = reported \cup {cur.idx}
    /\ UNCHANGED <<flash, off, number>>
\* Mutant: the address is not advanced.
ProgramsInPlace(n) ==
    /\ ~locked /\ flash' = Program(n) /\ off' = off /\ number' = number - n
    /\ UNCHANGED <<reported, budget>>
Programs(n) ==
    /\ ~locked /\ flash' = Program(n) /\ off' = off + n /\ number' = number - n
    /\ UNCHANGED <<reported, budget>>

WordLeft == number >= WordLen

\* One turn of while(number>3); a failure leaves the loop for the next one.
WriteWord ==
    /\ pc = "words" /\ ~paused
    /\ \/ WordLeft /\ Programs(WordLen) /\ UNCHANGED pc
       \/ WordLeft /\ ProgramFails /\ pc' = "bytes"
       \/ /\ ~WordLeft /\ pc' = "bytes"
          /\ UNCHANGED <<reported, flash, off, number, budget>>
    /\ UNCHANGED <<conn, cur, wire, acks, peerVars, lenVars, code, locked,
                   acked, opVars>>

WriteByte ==
    /\ pc = "bytes" /\ ~paused /\ number > 0
    /\ \/ Programs(1) /\ UNCHANGED <<pc, locked, code>>
       \/ ProgramFails /\ pc' = "ack" /\ locked' = TRUE /\ code' = 1
    /\ UNCHANGED <<conn, cur, wire, acks, peerVars, lenVars, acked, opVars>>

EndWrite ==
    /\ pc = "bytes" /\ ~paused /\ number = 0
    /\ locked' = TRUE /\ code' = 1 /\ pc' = "ack"
    /\ UNCHANGED <<conn, cur, wire, acks, peerVars, lenVars, off, number,
                   flash, history, opVars, budget>>

\* send() of the answer; its result is not looked at.  The client leaves the
\* loop after a refusal, the server does not.
SendAck ==
    /\ pc = "ack" /\ ~paused
    /\ acks' = IF conn = "rst" THEN acks ELSE Append(acks, code)
    /\ acked' = IF code = 1 THEN acked \cup {<<cur.file, cur.idx>>} ELSE acked
    /\ pc' = IF Client /\ code \in {3, 4, 5} THEN "close" ELSE "recv"
    /\ UNCHANGED <<conn, cur, wire, peerVars, lenVars, code, progVars,
                   reported, opVars, budget>>

\* close() and OSTaskDel(OS_PRIO_SELF).
Close ==
    /\ pc = "close" /\ ~paused
    /\ conn' = "closed" /\ wire' = 0 /\ pc' = "none"
    /\ UNCHANGED <<cur, acks, peerVars, lenVars, code, progVars, history,
                   opVars, budget>>

-----------------------------------------------------------------------------
(* The operator's commands, run by usmart inside TIM4_IRQHandler           *)

Pause ==
    /\ Client /\ pc # "none" /\ ~paused /\ Spend("pause") /\ paused' = TRUE
    /\ UNCHANGED <<conn, cur, wire, acks, peerVars, pc, lenVars, code, progVars,
                   history, stopTask>>

Continue ==
    /\ Client /\ paused /\ paused' = FALSE
    /\ UNCHANGED <<conn, cur, wire, acks, peerVars, pc, lenVars, code, progVars,
                   history, stopTask, budget>>

\* Stop_Download resumes the task and creates Stop_Download_task (refused with
\* OS_ERR_PRIO_EXIST while the last one has not finished).
Stop ==
    /\ Client /\ Spend("stop") /\ paused' = FALSE /\ stopTask' = TRUE
    /\ UNCHANGED <<conn, cur, wire, acks, peerVars, pc, lenVars, code, progVars,
                   history>>

StopTaskSends ==
    /\ stopTask /\ stopTask' = FALSE
    /\ acks' = IF conn \in {"open", "eof"} THEN Append(acks, 6) ELSE acks
    /\ UNCHANGED <<conn, cur, wire, peerVars, pc, lenVars, code, progVars,
                   history, paused, budget>>

\* STMFLASH_EraseSector typed at the console: it may interrupt the task at any
\* point.  Inside HAL_FLASH_Program (busy) HAL_FLASHEx_Erase returns HAL_BUSY
\* and nothing is erased, but the flash is locked all the same.
EraseCommand(busy) ==
    /\ Spend("erase")
    /\ busy => pc \in {"words", "bytes"}
    /\ locked' = TRUE
    /\ IF busy THEN UNCHANGED <<flash, reported>>
               ELSE flash' = Erased(Sector5) /\ reported' = reported \cup {0}
    /\ UNCHANGED <<conn, cur, wire, acks, peerVars, pc, lenVars, code, off,
                   number, acked, opVars>>

\* Power goes and comes back.  A byte being programmed and a sector being
\* erased are left in any state between.
PowerLoss ==
    /\ Spend("reset")
    /\ pc' = "none" /\ conn' = "closed" /\ wire' = 0 /\ acks' = <<>>
    /\ sWait' = FALSE /\ sDone' = TRUE
    /\ paused' = FALSE /\ stopTask' = FALSE /\ locked' = TRUE
    /\ LET programming == pc \in {"words", "bytes"} /\ number > 0 /\ ~locked
           erasing     == Received /\ Verdict = 0
       IN \/ /\ programming /\ UNCHANGED history
             /\ flash' \in Torn(IF pc = "words" /\ WordLeft THEN WordLen ELSE 1)
          \/ /\ erasing /\ acked' = {} /\ reported' = {}
             /\ \E S \in SUBSET Sector5 : flash' = Erased(S)
          \/ /\ ~programming /\ ~erasing /\ UNCHANGED <<flash, history>>
    /\ UNCHANGED <<cur, sFile, sIdx, lenVars, code, off, number>>

-----------------------------------------------------------------------------
Receiver == \/ Recv \/ RecvMore \/ Abandon
            \/ RefuseFrame \/ EraseForFile \/ BeginWrite \/ WriteWord \/ WriteByte
            \/ EndWrite \/ SendAck \/ Close

Environment == \/ \E f \in File : Connect(f) \/ NewFile(f)
               \/ \E ok \in BOOLEAN : SendFrame(ok)
               \/ ReadAck \/ PeerCloses \/ ConnReset

Operator == \/ Pause \/ Continue \/ Stop \/ StopTaskSends
            \/ \E busy \in BOOLEAN : EraseCommand(busy)
            \/ PowerLoss

Next == Receiver \/ Environment \/ Operator

Spec == Init /\ [][Next]_vars

\* The task runs whenever it is ready: its priority is above every task that
\* can run for ever, and recv() wakes it.
FairSpec == Spec /\ WF_vars(Receiver)

-----------------------------------------------------------------------------
(* Properties                                                              *)

BooleansOK ==
    /\ sWait \in BOOLEAN /\ sDone \in BOOLEAN /\ flag \in BOOLEAN
    /\ locked \in BOOLEAN /\ paused \in BOOLEAN /\ stopTask \in BOOLEAN
LinkOK ==
    /\ conn \in {"closed", "open", "eof", "rst"}
    /\ cur \in Frame /\ wire \in Nat /\ acks \in Seq(0..6)
    /\ sFile \in File /\ sIdx \in 0..Frames[sFile]
TaskOK ==
    /\ pc \in {"none", "recv", "fill", "words", "bytes", "ack", "close"}
    /\ newLength \in -Width..Width /\ lastLength \in 0..(Width - 1)
    /\ have \in Nat /\ code \in 0..6 /\ off \in Nat /\ number \in Nat
FlashOK ==
    /\ flash \in [Position -> Cell]
    /\ acked \subseteq File \X (0..MaxIdx) /\ reported \subseteq 0..MaxIdx
    /\ budget \in [Event -> Nat]
TypeOK == BooleansOK /\ LinkOK /\ TaskOK /\ FlashOK

\* The bytes buffered and the bytes in flight make up exactly the frame the
\* peer is waiting on: no segmentation, refused frame, pause or stop command
\* makes the two reassembly loops keep or lose a byte of another frame.
Aligned ==
    /\ pc = "fill" => /\ have + wire = FrameSize(cur) \/ conn # "open"
                      /\ have + wire <= FrameSize(cur)
    /\ pc = "recv" => wire \in {0, FrameSize(cur)} \/ conn = "eof"
    /\ pc \in {"words", "bytes", "ack"} => wire = 0
    /\ ~sWait => wire = 0

\* A chunk answered 0x01 is in flash at its address, byte for byte, until the
\* next announcement, unless the console was told of a failed program of it, of
\* a failed erase, or the operator erased the sector himself: reassembly,
\* address arithmetic, the word and byte loops, resets of the connection or of
\* the board lose nothing that was acknowledged.
AckedIsStored ==
    \A c \in acked : \/ c[2] \in reported \/ 0 \in reported
                     \/ Stored(c[1], c[2])

\* Every frame gets one answer: a second one would be taken for the answer to
\* the next frame.
OneAnswer ==
    LET answers == {i \in DOMAIN acks : acks[i] # 6}
        working == pc \in {"words", "bytes", "ack"}
    IN /\ \A i, j \in answers : i = j
       /\ working => answers = {}
       /\ working \/ answers # {} => sWait

\* The length check of the receive loop never fires: the second reassembly loop
\* leaves no other way out (0x04 is dead code).
NeverWrongLength == code # 4

\* No byte behind sector 5 is programmed, for a peer that stops a file when a
\* chunk is refused: the test of idx == 188 alone keeps the image inside.
SectorHeld == \A p \in Position \ Sector5 : flash[p] = Blank

\* A byte of flash changes only from erased to programmed or back: chunks do
\* not overlap, a new file never meets bytes of the old one, an unfinished write
\* is not continued over.
ByteOnce ==
    \A p \in Position :
        \/ flash'[p] = flash[p] \/ flash[p] = Blank \/ flash'[p] = Blank
        \/ 0 \in reported
NoOverprogramming == [][ByteOnce]_vars

\* While the peer waits, its answer comes, unless the connection or the power
\* goes or the operator leaves the download paused: recv() is never called
\* for bytes that will not come.
Answered == (sWait /\ conn = "open") ~> (~sWait \/ acks # <<>> \/ conn # "open" \/ paused)

\* A lost connection is noticed: the reassembly loops end, although they take
\* the error value of recv() for a length.
LossNoticed == (conn \in {"eof", "rst"}) ~> (conn = "closed" \/ paused)

\* Neither a frame nor the end of the connection is left without a reaction,
\* wherever recv() cuts the one or meets the other.
NeverStuck == Answered /\ LossNoticed

\* What the comment at the answer 0x01 says ("file received"): an acknowledged
\* chunk is in flash.  Not so once a program operation fails.
AckMeansStored == \A c \in acked : Stored(c[1], c[2])

-----------------------------------------------------------------------------
(* What the peer may rely on                                               *)

\* The chunks of all files, and those that are in flash, byte for byte.
AllChunks    == {c \in File \X (1..MaxIdx) : c[2] <= Frames[c[1]]}
StoredChunks == {c \in AllChunks : Stored(c[1], c[2])}

T == INSTANCE FileTransfer WITH Chunk <- AllChunks, stored <- StoredChunks

\* The receiving task keeps the promise of FileTransfer as long as the flash
\* takes what it is given and the operator does not erase it.
ImplementsTransfer == T!Transfer

=============================================================================
