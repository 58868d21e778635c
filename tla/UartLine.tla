------------------------------ MODULE UartLine ------------------------------
(***************************************************************************)
(* The line editor of the serial console.  USART1_IRQHandler takes a byte  *)
(* out of the receiver and puts it into the line; usmart_scan, called by   *)
(* TIM4_IRQHandler, executes a line that is done.  The two interrupts have *)
(* the same priority and do not interrupt each other, and a command may    *)
(* take long, so bytes arrive that nobody takes: the receiver keeps the    *)
(* first and loses the others.                                             *)
(* The index of the line and the marks of CR and of a line that is done    *)
(* are one 16-bit word.  Text is letters; what a command is, is elsewhere. *)
(***************************************************************************)
EXTENDS Integers, Sequences

CONSTANTS RecLen,   \* USART_REC_LEN, the bytes of USART_RX_BUF
          Letters   \* what lines consist of

CR == "cr"          \* 0x0d
LF == "lf"          \* 0x0a
Nul == "nul"        \* '\0'
NoByte == "none"
Byte == Letters \cup {CR, LF}

\* usmart_scan() has eight bits for the length of a line.
ASSUME UartLineAssumption ==
    RecLen \in 1..256 /\ Letters \cap {CR, LF, Nul, NoByte} = {}

VARIABLES
    sta, buf,      \* USART_RX_STA, USART_RX_BUF
    rdr, ore,      \* the receiver: the byte that waits in RDR; overrun
    armed,         \* a reception is under way (RxState, and its interrupts)
    irq, rxne,     \* USART1_IRQHandler: "idle", "error", "take", "rearm"; whether
                   \* it saw a byte
    scan,          \* TIM4_IRQHandler: "idle", "exec"
    \* history: what the user typed
    key, line,     \* where he is in a line: "start", "text", "cr"; its text
    clean,         \* the console was at rest when he began, and lost nothing
    owed,          \* <<t>> if the clean line t has not been executed, else <<>>
    ended          \* LF was typed since the last line was executed

editor == <<sta, buf>>
receiver == <<rdr, ore, armed>>
handlers == <<irq, rxne, scan>>
user == <<key, line, clean, owed, ended>>
lineVars == <<editor, receiver, handlers, user>>

\* USART_RX_STA: bits 13 to 0, 14 and 15.
CrMark == 16384
DoneMark == 32768
Index == sta % CrMark
HasCR == sta % DoneMark >= CrMark
IsDone == sta >= DoneMark

LineInit ==
    /\ sta = 0 /\ buf = [i \in 0..(RecLen - 1) |-> Nul]
    /\ rdr = NoByte /\ ore = FALSE /\ armed = TRUE
    /\ irq = "idle" /\ rxne = FALSE /\ scan = "idle"
    /\ key = "start" /\ line = <<>> /\ clean = FALSE /\ owed = <<>> /\ ended = FALSE

-----------------------------------------------------------------------------
(* The user and the wire                                                   *)

AtRest == sta = 0 /\ rdr = NoByte

\* What a user means by b: a line ends with CR LF; a CR before anything else makes
\* him start over, and so does a line of RecLen bytes.
Typed(b) ==
    LET ok == IF key = "start" THEN AtRest ELSE clean /\ rdr = NoByte IN
    /\ clean' = ok
    /\ ended' = (ended \/ b = LF)
    /\ \/ /\ key = "cr" /\ b = LF
          /\ key' = "start" /\ line' = <<>>
          /\ owed' = IF ok THEN <<line>> ELSE owed
       \/ /\ key = "cr" /\ b # LF
          /\ key' = "text" /\ line' = <<>> /\ UNCHANGED owed
       \/ /\ key # "cr" /\ b = CR
          /\ key' = "cr" /\ UNCHANGED <<line, owed>>
       \/ /\ key # "cr" /\ b # CR
          /\ key' = "text" /\ UNCHANGED owed
          /\ line' = IF Len(line) + 1 = RecLen THEN <<>> ELSE Append(line, b)

\* A byte is typed and arrives; it is lost if the one before it still waits.
Press(b) ==
    /\ IF rdr = NoByte THEN rdr' = b /\ UNCHANGED ore
       ELSE ore' = TRUE /\ UNCHANGED rdr
    /\ Typed(b)
    /\ UNCHANGED <<editor, armed, handlers>>

-----------------------------------------------------------------------------
(* The interrupt of the receiver                                           *)

\* HAL_UART_IRQHandler reads the flags.
Interrupt ==
    /\ irq = "idle" /\ scan = "idle" /\ armed
    /\ rdr # NoByte \/ ore
    /\ rxne' = (rdr # NoByte)
    /\ irq' = IF ore THEN "error" ELSE "take"
    /\ UNCHANGED <<editor, receiver, scan, user>>

\* Mutant: an overrun that left no byte ends the handler.
ClearOverrunOnly ==
    /\ irq = "error"
    /\ ore' = FALSE
    /\ IF rxne THEN irq' = "take" /\ UNCHANGED armed
       ELSE irq' = "idle" /\ armed' = FALSE
    /\ UNCHANGED <<editor, rdr, rxne, scan, user>>
\* It forgets the overrun.  If it saw no byte the reception is ended.
ClearOverrun ==
    /\ irq = "error"
    /\ ore' = FALSE
    /\ IF rxne THEN irq' = "take" /\ UNCHANGED armed
       ELSE irq' = "rearm" /\ armed' = FALSE
    /\ UNCHANGED <<editor, rdr, rxne, scan, user>>

\* Mutant: the line may fill the buffer.
ReceivedFull(b) ==
    \/ IsDone /\ UNCHANGED editor
    \/ /\ ~IsDone /\ HasCR
       /\ sta' = IF b = LF THEN sta + DoneMark ELSE 0
       /\ UNCHANGED buf
    \/ ~IsDone /\ ~HasCR /\ b = CR /\ sta' = sta + CrMark /\ UNCHANGED buf
    \/ /\ ~IsDone /\ ~HasCR /\ b # CR
       /\ buf' = [buf EXCEPT ![Index] = b]
       /\ sta' = IF sta + 1 > RecLen THEN 0 ELSE sta + 1
\* Mutant: a CR without LF is not forgotten.
ReceivedWithCR(b) ==
    \/ IsDone /\ UNCHANGED editor
    \/ /\ ~IsDone /\ HasCR
       /\ sta' = IF b = LF THEN sta + DoneMark ELSE sta
       /\ UNCHANGED buf
    \/ ~IsDone /\ ~HasCR /\ b = CR /\ sta' = sta + CrMark /\ UNCHANGED buf
    \/ /\ ~IsDone /\ ~HasCR /\ b # CR
       /\ buf' = [buf EXCEPT ![Index] = b]
       /\ sta' = IF sta + 1 > RecLen - 1 THEN 0 ELSE sta + 1
\* HAL_UART_RxCpltCallback: a byte of a line that is done is dropped, CR is marked,
\* LF after it ends the line, and anything else after it starts over.
Received(b) ==
    \/ IsDone /\ UNCHANGED editor
    \/ /\ ~IsDone /\ HasCR
       /\ sta' = IF b = LF THEN sta + DoneMark ELSE 0
       /\ UNCHANGED buf
    \/ ~IsDone /\ ~HasCR /\ b = CR /\ sta' = sta + CrMark /\ UNCHANGED buf
    \/ /\ ~IsDone /\ ~HasCR /\ b # CR
       /\ buf' = [buf EXCEPT ![Index] = b]
       /\ sta' = IF sta + 1 > RecLen - 1 THEN 0 ELSE sta + 1

\* UART_RxISR_8BIT: the byte is read, which ends the reception of one byte.
Take ==
    /\ irq = "take"
    /\ rdr' = NoByte /\ armed' = FALSE
    /\ Received(rdr)
    /\ irq' = "rearm"
    /\ UNCHANGED <<ore, rxne, scan, user>>

\* HAL_UART_Receive_IT, at the end of USART1_IRQHandler: RxState is READY.
Rearm ==
    /\ irq = "rearm"
    /\ armed' = TRUE
    /\ irq' = "idle"
    /\ UNCHANGED <<editor, rdr, ore, rxne, scan, user>>

-----------------------------------------------------------------------------
(* The scan                                                                *)

\* usmart_scan finds a line, ends it with '\0' and executes it.
ScanBegins ==
    /\ irq = "idle" /\ scan = "idle" /\ IsDone
    /\ buf' = [buf EXCEPT ![Index % 256] = Nul]
    /\ scan' = "exec"
    /\ UNCHANGED <<sta, receiver, irq, rxne, user>>

\* The command has returned.
ScanEnds ==
    /\ scan = "exec"
    /\ sta' = 0
    /\ scan' = "idle"
    /\ owed' = <<>> /\ ended' = FALSE
    /\ UNCHANGED <<buf, receiver, irq, rxne, key, line, clean>>

Usart1 == ClearOverrun \/ Take \/ Rearm

LineNext == \/ \E b \in Byte : Press(b)
            \/ Interrupt \/ Usart1 \/ ScanBegins \/ ScanEnds

LineSpec == LineInit /\ [][LineNext]_lineVars

\* Both interrupts stay pending until they are served, and of two that are pending
\* TIM4_IRQHandler comes first (30 before 37) but not again until its timer has run
\* once more.  A command returns.
FairLine == LineSpec /\ SF_lineVars(Interrupt) /\ WF_lineVars(Usart1)
                     /\ SF_lineVars(ScanBegins) /\ WF_lineVars(ScanEnds)

-----------------------------------------------------------------------------
(* Properties                                                              *)

\* Every variable has its type.
LineTypeOK ==
    /\ sta \in 0..(2 * DoneMark - 1) /\ buf \in [0..(RecLen - 1) -> Byte \cup {Nul}]
    /\ rdr \in Byte \cup {NoByte} /\ ore \in BOOLEAN /\ armed \in BOOLEAN
    /\ irq \in {"idle", "error", "take", "rearm"} /\ rxne \in BOOLEAN
    /\ scan \in {"idle", "exec"}
    /\ key \in {"start", "text", "cr"} /\ line \in Seq(Byte) /\ clean \in BOOLEAN
    /\ owed \in Seq(Seq(Byte)) /\ Len(owed) <= 1 /\ ended \in BOOLEAN

\* HAL_UART_RxCpltCallback never stores behind the buffer, whatever marks share the
\* word with the index, and usmart_scan puts its '\0' behind the line and inside
\* the buffer although it has eight bits for the index.
StaysInside == Index < RecLen /\ (IsDone => Index % 256 = Index)

\* The line holds the text t.
Holds(t) == Len(t) = Index /\ \A i \in 1..Len(t) : buf[i - 1] = t[i]

\* usmart_scan executes a line only after an LF typed since the one before: none
\* runs twice, and what is left of a line that was lost does not run by itself.
\* And a line typed at a console at rest, of which nothing was lost, is executed as
\* it was typed: what arrives before and while usmart_scan executes it does not
\* touch it.
RunsAsTyped == IsDone => ended /\ (owed # <<>> => Holds(owed[1]))

\* Such a line is executed, and reception goes on, after overruns too:
\* USART1_IRQHandler takes what arrived.
ConsoleAnswers == /\ owed # <<>> ~> owed = <<>>
                  /\ rdr # NoByte ~> rdr = NoByte
=============================================================================
