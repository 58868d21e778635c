------------------------------ MODULE EthRing -------------------------------
(***************************************************************************)
(* The Ethernet controller and the two who work on its descriptor rings:   *)
(* ETH_IRQHandler, which empties the receive ring into the mailbox of      *)
(* tcpip_thread, and tcpip_thread, whose frames go through the transmit    *)
(* ring.  The interrupt has the highest priority of the board: it stops    *)
(* the thread between any two of its steps, never the other way round.     *)
(* Both go through the HAL, which has one lock for the two directions and  *)
(* answers HAL_BUSY when it is taken.                                      *)
(* A frame fits one descriptor (ETH_RX_BUF_SIZE and ETH_TX_BUF_SIZE hold   *)
(* the largest) and has a number, in the order of arrival or of sending;   *)
(* frames with errors are dropped by the controller.                       *)
(***************************************************************************)
EXTENDS Integers, Sequences

CONSTANTS
    RxN, TxN,      \* descriptors (ETH_RXBUFNB, ETH_TXBUFNB)
    MboxSize,      \* slots of the mailbox of tcpip_thread (TCPIP_MBOX_SIZE)
    PoolSize,      \* frames the pbuf pool holds (PBUF_POOL_SIZE)
    MaxLate,       \* frames that can arrive between the last look at the ring
                   \* and the clearing of the flag, a few instructions later
    MaxFrames,     \* bound: frames that arrive
    MaxSent        \* bound: frames that are sent

ASSUME EthRingAssumption ==
    /\ RxN \in Nat \ {0} /\ TxN \in Nat \ {0}
    /\ MboxSize \in Nat /\ PoolSize \in Nat
    /\ MaxLate \in Nat /\ MaxLate < RxN
    /\ MaxFrames \in Nat /\ MaxSent \in Nat

VARIABLES
    own, frame,     \* receive descriptors: TRUE if the CPU owns it, its frame
    dma, cpu,       \* where the controller stores next; heth->RxDesc
    suspended,      \* DMASR.RBUS: reception waits for a poll demand
    flag,           \* DMASR.RS: a frame was received, the interrupt is pending
    isr,            \* ETH_IRQHandler: "off", "look", "take", "resume", "post",
                    \* "clear"
    p,              \* the frame in the pbuf of low_level_input, or None
    inbox, pool,    \* mailbox of tcpip_thread; free frames of the pbuf pool
    lock,           \* heth->Lock
    thread,         \* tcpip_thread: "idle", "copied", "locked", "given"
    txOwn, txFrame, \* transmit descriptors: TRUE if the controller owns it
    tx, txDma,      \* heth->TxDesc; where the controller sends from next
    txSuspended,    \* DMASR.TBUS: transmission waits for a poll demand
    \* history
    arrived, taken, \* frames stored in the ring; frames taken out of it
    late,           \* frames stored since the last look at the ring
    accepted, sent  \* frames low_level_output answered ERR_OK; frames sent

rx == <<own, frame, dma, cpu, suspended, flag, arrived, taken, late>>
output == <<lock, thread, txOwn, txFrame, tx, txDma, txSuspended, accepted, sent>>
vars == <<rx, isr, p, inbox, pool, output>>

RxSlot == 0..(RxN - 1)
TxSlot == 0..(TxN - 1)
None == 0    \* frames are numbered from 1

\* The descriptors are chained and the last points back to the first.
After(i, n) == IF i = n - 1 THEN 0 ELSE i + 1

Init ==
    /\ own = [s \in RxSlot |-> FALSE] /\ frame = [s \in RxSlot |-> None]
    /\ dma = 0 /\ cpu = 0 /\ suspended = FALSE /\ flag = FALSE
    /\ isr = "off" /\ p = None
    /\ inbox = <<>> /\ pool = PoolSize
    /\ lock = FALSE /\ thread = "idle"
    /\ txOwn = [s \in TxSlot |-> FALSE] /\ txFrame = [s \in TxSlot |-> None]
    /\ tx = 0 /\ txDma = 0 /\ txSuspended = FALSE
    /\ arrived = 0 /\ taken = 0 /\ late = 0 /\ accepted = 0 /\ sent = 0

-----------------------------------------------------------------------------
(* The controller                                                          *)

\* A frame is stored in the next descriptor, if that is the controller's.
Store ==
    /\ arrived < MaxFrames /\ ~suspended /\ ~own[dma]
    /\ isr = "clear" => late < MaxLate
    /\ own' = [own EXCEPT ![dma] = TRUE]
    /\ frame' = [frame EXCEPT ![dma] = arrived + 1]
    /\ dma' = After(dma, RxN)
    /\ flag' = TRUE
    /\ arrived' = arrived + 1 /\ late' = late + 1
    /\ UNCHANGED <<cpu, suspended, taken, isr, p, inbox, pool, output>>

\* The controller fetches its next descriptor and finds it is the CPU's.
Suspend ==
    /\ ~suspended /\ own[dma]
    /\ suspended' = TRUE
    /\ UNCHANGED <<own, frame, dma, cpu, flag, arrived, taken, late,
                   isr, p, inbox, pool, output>>

Send ==
    /\ ~txSuspended /\ txOwn[txDma]
    /\ txOwn' = [txOwn EXCEPT ![txDma] = FALSE]
    /\ txDma' = After(txDma, TxN)
    /\ sent' = sent + 1
    /\ UNCHANGED <<rx, isr, p, inbox, pool, lock, thread, txFrame, tx,
                   txSuspended, accepted>>

TxSuspend ==
    /\ ~txSuspended /\ ~txOwn[txDma]
    /\ txSuspended' = TRUE
    /\ UNCHANGED <<rx, isr, p, inbox, pool, lock, thread, txOwn, txFrame, tx,
                   txDma, accepted, sent>>

Controller == Store \/ Suspend \/ Send \/ TxSuspend

-----------------------------------------------------------------------------
(* ETH_IRQHandler                                                          *)

Interrupt ==
    /\ isr = "off" /\ flag
    /\ isr' = "look"
    /\ UNCHANGED <<rx, p, inbox, pool, output>>

\* ETH_GetRxPktSize of heth->RxDesc: 0 ends the loop.
Look ==
    /\ isr = "look"
    /\ isr' = IF own[cpu] THEN "take" ELSE "clear"
    /\ late' = 0
    /\ UNCHANGED <<own, frame, dma, cpu, suspended, flag, arrived, taken,
                   p, inbox, pool, output>>

\* Mutant: a frame that finds no pbuf stays where it is.
TakeWithPbuf ==
    /\ isr = "take"
    /\ IF lock
       THEN isr' = "look" /\ UNCHANGED <<own, cpu, taken, p, pool>>
       ELSE /\ cpu' = After(cpu, RxN)
            /\ taken' = taken + 1
            /\ isr' = "resume"
            /\ IF pool > 0 THEN p' = frame[cpu] /\ pool' = pool - 1
                                /\ own' = [own EXCEPT ![cpu] = FALSE]
                           ELSE p' = None /\ UNCHANGED <<pool, own>>
    /\ UNCHANGED <<frame, dma, suspended, flag, arrived, late, inbox, output>>
\* Mutant: without a pbuf low_level_input returns before it has let go of the
\* descriptor and moved on.
TakeAgain ==
    /\ isr = "take"
    /\ IF lock \/ pool = 0
       THEN isr' = "look" /\ UNCHANGED <<own, cpu, taken, p, pool>>
       ELSE /\ own' = [own EXCEPT ![cpu] = FALSE]
            /\ cpu' = After(cpu, RxN)
            /\ taken' = taken + 1
            /\ isr' = "resume"
            /\ p' = frame[cpu] /\ pool' = pool - 1
    /\ UNCHANGED <<frame, dma, suspended, flag, arrived, late, inbox, output>>
\* low_level_input as far as the descriptor: HAL_ETH_GetReceivedFrame, which
\* answers HAL_BUSY when tcpip_thread holds the lock, pbuf_alloc, the copy, and
\* OWN set, with or without a pbuf.
Take ==
    /\ isr = "take"
    /\ IF lock
       THEN isr' = "look" /\ UNCHANGED <<own, cpu, taken, p, pool>>
       ELSE /\ own' = [own EXCEPT ![cpu] = FALSE]
            /\ cpu' = After(cpu, RxN)
            /\ taken' = taken + 1
            /\ isr' = "resume"
            /\ IF pool > 0 THEN p' = frame[cpu] /\ pool' = pool - 1
                           ELSE p' = None /\ UNCHANGED pool
    /\ UNCHANGED <<frame, dma, suspended, flag, arrived, late, inbox, output>>

\* Mutant: no poll demand.
ResumeUnasked ==
    /\ isr = "resume"
    /\ isr' = IF p = None THEN "look" ELSE "post"
    /\ UNCHANGED <<own, frame, dma, cpu, suspended, flag, arrived, taken, late,
                   p, inbox, pool, output>>
\* The rest of low_level_input: the poll demand, if RBUS is set.
Resume ==
    /\ isr = "resume"
    /\ suspended' = FALSE
    /\ isr' = IF p = None THEN "look" ELSE "post"
    /\ UNCHANGED <<own, frame, dma, cpu, flag, arrived, taken, late,
                   p, inbox, pool, output>>

\* Mutant: the handler takes one frame and leaves.
PostOnce(ok) ==
    /\ isr = "post"
    /\ IF ok /\ Len(inbox) < MboxSize
       THEN inbox' = Append(inbox, p) /\ UNCHANGED pool
       ELSE pool' = pool + 1 /\ UNCHANGED inbox
    /\ p' = None
    /\ isr' = "clear"
    /\ UNCHANGED <<rx, output>>
\* netif->input, which is tcpip_input: it finds no message structure, or the
\* mailbox full, and the pbuf is freed, or posts the frame.
Post(ok) ==
    /\ isr = "post"
    /\ IF ok /\ Len(inbox) < MboxSize
       THEN inbox' = Append(inbox, p) /\ UNCHANGED pool
       ELSE pool' = pool + 1 /\ UNCHANGED inbox
    /\ p' = None
    /\ isr' = "look"
    /\ UNCHANGED <<rx, output>>

\* The flag goes, whatever has arrived since the last look.
Clear ==
    /\ isr = "clear"
    /\ flag' = FALSE
    /\ isr' = "off"
    /\ UNCHANGED <<own, frame, dma, cpu, suspended, arrived, taken, late,
                   p, inbox, pool, output>>

Handler == Look \/ Take \/ Resume \/ (\E ok \in BOOLEAN : Post(ok)) \/ Clear

-----------------------------------------------------------------------------
(* tcpip_thread, while the interrupt lets it                               *)

\* A frame is handled and its pbuf freed.
Handle ==
    /\ isr = "off" /\ thread = "idle" /\ inbox # <<>>
    /\ inbox' = Tail(inbox) /\ pool' = pool + 1
    /\ UNCHANGED <<rx, isr, p, output>>

\* low_level_output, as far as HAL_ETH_TransmitFrame: it gives up with ERR_USE
\* when the controller owns the descriptor.
Copy ==
    /\ isr = "off" /\ thread = "idle" /\ accepted < MaxSent
    /\ ~txOwn[tx]
    /\ txFrame' = [txFrame EXCEPT ![tx] = accepted + 1]
    /\ thread' = "copied"
    /\ UNCHANGED <<rx, isr, p, inbox, pool, lock, txOwn, tx, txDma, txSuspended,
                   accepted, sent>>

\* HAL_ETH_TransmitFrame; low_level_output does not look at what it returns.
Lock ==
    /\ isr = "off" /\ thread = "copied"
    /\ IF lock THEN thread' = "idle" /\ accepted' = accepted + 1 /\ UNCHANGED lock
               ELSE thread' = "locked" /\ lock' = TRUE /\ UNCHANGED accepted
    /\ UNCHANGED <<rx, isr, p, inbox, pool, txOwn, txFrame, tx, txDma, txSuspended,
                   sent>>

Give ==
    /\ isr = "off" /\ thread = "locked"
    /\ IF txOwn[tx]
       THEN /\ thread' = "idle" /\ lock' = FALSE /\ accepted' = accepted + 1
            /\ UNCHANGED <<txOwn, tx>>
       ELSE /\ txOwn' = [txOwn EXCEPT ![tx] = TRUE]
            /\ tx' = After(tx, TxN)
            /\ thread' = "given"
            /\ UNCHANGED <<lock, accepted>>
    /\ UNCHANGED <<rx, isr, p, inbox, pool, txFrame, txDma, txSuspended, sent>>

\* The poll demand, if TBUS is set, and the lock.
Demand ==
    /\ isr = "off" /\ thread = "given"
    /\ txSuspended' = FALSE
    /\ thread' = "idle" /\ lock' = FALSE /\ accepted' = accepted + 1
    /\ UNCHANGED <<rx, isr, p, inbox, pool, txOwn, txFrame, tx, txDma, sent>>

Thread == Handle \/ Copy \/ Lock \/ Give \/ Demand

Next == Controller \/ Interrupt \/ Handler \/ Thread

Spec == Init /\ [][Next]_vars

\* The processor works through the interrupt, and takes it up when it is
\* pending; the controller sends; tcpip_thread finishes what it sends.
FairSpec == Spec /\ WF_vars(Interrupt) /\ WF_vars(Handler)
                 /\ WF_vars(Send) /\ WF_vars(Lock \/ Give \/ Demand)

-----------------------------------------------------------------------------
(* Properties                                                              *)

\* How far slot s is from slot i, the way the chain runs.
Distance(i, s, n) == IF s >= i THEN s - i ELSE s - i + n

\* Every variable has its type.
TypeOK ==
    /\ own \in [RxSlot -> BOOLEAN] /\ frame \in [RxSlot -> Nat]
    /\ dma \in RxSlot /\ cpu \in RxSlot
    /\ suspended \in BOOLEAN /\ flag \in BOOLEAN
    /\ isr \in {"off", "look", "take", "resume", "post", "clear"}
    /\ p \in Nat /\ inbox \in Seq(Nat \ {None}) /\ pool \in Nat
    /\ lock \in BOOLEAN /\ thread \in {"idle", "copied", "locked", "given"}
    /\ txOwn \in [TxSlot -> BOOLEAN] /\ txFrame \in [TxSlot -> Nat]
    /\ tx \in TxSlot /\ txDma \in TxSlot /\ txSuspended \in BOOLEAN
    /\ arrived \in Nat /\ taken \in Nat /\ late \in Nat
    /\ accepted \in Nat /\ sent \in Nat

\* The descriptors the CPU owns are those from heth->RxDesc on, and hold the
\* frames not taken yet in the order of their arrival: the handler stops looking
\* only when nothing waits, and takes no frame twice, late or before another,
\* however arrivals, failing allocations and full rings interleave.
ReceivedInOrder ==
    \A s \in RxSlot :
        /\ own[s] <=> Distance(cpu, s, RxN) < arrived - taken
        /\ own[s] => frame[s] = taken + 1 + Distance(cpu, s, RxN)

\* Every frame low_level_output answered ERR_OK, though it ignores what
\* HAL_ETH_TransmitFrame says, is sent or waits in its turn, unchanged, in a
\* descriptor of the controller.
AcceptedIsSent ==
    LET given == accepted + (IF thread = "given" THEN 1 ELSE 0) IN
    \A s \in TxSlot :
        /\ txOwn[s] <=> Distance(txDma, s, TxN) < given - sent
        /\ txOwn[s] => txFrame[s] = sent + 1 + Distance(txDma, s, TxN)

\* In both directions: no frame is lost, repeated or overtaken in a ring.
FramesInOrder == ReceivedInOrder /\ AcceptedIsSent

\* Reception is suspended only while the ring is full and transmission only
\* while it is empty, once the handler and the thread are done: a descriptor
\* handed over while the controller goes to sleep still wakes it.  And the
\* controller never sleeps without an interrupt that will wake it.
NoLostWakeup ==
    /\ suspended => own[dma] \/ isr = "resume"
    /\ txSuspended => ~txOwn[txDma] \/ thread = "given"
    /\ suspended => flag \/ isr # "off"

\* A frame is left in the ring without an interrupt to fetch it only if it
\* arrived between the last look and the clearing of the flag: never more than
\* fit in there, and never an older one.
OnlyLateLeft == isr = "off" /\ ~flag => arrived - taken = late /\ late <= MaxLate

\* A pbuf is in the pool, in the mailbox or in the hands of the handler: the
\* paths on which a frame is dropped give it back.
NoPbufLost == pool + Len(inbox) + (IF p = None THEN 0 ELSE 1) = PoolSize

\* Every burst of frames ends and the interrupt with it, unless the interrupt met
\* tcpip_thread with the lock of the HAL: then it asks for one frame for ever.
InterruptEnds == isr # "off" ~> (isr = "off" \/ lock)
=============================================================================
