--------------------------- MODULE EthRingProofs ----------------------------
(***************************************************************************)
(* What EthRing promises, for rings, mailboxes and pools of every size and *)
(* for every number of frames.  Both rings are the same: slots from r on   *)
(* hold k frames, numbered from first, and w is where the next one goes.   *)
(***************************************************************************)
EXTENDS EthRing, TLAPS

Waiting == arrived - taken
Given == accepted + (IF thread = "given" THEN 1 ELSE 0)
Unsent == Given - sent

\* A ring of n slots with k frames from r on: w is one behind the last.
Position(r, w, k, n) ==
    /\ k \in 0..n
    /\ r = w => k = 0 \/ k = n
    /\ r # w => Distance(r, w, n) = k

Holds(o, f, r, k, first, n) ==
    \A s \in 0..(n - 1) :
        /\ o[s] <=> Distance(r, s, n) < k
        /\ o[s] => f[s] = first + Distance(r, s, n)

\* The inductive invariant.  The pbuf of the handler, and what it knows where it
\* is; the lock, and what tcpip_thread knows of its descriptor.
RxRing == Position(cpu, dma, Waiting, RxN)
          /\ Holds(own, frame, cpu, Waiting, taken + 1, RxN)

TxRing == Position(txDma, tx, Unsent, TxN)
          /\ Holds(txOwn, txFrame, txDma, Unsent, sent + 1, TxN)

HandlerInv ==
    /\ isr = "take" => own[cpu]
    /\ isr = "post" => p # None
    /\ p # None => isr \in {"resume", "post"}
    /\ isr = "clear" \/ (isr = "off" /\ ~flag) => Waiting = late /\ late <= MaxLate

ThreadInv ==
    /\ lock <=> thread \in {"locked", "given"}
    /\ thread \in {"copied", "locked"} => ~txOwn[tx] /\ txFrame[tx] = accepted + 1

IInv == /\ TypeOK /\ RxRing /\ TxRing
        /\ HandlerInv /\ ThreadInv /\ NoLostWakeup /\ NoPbufLost

-----------------------------------------------------------------------------
(* Rings                                                                   *)

\* A frame put into the slot behind the last is the last.
LEMMA RingPut ==
    ASSUME NEW n \in Nat \ {0}, NEW r \in 0..(n - 1), NEW w \in 0..(n - 1),
           NEW k \in Int, NEW first \in Int,
           NEW o \in [0..(n - 1) -> BOOLEAN], NEW f \in [0..(n - 1) -> Nat],
           Position(r, w, k, n), Holds(o, f, r, k, first, n), ~o[w],
           f[w] = first + k
    PROVE  /\ Position(r, After(w, n), k + 1, n)
           /\ Holds([o EXCEPT ![w] = TRUE], f, r, k + 1, first, n)
           /\ After(w, n) \in 0..(n - 1)
<1>1. k \in 0..n /\ k < n /\ Distance(r, w, n) = k
  <2>1. ~(Distance(r, w, n) < k)
    BY DEF Holds
  <2> QED BY <2>1 DEF Position, Distance
<1>2. Position(r, After(w, n), k + 1, n) /\ After(w, n) \in 0..(n - 1)
  BY <1>1 DEF Position, Distance, After
<1>3. ASSUME NEW s \in 0..(n - 1), s # w
      PROVE  Distance(r, s, n) < k + 1 <=> Distance(r, s, n) < k
  BY <1>1, <1>3 DEF Distance
<1>4. ASSUME NEW s \in 0..(n - 1)
      PROVE  /\ [o EXCEPT ![w] = TRUE][s] <=> Distance(r, s, n) < k + 1
             /\ [o EXCEPT ![w] = TRUE][s] => f[s] = first + Distance(r, s, n)
  <2>1. CASE s = w
    <3>1. Distance(r, s, n) < k + 1 /\ f[s] = first + Distance(r, s, n)
      BY <1>1, <2>1
    <3> QED BY <2>1, <3>1
  <2>2. CASE s # w
    <3>1. [o EXCEPT ![w] = TRUE][s] = o[s]
      BY <2>2
    <3>2. /\ o[s] <=> Distance(r, s, n) < k
          /\ o[s] => f[s] = first + Distance(r, s, n)
      BY DEF Holds
    <3> QED BY <1>3, <2>2, <3>1, <3>2
  <2> QED BY <2>1, <2>2
<1> QED BY <1>2, <1>4 DEF Holds

\* The first frame taken out leaves the others in their order.
LEMMA RingGet ==
    ASSUME NEW n \in Nat \ {0}, NEW r \in 0..(n - 1), NEW w \in 0..(n - 1),
           NEW k \in Int, NEW first \in Int,
           NEW o \in [0..(n - 1) -> BOOLEAN], NEW f \in [0..(n - 1) -> Nat],
           Position(r, w, k, n), Holds(o, f, r, k, first, n), o[r]
    PROVE  /\ Position(After(r, n), w, k - 1, n)
           /\ Holds([o EXCEPT ![r] = FALSE], f, After(r, n), k - 1, first + 1, n)
           /\ After(r, n) \in 0..(n - 1)
<1>1. k \in 1..n
  <2>1. Distance(r, r, n) = 0
    BY DEF Distance
  <2>2. Distance(r, r, n) < k
    BY DEF Holds
  <2> QED BY <2>1, <2>2 DEF Position
<1>2. Position(After(r, n), w, k - 1, n) /\ After(r, n) \in 0..(n - 1)
  BY <1>1 DEF Position, Distance, After
<1>3. ASSUME NEW s \in 0..(n - 1), s # r
      PROVE  Distance(After(r, n), s, n) + 1 = Distance(r, s, n)
  BY <1>3 DEF Distance, After
<1>4. Distance(After(r, n), r, n) = n - 1
  BY DEF Distance, After
<1>5. ASSUME NEW s \in 0..(n - 1)
      PROVE  Distance(r, s, n) \in Int /\ Distance(After(r, n), s, n) \in Int
  BY <1>2, SMTT(30) DEF Distance
<1>6. ASSUME NEW s \in 0..(n - 1)
      PROVE  /\ [o EXCEPT ![r] = FALSE][s] <=> Distance(After(r, n), s, n) < k - 1
             /\ [o EXCEPT ![r] = FALSE][s]
                  => f[s] = first + 1 + Distance(After(r, n), s, n)
  <2>1. CASE s = r
    <3>1. ~(Distance(After(r, n), s, n) < k - 1)
      BY <1>1, <1>4, <2>1
    <3> QED BY <2>1, <3>1
  <2>2. CASE s # r
    <3>1. [o EXCEPT ![r] = FALSE][s] = o[s]
      BY <2>2
    <3>2. /\ o[s] <=> Distance(r, s, n) < k
          /\ o[s] => f[s] = first + Distance(r, s, n)
      BY DEF Holds
    <3>3. \A a, b \in Int : a + 1 = b => /\ b < k <=> a < k - 1
                                        /\ first + b = first + 1 + a
      OBVIOUS
    <3>4. /\ Distance(r, s, n) < k <=> Distance(After(r, n), s, n) < k - 1
          /\ first + Distance(r, s, n) = first + 1 + Distance(After(r, n), s, n)
      BY <1>3, <1>5, <2>2, <3>3
    <3> QED BY <3>1, <3>2, <3>4
  <2> QED BY <2>1, <2>2
<1> QED BY <1>2, <1>6 DEF Holds

\* What is written into a free slot disturbs nothing.
LEMMA RingWrite ==
    ASSUME NEW n \in Nat \ {0}, NEW r \in 0..(n - 1), NEW w \in 0..(n - 1),
           NEW k \in Int, NEW first \in Int, NEW v \in Nat,
           NEW o \in [0..(n - 1) -> BOOLEAN], NEW f \in [0..(n - 1) -> Nat],
           Holds(o, f, r, k, first, n), ~o[w]
    PROVE  Holds(o, [f EXCEPT ![w] = v], r, k, first, n)
<1> SUFFICES ASSUME NEW s \in 0..(n - 1)
             PROVE  /\ o[s] <=> Distance(r, s, n) < k
                    /\ o[s] => [f EXCEPT ![w] = v][s] = first + Distance(r, s, n)
  BY DEF Holds
<1>1. /\ o[s] <=> Distance(r, s, n) < k
      /\ o[s] => f[s] = first + Distance(r, s, n)
  BY DEF Holds
<1>2. o[s] => [f EXCEPT ![w] = v][s] = f[s]
  OBVIOUS
<1> QED BY <1>1, <1>2

\* The slot behind the last holds a frame only when all of them do.
LEMMA RingFull ==
    ASSUME NEW n \in Nat \ {0}, NEW r \in 0..(n - 1), NEW w \in 0..(n - 1),
           NEW k \in Int, NEW first \in Int, NEW o, NEW f,
           Position(r, w, k, n), Holds(o, f, r, k, first, n), o[w]
    PROVE  k = n
<1>1. Distance(r, w, n) < k
  BY DEF Holds
<1> QED BY <1>1 DEF Position, Distance

\* A slot holds the first frame, or none waits.
LEMMA RingEmpty ==
    ASSUME NEW n \in Nat \ {0}, NEW r \in 0..(n - 1), NEW w \in 0..(n - 1),
           NEW k \in Int, NEW first \in Int, NEW o, NEW f,
           Position(r, w, k, n), Holds(o, f, r, k, first, n), ~o[r]
    PROVE  k = 0
<1>1. ~(Distance(r, r, n) < k)
  BY DEF Holds
<1> QED BY <1>1 DEF Position, Distance

-----------------------------------------------------------------------------
(* The steps of the controller                                             *)

LEMMA StartsSound == Init => IInv
<1> SUFFICES ASSUME Init PROVE IInv
  OBVIOUS
<1> USE EthRingAssumption DEF Init
<1>1. TypeOK
  <2>1. inbox \in Seq(Nat \ {None})
    OBVIOUS
  <2>2. 0 \in RxSlot /\ 0 \in TxSlot
    BY DEF RxSlot, TxSlot
  <2>3. None \in Nat
    BY DEF None
  <2> QED BY <2>1, <2>2, <2>3 DEF TypeOK
<1>2. RxRing
  BY DEF RxRing, Position, Holds, Waiting, RxSlot, Distance
<1>3. TxRing
  BY DEF TxRing, Position, Holds, Unsent, Given, TxSlot, Distance
<1>4. HandlerInv /\ ThreadInv /\ NoLostWakeup
  BY DEF HandlerInv, ThreadInv, NoLostWakeup, Waiting, RxSlot, TxSlot, None
<1>5. NoPbufLost
  BY DEF NoPbufLost, None
<1> QED BY <1>1, <1>2, <1>3, <1>4, <1>5 DEF IInv

LEMMA StoreKeeps == ASSUME IInv, Store PROVE IInv'
<1> USE EthRingAssumption DEF IInv
<1>1. TypeOK'
  BY DEF Store, TypeOK, RxSlot, output, After
<1>2. TxRing' /\ ThreadInv' /\ NoPbufLost'
  BY DEF Store, output, TxRing, Unsent, Given, ThreadInv, NoPbufLost
<1>3. RxRing'
  <2> DEFINE f == [frame EXCEPT ![dma] = arrived + 1]
  <2>1. /\ Waiting \in Int /\ taken + 1 \in Int /\ arrived + 1 \in Nat
        /\ taken + 1 + Waiting = arrived + 1
    BY DEF TypeOK, Waiting
  <2>2. /\ own \in [0..(RxN - 1) -> BOOLEAN] /\ frame \in [0..(RxN - 1) -> Nat]
        /\ f \in [0..(RxN - 1) -> Nat] /\ f[dma] = arrived + 1
        /\ cpu \in 0..(RxN - 1) /\ dma \in 0..(RxN - 1) /\ ~own[dma]
    BY <2>1 DEF Store, TypeOK, RxSlot
  <2>3. Holds(own, f, cpu, Waiting, taken + 1, RxN)
    BY <2>1, <2>2, RingWrite DEF RxRing
  <2>4. /\ Position(cpu, After(dma, RxN), Waiting + 1, RxN)
        /\ Holds([own EXCEPT ![dma] = TRUE], f, cpu, Waiting + 1, taken + 1, RxN)
    <3> HIDE DEF f
    <3> QED BY <2>1, <2>2, <2>3, RingPut DEF RxRing
  <2>5. /\ Waiting' = Waiting + 1 /\ taken' = taken /\ cpu' = cpu
        /\ own' = [own EXCEPT ![dma] = TRUE] /\ frame' = f
        /\ dma' = After(dma, RxN)
    BY DEF Store, Waiting, TypeOK
  <2> HIDE DEF f
  <2> QED BY <2>4, <2>5 DEF RxRing
<1>4. HandlerInv'
  BY DEF Store, HandlerInv, TypeOK, Waiting, RxSlot
<1>5. NoLostWakeup'
  BY DEF Store, NoLostWakeup, output
<1> QED BY <1>1, <1>2, <1>3, <1>4, <1>5

\* What the full ring of a suspended controller says.
LEMMA FullWhenStopped == ASSUME IInv, own[dma] PROVE flag \/ isr # "off"
<1> USE EthRingAssumption DEF IInv
<1>1. Waiting = RxN
  <2>1. /\ cpu \in 0..(RxN - 1) /\ dma \in 0..(RxN - 1)
        /\ Waiting \in Int /\ taken + 1 \in Int
    BY DEF TypeOK, RxSlot, Waiting
  <2> QED BY <2>1, RingFull DEF RxRing
<1> QED BY <1>1 DEF HandlerInv, TypeOK, Waiting

LEMMA SuspendKeeps == ASSUME IInv, Suspend PROVE IInv'
<1> USE DEF IInv
<1>1. flag \/ isr # "off"
  BY FullWhenStopped DEF Suspend
<1>2. TypeOK'
  BY DEF Suspend, TypeOK, output
<1>3. RxRing' /\ TxRing'
  BY DEF Suspend, output, RxRing, Waiting, TxRing, Unsent, Given
<1>4. HandlerInv' /\ ThreadInv' /\ NoPbufLost'
  BY DEF Suspend, output, HandlerInv, Waiting, ThreadInv, NoPbufLost
<1>5. NoLostWakeup'
  BY <1>1 DEF Suspend, NoLostWakeup, output
<1> QED BY <1>2, <1>3, <1>4, <1>5

LEMMA SendKeeps == ASSUME IInv, Send PROVE IInv'
<1> USE EthRingAssumption DEF IInv
<1>1. TypeOK'
  BY DEF Send, TypeOK, TxSlot, rx, After
<1>2. RxRing' /\ HandlerInv' /\ NoPbufLost'
  BY DEF Send, rx, RxRing, Waiting, HandlerInv, NoPbufLost
<1>3. /\ txOwn \in [0..(TxN - 1) -> BOOLEAN] /\ txFrame \in [0..(TxN - 1) -> Nat]
      /\ tx \in 0..(TxN - 1) /\ txDma \in 0..(TxN - 1) /\ txOwn[txDma]
      /\ Unsent \in Int /\ sent + 1 \in Int
  BY DEF Send, TypeOK, TxSlot, Unsent, Given
<1>4. /\ Position(After(txDma, TxN), tx, Unsent - 1, TxN)
      /\ Holds([txOwn EXCEPT ![txDma] = FALSE], txFrame, After(txDma, TxN),
               Unsent - 1, sent + 1 + 1, TxN)
  BY <1>3, RingGet DEF TxRing
<1>5. /\ Unsent' = Unsent - 1 /\ sent' = sent + 1 /\ txFrame' = txFrame /\ tx' = tx
      /\ txOwn' = [txOwn EXCEPT ![txDma] = FALSE] /\ txDma' = After(txDma, TxN)
  BY DEF Send, Unsent, Given, TypeOK
<1>6. TxRing'
  BY <1>4, <1>5 DEF TxRing
<1>7. ThreadInv'
  BY DEF Send, ThreadInv, TypeOK
<1>8. NoLostWakeup'
  BY DEF Send, NoLostWakeup, rx, TypeOK
<1> QED BY <1>1, <1>2, <1>6, <1>7, <1>8

LEMMA TxSuspendKeeps == ASSUME IInv, TxSuspend PROVE IInv'
<1> USE DEF IInv
<1>1. TypeOK'
  BY DEF TxSuspend, TypeOK, rx
<1>2. RxRing' /\ TxRing'
  BY DEF TxSuspend, rx, RxRing, Waiting, TxRing, Unsent, Given
<1>3. HandlerInv' /\ ThreadInv' /\ NoPbufLost'
  BY DEF TxSuspend, rx, HandlerInv, Waiting, ThreadInv, NoPbufLost
<1>4. NoLostWakeup'
  BY DEF TxSuspend, NoLostWakeup, rx
<1> QED BY <1>1, <1>2, <1>3, <1>4

-----------------------------------------------------------------------------
(* The steps of the handler                                                *)

LEMMA InterruptKeeps == ASSUME IInv, Interrupt PROVE IInv'
<1> USE DEF IInv
<1>1. TypeOK'
  BY DEF Interrupt, TypeOK, rx, output
<1>2. RxRing' /\ TxRing'
  BY DEF Interrupt, rx, output, RxRing, Waiting, TxRing, Unsent, Given
<1>3. HandlerInv' /\ ThreadInv' /\ NoLostWakeup' /\ NoPbufLost'
  BY DEF Interrupt, rx, output, HandlerInv, Waiting, ThreadInv, NoLostWakeup,
         NoPbufLost
<1> QED BY <1>1, <1>2, <1>3

LEMMA LookKeeps == ASSUME IInv, Look PROVE IInv'
<1> USE EthRingAssumption DEF IInv
<1>1. TypeOK'
  BY DEF Look, TypeOK, output
<1>2. RxRing' /\ TxRing'
  BY DEF Look, output, RxRing, Waiting, TxRing, Unsent, Given
<1>3. ~own[cpu] => Waiting = 0
  <2>1. /\ cpu \in 0..(RxN - 1) /\ dma \in 0..(RxN - 1)
        /\ Waiting \in Int /\ taken + 1 \in Int
    BY DEF TypeOK, RxSlot, Waiting
  <2> QED BY <2>1, RingEmpty DEF RxRing
<1>4. HandlerInv'
  BY <1>3 DEF Look, HandlerInv, Waiting
<1>5. ThreadInv' /\ NoLostWakeup' /\ NoPbufLost'
  BY DEF Look, output, ThreadInv, NoLostWakeup, NoPbufLost
<1> QED BY <1>1, <1>2, <1>4, <1>5

LEMMA TakeKeeps == ASSUME IInv, Take PROVE IInv'
<1> USE EthRingAssumption DEF IInv
<1>1. CASE lock
  <2>1. TypeOK'
    BY <1>1 DEF Take, TypeOK, output
  <2>2. RxRing' /\ TxRing'
    BY <1>1 DEF Take, output, RxRing, Waiting, TxRing, Unsent, Given
  <2>3. HandlerInv' /\ ThreadInv' /\ NoLostWakeup' /\ NoPbufLost'
    BY <1>1 DEF Take, output, HandlerInv, Waiting, ThreadInv, NoLostWakeup,
                NoPbufLost
  <2> QED BY <2>1, <2>2, <2>3
<1>2. CASE ~lock
  <2>1. /\ own \in [0..(RxN - 1) -> BOOLEAN] /\ frame \in [0..(RxN - 1) -> Nat]
        /\ cpu \in 0..(RxN - 1) /\ dma \in 0..(RxN - 1) /\ own[cpu]
        /\ Waiting \in Int /\ taken + 1 \in Int
    BY DEF Take, TypeOK, RxSlot, HandlerInv, Waiting
  <2>2. /\ Position(After(cpu, RxN), dma, Waiting - 1, RxN)
        /\ Holds([own EXCEPT ![cpu] = FALSE], frame, After(cpu, RxN),
                 Waiting - 1, taken + 1 + 1, RxN)
        /\ After(cpu, RxN) \in 0..(RxN - 1)
        /\ frame[cpu] = taken + 1
    <3>1. /\ Position(cpu, dma, Waiting, RxN)
          /\ Holds(own, frame, cpu, Waiting, taken + 1, RxN)
      BY DEF RxRing
    <3>2. /\ Position(After(cpu, RxN), dma, Waiting - 1, RxN)
          /\ Holds([own EXCEPT ![cpu] = FALSE], frame, After(cpu, RxN),
                   Waiting - 1, taken + 1 + 1, RxN)
      BY <2>1, <3>1, RingGet
    <3>3. After(cpu, RxN) \in 0..(RxN - 1)
      BY <2>1 DEF After
    <3>4. frame[cpu] = taken + 1
      <4>1. Distance(cpu, cpu, RxN) = 0
        BY <2>1 DEF Distance
      <4>2. frame[cpu] = taken + 1 + Distance(cpu, cpu, RxN)
        BY <2>1, <3>1 DEF Holds
      <4> QED BY <2>1, <4>1, <4>2
    <3> QED BY <3>2, <3>3, <3>4
  <2>3. TypeOK'
    <3>1. p' \in Nat /\ pool' \in Nat
      BY <1>2, <2>1 DEF Take, TypeOK, None
    <3>2. own' \in [RxSlot -> BOOLEAN] /\ cpu' \in RxSlot
      BY <1>2, <2>2 DEF Take, TypeOK, RxSlot
    <3>3. taken' \in Nat /\ isr' = "resume"
      BY <1>2 DEF Take, TypeOK
    <3> QED BY <3>1, <3>2, <3>3 DEF Take, TypeOK, output
  <2>4. RxRing'
    <3>1. /\ Waiting' = Waiting - 1 /\ taken' = taken + 1 /\ frame' = frame
          /\ dma' = dma /\ own' = [own EXCEPT ![cpu] = FALSE]
          /\ cpu' = After(cpu, RxN)
      BY <1>2 DEF Take, Waiting, TypeOK
    <3> QED BY <2>2, <3>1 DEF RxRing
  <2>5. TxRing' /\ ThreadInv'
    BY DEF Take, output, TxRing, Unsent, Given, ThreadInv
  <2>6. HandlerInv' /\ NoLostWakeup'
    BY <1>2 DEF Take, output, HandlerInv, NoLostWakeup
  <2>7. NoPbufLost'
    <3>1. p = None
      BY DEF Take, HandlerInv
    <3>2. frame[cpu] # None
      BY <2>2 DEF TypeOK, None
    <3> QED BY <1>2, <3>1, <3>2 DEF Take, NoPbufLost, TypeOK
  <2> QED BY <2>3, <2>4, <2>5, <2>6, <2>7
<1> QED BY <1>1, <1>2

LEMMA ResumeKeeps == ASSUME IInv, Resume PROVE IInv'
<1> USE DEF IInv
<1>1. TypeOK'
  BY DEF Resume, TypeOK, output
<1>2. RxRing' /\ TxRing'
  BY DEF Resume, output, RxRing, Waiting, TxRing, Unsent, Given
<1>3. HandlerInv' /\ ThreadInv' /\ NoLostWakeup' /\ NoPbufLost'
  BY DEF Resume, output, HandlerInv, ThreadInv, NoLostWakeup, NoPbufLost
<1> QED BY <1>1, <1>2, <1>3

LEMMA PostKeeps == ASSUME IInv, NEW ok \in BOOLEAN, Post(ok) PROVE IInv'
<1> USE DEF IInv
<1>1. p \in Nat \ {None}
  BY DEF Post, HandlerInv, TypeOK
<1>2. TypeOK'
  <2>1. inbox' \in Seq(Nat \ {None})
    <3>1. Append(inbox, p) \in Seq(Nat \ {None})
      BY <1>1 DEF TypeOK
    <3> QED BY <3>1 DEF Post, TypeOK
  <2>2. pool' \in Nat
    BY DEF Post, TypeOK
  <2>3. p' \in Nat /\ isr' = "look"
    BY DEF Post, None
  <2> QED BY <2>1, <2>2, <2>3 DEF Post, TypeOK, rx, output
<1>3. RxRing' /\ TxRing'
  BY DEF Post, rx, output, RxRing, Waiting, TxRing, Unsent, Given
<1>4. HandlerInv' /\ ThreadInv' /\ NoLostWakeup'
  BY DEF Post, rx, output, HandlerInv, ThreadInv, NoLostWakeup
<1>5. NoPbufLost'
  <2>1. pool + Len(inbox) + 1 = PoolSize /\ pool \in Nat /\ Len(inbox) \in Nat
    BY <1>1 DEF NoPbufLost, TypeOK
  <2>2. p' = None
    BY DEF Post
  <2>3. CASE ok /\ Len(inbox) < MboxSize
    <3>1. Len(inbox') = Len(inbox) + 1 /\ pool' = pool
      BY <1>1, <2>3 DEF Post, TypeOK
    <3> QED BY <2>1, <2>2, <3>1 DEF NoPbufLost
  <2>4. CASE ~(ok /\ Len(inbox) < MboxSize)
    <3>1. inbox' = inbox /\ pool' = pool + 1
      BY <2>4 DEF Post
    <3> QED BY <2>1, <2>2, <3>1 DEF NoPbufLost
  <2> QED BY <2>3, <2>4
<1> QED BY <1>2, <1>3, <1>4, <1>5

LEMMA ClearKeeps == ASSUME IInv, Clear PROVE IInv'
<1> USE EthRingAssumption DEF IInv
<1>1. TypeOK'
  BY DEF Clear, TypeOK, output
<1>2. RxRing' /\ TxRing'
  BY DEF Clear, output, RxRing, Waiting, TxRing, Unsent, Given
<1>3. ~own[dma]
  <2>1. Waiting # RxN
    BY DEF Clear, HandlerInv, TypeOK, Waiting
  <2>2. /\ cpu \in 0..(RxN - 1) /\ dma \in 0..(RxN - 1)
        /\ Waiting \in Int /\ taken + 1 \in Int
    BY DEF TypeOK, RxSlot, Waiting
  <2> QED BY <2>1, <2>2, RingFull DEF RxRing
<1>4. HandlerInv' /\ ThreadInv' /\ NoPbufLost'
  BY DEF Clear, output, HandlerInv, Waiting, ThreadInv, NoPbufLost
<1>5. NoLostWakeup'
  BY <1>3 DEF Clear, output, NoLostWakeup
<1> QED BY <1>1, <1>2, <1>4, <1>5

-----------------------------------------------------------------------------
(* The steps of tcpip_thread                                               *)

LEMMA HandleKeeps == ASSUME IInv, Handle PROVE IInv'
<1> USE DEF IInv
<1>1. TypeOK'
  BY DEF Handle, TypeOK, rx, output
<1>2. RxRing' /\ TxRing'
  BY DEF Handle, rx, output, RxRing, Waiting, TxRing, Unsent, Given
<1>3. HandlerInv' /\ ThreadInv' /\ NoLostWakeup'
  BY DEF Handle, rx, output, HandlerInv, Waiting, ThreadInv, NoLostWakeup
<1>4. NoPbufLost'
  BY DEF Handle, NoPbufLost, TypeOK
<1> QED BY <1>1, <1>2, <1>3, <1>4

LEMMA CopyKeeps == ASSUME IInv, Copy PROVE IInv'
<1> USE EthRingAssumption DEF IInv
<1>1. TypeOK'
  BY DEF Copy, TypeOK, rx
<1>2. RxRing' /\ HandlerInv' /\ NoPbufLost' /\ NoLostWakeup'
  BY DEF Copy, rx, RxRing, Waiting, HandlerInv, NoPbufLost, NoLostWakeup
<1>3. TxRing'
  <2>1. /\ txOwn \in [0..(TxN - 1) -> BOOLEAN] /\ txFrame \in [0..(TxN - 1) -> Nat]
        /\ tx \in 0..(TxN - 1) /\ txDma \in 0..(TxN - 1) /\ ~txOwn[tx]
        /\ Unsent \in Int /\ sent + 1 \in Int /\ accepted + 1 \in Nat
    BY DEF Copy, TypeOK, TxSlot, Unsent, Given
  <2>2. Holds(txOwn, [txFrame EXCEPT ![tx] = accepted + 1], txDma, Unsent,
              sent + 1, TxN)
    BY <2>1, RingWrite DEF TxRing
  <2>3. /\ Unsent' = Unsent /\ UNCHANGED <<txOwn, tx, txDma, sent>>
        /\ txFrame' = [txFrame EXCEPT ![tx] = accepted + 1]
    BY DEF Copy, Unsent, Given
  <2> QED BY <2>2, <2>3 DEF TxRing
<1>4. ThreadInv'
  BY DEF Copy, ThreadInv, TypeOK
<1> QED BY <1>1, <1>2, <1>3, <1>4

LEMMA LockKeeps == ASSUME IInv, Lock PROVE IInv'
<1> USE DEF IInv
<1>1. ~lock
  BY DEF Lock, ThreadInv
<1>2. TypeOK'
  <2>1. lock' = TRUE /\ thread' = "locked" /\ accepted' = accepted
    BY <1>1 DEF Lock
  <2> QED BY <2>1 DEF Lock, TypeOK, rx
<1>3. RxRing' /\ TxRing'
  BY <1>1 DEF Lock, rx, RxRing, Waiting, TxRing, Unsent, Given
<1>4. HandlerInv' /\ ThreadInv' /\ NoLostWakeup' /\ NoPbufLost'
  BY <1>1 DEF Lock, rx, HandlerInv, Waiting, ThreadInv, NoLostWakeup, NoPbufLost
<1> QED BY <1>2, <1>3, <1>4

LEMMA GiveKeeps == ASSUME IInv, Give PROVE IInv'
<1> USE EthRingAssumption DEF IInv
<1>1. ~txOwn[tx] /\ txFrame[tx] = accepted + 1
  BY DEF Give, ThreadInv
<1>2. TypeOK'
  <2>1. tx' \in TxSlot
    BY <1>1 DEF Give, TypeOK, TxSlot, After
  <2>2. txOwn' \in [TxSlot -> BOOLEAN]
    BY <1>1 DEF Give, TypeOK
  <2>3. lock' = lock /\ accepted' = accepted /\ thread' = "given"
    BY <1>1 DEF Give
  <2> QED BY <2>1, <2>2, <2>3 DEF Give, TypeOK, rx
<1>3. RxRing' /\ HandlerInv' /\ NoPbufLost'
  BY DEF Give, rx, RxRing, Waiting, HandlerInv, NoPbufLost
<1>4. /\ txOwn \in [0..(TxN - 1) -> BOOLEAN] /\ txFrame \in [0..(TxN - 1) -> Nat]
      /\ tx \in 0..(TxN - 1) /\ txDma \in 0..(TxN - 1)
      /\ Unsent \in Int /\ sent + 1 \in Int
      /\ txFrame[tx] = sent + 1 + Unsent
  BY <1>1 DEF Give, TypeOK, TxSlot, Unsent, Given
<1>5. /\ Position(txDma, After(tx, TxN), Unsent + 1, TxN)
      /\ Holds([txOwn EXCEPT ![tx] = TRUE], txFrame, txDma, Unsent + 1, sent + 1, TxN)
  BY <1>1, <1>4, RingPut DEF TxRing
<1>6. TxRing'
  <2>1. /\ Unsent' = Unsent + 1 /\ UNCHANGED <<txFrame, txDma, sent>>
        /\ txOwn' = [txOwn EXCEPT ![tx] = TRUE] /\ tx' = After(tx, TxN)
    BY <1>1 DEF Give, Unsent, Given, TypeOK
  <2> QED BY <1>5, <2>1 DEF TxRing
<1>7. ThreadInv'
  BY <1>1 DEF Give, ThreadInv
<1>8. NoLostWakeup'
  BY <1>1 DEF Give, rx, NoLostWakeup
<1> QED BY <1>2, <1>3, <1>6, <1>7, <1>8

LEMMA DemandKeeps == ASSUME IInv, Demand PROVE IInv'
<1> USE DEF IInv
<1>1. TypeOK'
  <2>1. lock' = FALSE /\ thread' = "idle" /\ accepted' \in Nat /\ txSuspended' = FALSE
    BY DEF Demand, TypeOK
  <2> QED BY <2>1 DEF Demand, TypeOK, rx
<1>2. RxRing' /\ HandlerInv' /\ NoPbufLost'
  BY DEF Demand, rx, RxRing, Waiting, HandlerInv, NoPbufLost
<1>3. Unsent' = Unsent
  BY DEF Demand, Unsent, Given, TypeOK
<1>4. TxRing'
  BY <1>3 DEF Demand, TxRing
<1>5. ThreadInv' /\ NoLostWakeup'
  BY DEF Demand, rx, ThreadInv, NoLostWakeup
<1> QED BY <1>1, <1>2, <1>4, <1>5

-----------------------------------------------------------------------------
(* The theorems                                                            *)

LEMMA StepKeeps == IInv /\ [Next]_vars => IInv'
<1> SUFFICES ASSUME IInv, [Next]_vars PROVE IInv'
  OBVIOUS
<1>1. CASE Controller
  BY <1>1, StoreKeeps, SuspendKeeps, SendKeeps, TxSuspendKeeps DEF Controller
<1>2. CASE Interrupt
  BY <1>2, InterruptKeeps
<1>3. CASE Handler
  BY <1>3, LookKeeps, TakeKeeps, ResumeKeeps, PostKeeps, ClearKeeps DEF Handler
<1>4. CASE Thread
  BY <1>4, HandleKeeps, CopyKeeps, LockKeeps, GiveKeeps, DemandKeeps DEF Thread
<1>5. CASE UNCHANGED vars
  BY <1>5 DEF vars, rx, output, IInv, TypeOK, RxRing, Waiting, TxRing, Unsent, Given,
              HandlerInv, ThreadInv, NoLostWakeup, NoPbufLost
<1> QED BY <1>1, <1>2, <1>3, <1>4, <1>5 DEF Next

LEMMA Invariance == Spec => []IInv
BY StartsSound, StepKeeps, PTL DEF Spec

\* Positions in the rings, frame numbers and counts stay in range, for rings,
\* mailboxes and pools of every size.
THEOREM TypeCorrect == Spec => []TypeOK
<1>1. IInv => TypeOK
  BY DEF IInv
<1> QED BY <1>1, Invariance, PTL

\* ETH_IRQHandler takes the frames in the order in which the controller stored
\* them, and the controller sends those low_level_output accepted, none lost,
\* repeated or overtaken.
THEOREM RingsKeepOrder == Spec => []FramesInOrder
<1>1. IInv => FramesInOrder
  BY DEF IInv, RxRing, TxRing, FramesInOrder, ReceivedInOrder, AcceptedIsSent, Holds,
         Waiting, Unsent, Given, RxSlot, TxSlot
<1> QED BY <1>1, Invariance, PTL

\* The poll demand of low_level_input and of HAL_ETH_TransmitFrame comes late
\* enough: a controller that has stopped finds an interrupt or a thread that
\* will wake it.
THEOREM NobodySleepsOn == Spec => []NoLostWakeup
<1>1. IInv => NoLostWakeup
  BY DEF IInv
<1> QED BY <1>1, Invariance, PTL

\* What ETH_IRQHandler leaves behind arrived after its last look at the ring.
THEOREM OnlyLateFramesWait == Spec => []OnlyLateLeft
<1>1. IInv => OnlyLateLeft
  BY DEF IInv, HandlerInv, OnlyLateLeft, Waiting
<1> QED BY <1>1, Invariance, PTL

\* Frames that find no pbuf, no message or no room in the mailbox cost no pbuf.
THEOREM PbufsComeBack == Spec => []NoPbufLost
<1>1. IInv => NoPbufLost
  BY DEF IInv
<1> QED BY <1>1, Invariance, PTL

=============================================================================
