--------------------------- MODULE LwipBootProofs ---------------------------
(***************************************************************************)
(* Theorems about LwipBoot, for pools and requests of every size.          *)
(***************************************************************************)
EXTENDS LwipBoot, WellFoundedInduction, FiniteSetTheorems, TLAPS

-----------------------------------------------------------------------------
(* The allocator                                                           *)

\* The topmost of some numbers below a bound exists.
LEMMA TopmostExists ==
    ASSUME NEW D \in Nat, NEW S \in SUBSET (0..D), S # {}
    PROVE  Max(S) \in S /\ \A o \in S : o <= Max(S)
<1> DEFINE T == {D - o : o \in S}
<1>0. \A o \in S : D - o \in Nat
    OBVIOUS
<1>1. T \subseteq Nat /\ T # {}
    BY <1>0, Zenon
<1>2. PICK x \in T : \A y \in T : <<y, x>> \notin OpToRel(<, Nat)
    BY <1>1, NatLessThanWellFounded, WFMin, Zenon
<1>3. \A y \in T : ~(y < x)
    BY <1>1, <1>2 DEF OpToRel
<1>4. PICK m \in S : x = D - m
    BY <1>2
<1>5. \A o \in S : m >= o
    <2> SUFFICES ASSUME NEW o \in S PROVE m >= o
        OBVIOUS
    <2>1. D - o \in T
        OBVIOUS
    <2>2. ~(D - o < D - m)
        BY <2>1, <1>3, <1>4
    <2> QED
        BY <2>2
<1> QED
    BY <1>5 DEF Max

LEMMA NMembType ==
    ASSUME NEW bytes \in Nat
    PROVE  NMemb(bytes) \in Nat
BY BlockPoolAssumption DEF NMemb

\* A run that is found lies in the table and is free.
LEMMA MallocFits ==
    ASSUME NEW size \in Nat \ {0}, NEW t \in Table(size), NEW n \in Nat,
           MallocAt(t, n) # Fail
    PROVE  /\ n > 0 /\ MallocAt(t, n) \in 0..(size - 1)
           /\ \A i \in Run(MallocAt(t, n), n) : i \in 0..(size - 1) /\ t[i] = 0
<1>1. n # 0 /\ Fits(t, n) # {} /\ MallocAt(t, n) = Max(Fits(t, n))
    BY DEF MallocAt
<1>2. Fits(t, n) \in SUBSET (0..(size - 1))
    BY DEF Fits, Table
<1>3. size - 1 \in Nat
    OBVIOUS
<1>4. Fits(t, n) \in SUBSET (0..(size - 1)) /\ Max(Fits(t, n)) \in Fits(t, n)
    <2> DEFINE d == size - 1
    <2>1. d \in Nat /\ Fits(t, n) \in SUBSET (0..d)
        BY <1>2, <1>3
    <2> HIDE DEF d
    <2>2. Max(Fits(t, n)) \in Fits(t, n)
        BY <2>1, <1>1, TopmostExists, Zenon
    <2> QED
        BY <1>2, <2>2
<1> DEFINE m == MallocAt(t, n)
<1>5. m \in {x \in DOMAIN t : /\ Run(x, n) \subseteq DOMAIN t
                              /\ \A i \in Run(x, n) : t[i] = 0}
    BY <1>1, <1>4 DEF Fits
<1>6. DOMAIN t = 0..(size - 1)
    BY DEF Table
<1> HIDE DEF m
<1>7. m \in 0..(size - 1) /\ \A i \in Run(m, n) : i \in 0..(size - 1) /\ t[i] = 0
    BY <1>5, <1>6, Zenon
<1>8. n > 0
    BY <1>1
<1> QED
    BY <1>7, <1>8 DEF m

-----------------------------------------------------------------------------
(* The inductive invariant                                                 *)

TypeInv ==
    /\ pc \in Pool \cup {"undo", "phy", "delay", "up"}
    /\ k \in Nat \ {0} /\ retry \in 0..Retries
    /\ \A p \in Pool : pc = p => k \in DOMAIN Bytes[p]
    /\ pc = "undo" => k \in DOMAIN Bytes["sram"]
    /\ pc \in {"phy", "delay", "up"} => k = 1
    /\ table = [p \in Pool |-> table[p]] /\ ptr = [p \in Pool |-> ptr[p]]
    /\ \A p \in Pool : /\ table[p] \in Table(Blocks[p])
                       /\ ptr[p] \in [DOMAIN Bytes[p] -> Nat \cup {Fail}]
    /\ held \subseteq Allocation

\* What a pointer into the internal pool may be: NULL, the start of an
\* allocation or, once some are freed, of a free block.
Starts(o) == o = Fail \/ \E a \in held : a.pool = "sram" /\ a.off = o
FreeAt(o) == o \in DOMAIN table["sram"] /\ table["sram"][o] = 0

PtrsOK ==
    /\ pc = "sram" => \A i \in DOMAIN Bytes["sram"] : i < k => Starts(ptr["sram"][i])
    /\ pc = "undo" => \A i \in DOMAIN Bytes["sram"] :
                        i >= k => \/ Starts(ptr["sram"][i])
                                  \/ FreeAt(ptr["sram"][i])

IInv == TypeInv /\ PoolsConsistent /\ PtrsOK

LEMMA InitIInv == Init => IInv
<1> SUFFICES ASSUME Init PROVE IInv
    OBVIOUS
<1>1. TypeInv
    BY LwipBootAssumption DEF Init, TypeInv, Pool, Table, Fail
<1>2. PoolsConsistent
    BY DEF Init, PoolsConsistent, Pool
<1>3. PtrsOK
    BY DEF Init, PtrsOK
<1> QED
    BY <1>1, <1>2, <1>3 DEF IInv

\* mymalloc keeps the tables exact, and what it returns is NULL or the start of
\* an allocation.
LEMMA MallocKeeps ==
    ASSUME TypeInv, PoolsConsistent, NEW p \in Pool, k \in DOMAIN Bytes[p],
           Malloc(p)
    PROVE  /\ PoolsConsistent'
           /\ table' = [q \in Pool |-> table'[q]] /\ ptr' = [q \in Pool |-> ptr'[q]]
           /\ \A q \in Pool : /\ table'[q] \in Table(Blocks[q])
                              /\ ptr'[q] \in [DOMAIN Bytes[q] -> Nat \cup {Fail}]
           /\ held' \subseteq Allocation /\ held \subseteq held'
           /\ p = "sram" =>
                ptr'["sram"][k] = Fail \/ \E a \in held' : /\ a.pool = "sram"
                                                         /\ a.off = ptr'["sram"][k]
           /\ \A i \in DOMAIN Bytes["sram"] :
                p # "sram" \/ i # k => ptr'["sram"][i] = ptr["sram"][i]
<1> DEFINE n == NMemb(Bytes[p][k])
           o == MallocAt(table[p], n)
<1>1. n \in Nat
    BY LwipBootAssumption, NMembType
<1>2. Blocks[p] \in Nat \ {0} /\ table[p] \in Table(Blocks[p])
    BY LwipBootAssumption DEF TypeInv
<1>3. /\ table' = [table EXCEPT ![p] = Marked(table[p], o, n)]
      /\ ptr' = [ptr EXCEPT ![p][k] = o]
      /\ held' = IF o = Fail THEN held ELSE held \cup {Alloc(p, o, n)}
    BY DEF Malloc
<1>4. o # Fail => /\ n > 0 /\ o \in 0..(Blocks[p] - 1)
                  /\ \A i \in Run(o, n) : i \in 0..(Blocks[p] - 1) /\ table[p][i] = 0
    BY <1>1, <1>2, MallocFits, Zenon
<1> HIDE DEF n, o
<1>5. o = Fail \/ o \in Nat
    BY <1>2, <1>4
<1>11. /\ table' = [q \in Pool |-> table'[q]] /\ ptr' = [q \in Pool |-> ptr'[q]]
       /\ \A q \in Pool \ {p} : ptr'[q] = ptr[q]
       /\ ptr'[p] = [ptr[p] EXCEPT ![k] = o]
    BY <1>3 DEF TypeInv
<1>12. ptr[p] \in [DOMAIN Bytes[p] -> Nat \cup {Fail}]
    BY DEF TypeInv
<1>13. /\ ptr'[p] \in [DOMAIN Bytes[p] -> Nat \cup {Fail}]
       /\ ptr'[p][k] = o
       /\ \A i \in DOMAIN Bytes[p] : i # k => ptr'[p][i] = ptr[p][i]
    BY <1>11, <1>12, <1>5
<1>14. ASSUME NEW q \in Pool
       PROVE  ptr'[q] \in [DOMAIN Bytes[q] -> Nat \cup {Fail}]
    BY <1>11, <1>13 DEF TypeInv
<1>15. ASSUME NEW i \in DOMAIN Bytes["sram"], p # "sram" \/ i # k
       PROVE  ptr'["sram"][i] = ptr["sram"][i]
    BY <1>11, <1>13, <1>15 DEF Pool
<1>6. /\ table' = [q \in Pool |-> table'[q]] /\ ptr' = [q \in Pool |-> ptr'[q]]
      /\ \A q \in Pool : ptr'[q] \in [DOMAIN Bytes[q] -> Nat \cup {Fail}]
      /\ \A i \in DOMAIN Bytes["sram"] :
           p # "sram" \/ i # k => ptr'["sram"][i] = ptr["sram"][i]
    BY <1>11, <1>14, <1>15
<1>7. /\ \A q \in Pool \ {p} : table'[q] = table[q]
      /\ table'[p] = Marked(table[p], o, n)
    BY <1>3 DEF TypeInv
<1>8. table'[p] \in Table(Blocks[p])
    BY <1>1, <1>2, <1>7 DEF Marked, Table
<1>9. CASE o = Fail
    <2>1. table' = table /\ held' = held
        BY <1>3, <1>9, <1>7, <1>6 DEF Marked, TypeInv
    <2>2. PoolsConsistent'
        BY <2>1 DEF PoolsConsistent
    <2>3. p = "sram" => ptr'["sram"][k] = Fail
        BY <1>13, <1>9
    <2> QED
        BY <1>6, <2>1, <2>2, <2>3 DEF TypeInv
<1>10. CASE o # Fail
    <2> DEFINE new == Alloc(p, o, n)
    <2>1. new.pool = p /\ new.off = o /\ new.n = n /\ new \in Allocation
        BY <1>10, <1>4, <1>1, <1>5 DEF Alloc, Allocation
    <2>2. held' = held \cup {new}
        BY <1>3, <1>10
    <2> HIDE DEF new
    <2>3. p = "sram" => \E a \in held' : a.pool = "sram" /\ a.off = ptr'["sram"][k]
        BY <1>13, <2>1, <2>2
    <2>4. /\ \A i \in Run(o, n) : i \in DOMAIN table[p] /\ table'[p][i] = n
          /\ \A i \in DOMAIN table[p] \ Run(o, n) : table'[p][i] = table[p][i]
          /\ DOMAIN table'[p] = DOMAIN table[p]
        BY <1>10, <1>4, <1>7, <1>2 DEF Marked, Table
    <2>5. \A a \in held : a.pool = p => Run(a.off, a.n) \cap Run(o, n) = {}
        <3> SUFFICES ASSUME NEW a \in held, a.pool = p, NEW i \in Run(a.off, a.n),
                            i \in Run(o, n)
                     PROVE  FALSE
            OBVIOUS
        <3>1. table[p][i] = a.n /\ a.n # 0
            BY DEF PoolsConsistent, TypeInv, Allocation
        <3> QED
            BY <3>1, <1>10, <1>4
    <2>6. ASSUME NEW a \in held', NEW i \in Run(a.off, a.n)
          PROVE  i \in DOMAIN table'[a.pool] /\ table'[a.pool][i] = a.n
        <3>1. CASE a = new
            BY <3>1, <2>6, <2>1, <2>4
        <3>2. CASE a \in held
            <4>1. a.pool \in Pool /\ i \in DOMAIN table[a.pool] /\ table[a.pool][i] = a.n
                BY <3>2, <2>6 DEF PoolsConsistent, TypeInv, Allocation
            <4>2. CASE a.pool = p
                BY <4>1, <4>2, <3>2, <2>4, <2>5, <2>6
            <4>3. CASE a.pool # p
                BY <4>1, <4>3, <1>7
            <4> QED
                BY <4>2, <4>3
        <3> QED
            BY <3>1, <3>2, <2>2, <2>6
    <2>7. ASSUME NEW a \in held', NEW b \in held', a # b, a.pool = b.pool
          PROVE  Run(a.off, a.n) \cap Run(b.off, b.n) = {}
        <3>1. CASE a \in held /\ b \in held
            BY <3>1, <2>7 DEF PoolsConsistent
        <3>2. CASE a = new
            BY <3>2, <2>1, <2>2, <2>5, <2>7
        <3>3. CASE b = new
            BY <3>3, <2>1, <2>2, <2>5, <2>7
        <3> QED
            BY <3>1, <3>2, <3>3, <2>2, <2>7
    <2>8. ASSUME NEW q \in Pool, NEW i \in DOMAIN table'[q], table'[q][i] # 0
          PROVE  \E a \in held' : a.pool = q /\ i \in Run(a.off, a.n)
        <3>1. CASE q = p /\ i \in Run(o, n)
            BY <3>1, <2>1, <2>2
        <3>2. CASE q # p \/ i \notin Run(o, n)
            <4>1. i \in DOMAIN table[q] /\ table[q][i] # 0
                BY <3>2, <2>4, <1>7, <2>8
            <4>2. \E a \in held : a.pool = q /\ i \in Run(a.off, a.n)
                BY <4>1 DEF PoolsConsistent
            <4> QED
                BY <4>2, <2>2
        <3> QED
            BY <3>1, <3>2
    <2>9. PoolsConsistent'
        BY <2>6, <2>7, <2>8 DEF PoolsConsistent
    <2> QED
        BY <1>6, <1>7, <1>8, <2>1, <2>2, <2>3, <2>9 DEF TypeInv
<1> QED
    BY <1>9, <1>10

LEMMA EthMemMallocIInv == IInv /\ EthMemMalloc => IInv'
<1> SUFFICES ASSUME IInv, EthMemMalloc PROVE IInv'
    OBVIOUS
<1>1. TypeInv /\ PoolsConsistent /\ pc = "dtcm" /\ "dtcm" \in Pool /\ Malloc("dtcm")
    BY DEF IInv, EthMemMalloc, Pool
<1>2. k \in DOMAIN Bytes["dtcm"]
    BY <1>1 DEF TypeInv
<1>3. /\ PoolsConsistent'
      /\ table' = [q \in Pool |-> table'[q]] /\ ptr' = [q \in Pool |-> ptr'[q]]
      /\ \A q \in Pool : /\ table'[q] \in Table(Blocks[q])
                         /\ ptr'[q] \in [DOMAIN Bytes[q] -> Nat \cup {Fail}]
      /\ held' \subseteq Allocation
    BY <1>1, <1>2, MallocKeeps
<1>4. /\ pc' \in {"dtcm", "sram"} /\ retry' = retry
      /\ pc' = "dtcm" => k' = k + 1 /\ k # Len(Bytes["dtcm"])
      /\ pc' = "sram" => k' = 1
    BY <1>1 DEF EthMemMalloc, Last
<1>5. \A p \in Pool : Bytes[p] \in Seq(Nat) /\ Len(Bytes[p]) > 0
    BY LwipBootAssumption
<1>6. \A p \in Pool : DOMAIN Bytes[p] = 1..Len(Bytes[p]) /\ 1 \in DOMAIN Bytes[p]
    BY <1>5
<1>7. \A p \in Pool : pc' = p => k' \in DOMAIN Bytes[p]
    BY <1>1, <1>2, <1>4, <1>5, <1>6 DEF Pool
<1>8. TypeInv'
    BY <1>1, <1>3, <1>4, <1>7 DEF TypeInv, Pool
<1>9. PtrsOK'
    <2>1. \A i \in DOMAIN Bytes["sram"] : ~(i < 1)
        BY <1>5, <1>6 DEF Pool
    <2> QED
        BY <2>1, <1>4 DEF PtrsOK
<1> QED
    BY <1>3, <1>8, <1>9 DEF IInv

LEMMA LwipMemMallocIInv == IInv /\ LwipMemMalloc => IInv'
<1> SUFFICES ASSUME IInv, LwipMemMalloc PROVE IInv'
    OBVIOUS
<1>1. /\ TypeInv /\ PoolsConsistent /\ PtrsOK
      /\ pc = "sram" /\ "sram" \in Pool /\ Malloc("sram")
    BY DEF IInv, LwipMemMalloc, Pool
<1>2. k \in DOMAIN Bytes["sram"]
    BY <1>1 DEF TypeInv
<1>3. /\ PoolsConsistent'
      /\ table' = [q \in Pool |-> table'[q]] /\ ptr' = [q \in Pool |-> ptr'[q]]
      /\ \A q \in Pool : /\ table'[q] \in Table(Blocks[q])
                         /\ ptr'[q] \in [DOMAIN Bytes[q] -> Nat \cup {Fail}]
      /\ held' \subseteq Allocation /\ held \subseteq held'
      /\ \/ ptr'["sram"][k] = Fail
         \/ \E a \in held' : a.pool = "sram" /\ a.off = ptr'["sram"][k]
      /\ \A i \in DOMAIN Bytes["sram"] : i # k => ptr'["sram"][i] = ptr["sram"][i]
    BY <1>1, <1>2, MallocKeeps
<1>4. /\ pc' \in {"sram", "undo", "phy"} /\ retry' = retry
      /\ pc' = "sram" => k' = k + 1 /\ k # Len(Bytes["sram"])
      /\ pc' # "sram" => k' = 1 /\ k = Len(Bytes["sram"])
    BY <1>1 DEF LwipMemMalloc, Last
<1>5. Bytes["sram"] \in Seq(Nat) /\ Len(Bytes["sram"]) > 0
    BY <1>1, LwipBootAssumption
<1>6. DOMAIN Bytes["sram"] = 1..Len(Bytes["sram"]) /\ 1 \in DOMAIN Bytes["sram"]
    BY <1>5
<1>7. pc' \in {"sram", "undo"} => k' \in DOMAIN Bytes["sram"]
    BY <1>2, <1>4, <1>5, <1>6
<1>8. TypeInv'
    BY <1>1, <1>3, <1>4, <1>7 DEF TypeInv, Pool
<1>9. ASSUME NEW i \in DOMAIN Bytes["sram"], i <= k
      PROVE  Starts(ptr["sram"][i])'
    <2>1. CASE i = k
        BY <2>1, <1>3 DEF Starts
    <2>2. CASE i # k
        <3>1. i < k
            BY <2>2, <1>9, <1>2, <1>6
        <3>2. Starts(ptr["sram"][i])
            BY <3>1, <1>1 DEF PtrsOK
        <3> QED
            BY <3>2, <2>2, <1>3 DEF Starts
    <2> QED
        BY <2>1, <2>2
<1>10. PtrsOK'
    <2>1. ASSUME pc' = "sram", NEW i \in DOMAIN Bytes["sram"], i < k'
          PROVE  Starts(ptr["sram"][i])'
        <3>1. i <= k
            BY <2>1, <1>2, <1>4, <1>6
        <3> QED
            BY <3>1, <1>9
    <2>2. ASSUME pc' = "undo", NEW i \in DOMAIN Bytes["sram"]
          PROVE  Starts(ptr["sram"][i])'
        <3>1. i <= k
            BY <2>2, <1>4, <1>5, <1>6
        <3> QED
            BY <3>1, <1>9
    <2> QED
        BY <2>1, <2>2 DEF PtrsOK
<1> QED
    BY <1>3, <1>8, <1>10 DEF IInv

LEMMA FreedType ==
    ASSUME NEW size, NEW t \in Table(size), NEW o
    PROVE  Freed(t, o) \in Table(size)
<1>1. CASE o = Fail
    BY <1>1 DEF Freed
<1>2. CASE o # Fail
    <2>1. Freed(t, o) = [i \in DOMAIN t |-> IF i \in Run(o, t[o]) THEN 0 ELSE t[i]]
        BY <1>2 DEF Freed
    <2>2. DOMAIN t = 0..(size - 1) /\ \A i \in DOMAIN t : t[i] \in Nat
        BY DEF Table
    <2> QED
        BY <2>1, <2>2 DEF Table
<1> QED
    BY <1>1, <1>2

\* myfree with the start of an allocation clears that one, with a freed block or
\* NULL nothing.
LEMMA LwipMemFreeIInv == IInv /\ LwipMemFree => IInv'
<1> SUFFICES ASSUME IInv, LwipMemFree PROVE IInv'
    OBVIOUS
<1> DEFINE o == ptr["sram"][k]
<1>1. TypeInv /\ PoolsConsistent /\ PtrsOK /\ pc = "undo" /\ "sram" \in Pool
    BY DEF IInv, LwipMemFree, Pool
<1>2. k \in DOMAIN Bytes["sram"]
    BY <1>1 DEF TypeInv
<1>3. /\ Bytes["sram"] \in Seq(Nat) /\ Len(Bytes["sram"]) > 0
      /\ DOMAIN Bytes["sram"] = 1..Len(Bytes["sram"])
    BY <1>1, LwipBootAssumption
<1>4. o \in Nat \cup {Fail}
    BY <1>1, <1>2 DEF TypeInv
<1>5. o = Fail \/ FreeAt(o) \/ \E a \in held : a.pool = "sram" /\ a.off = o
    BY <1>1, <1>2, <1>3 DEF PtrsOK, Starts
<1>6. /\ table' = [table EXCEPT !["sram"] = Freed(table["sram"], o)]
      /\ held' = {a \in held : ~(a.pool = "sram" /\ a.off = o)}
      /\ ptr' = ptr /\ retry' = retry
      /\ pc' \in {"undo", "delay"}
      /\ pc' = "undo" => k' = k + 1 /\ k # Len(Bytes["sram"])
      /\ pc' = "delay" => k' = 1
    BY <1>1 DEF LwipMemFree, Last
<1> HIDE DEF o
<1>7. /\ table' = [q \in Pool |-> table'[q]]
      /\ \A q \in Pool \ {"sram"} : table'[q] = table[q]
      /\ table'["sram"] = Freed(table["sram"], o)
    BY <1>1, <1>6 DEF TypeInv
<1>8. table["sram"] \in Table(Blocks["sram"])
    BY <1>1 DEF TypeInv
<1>9. table'["sram"] \in Table(Blocks["sram"])
    BY <1>7, <1>8, FreedType
<1>10. TypeInv'
    <2>1. \A p \in Pool : table'[p] \in Table(Blocks[p])
        BY <1>1, <1>7, <1>9 DEF TypeInv
    <2>2. held' \subseteq Allocation
        BY <1>1, <1>6 DEF TypeInv
    <2>3. pc' = "undo" => k' \in DOMAIN Bytes["sram"]
        BY <1>2, <1>3, <1>6
    <2>4. k' \in Nat \ {0}
        BY <1>1, <1>6 DEF TypeInv
    <2> QED
        BY <1>1, <1>6, <1>7, <2>1, <2>2, <2>3, <2>4 DEF TypeInv, Pool
<1>11. \A i \in DOMAIN table["sram"] :
         table["sram"][i] = 0 => table'["sram"][i] = 0
    BY <1>7, <1>8 DEF Freed, Table
<1>12. CASE o = Fail \/ FreeAt(o)
    <2>1. table'["sram"] = table["sram"]
        BY <1>12, <1>4, <1>7, <1>8 DEF Freed, Table, FreeAt, Run
    <2>2. \A a \in held : ~(a.pool = "sram" /\ a.off = o)
        <3> SUFFICES ASSUME NEW a \in held, a.pool = "sram", a.off = o PROVE FALSE
            OBVIOUS
        <3>1. a.off \in Nat /\ a.n \in Nat \ {0}
            BY <1>1 DEF TypeInv, Allocation
        <3>2. a.off \in Run(a.off, a.n)
            BY <3>1 DEF Run
        <3>3. table["sram"][o] = a.n
            BY <3>2, <1>1 DEF PoolsConsistent
        <3> QED
            BY <3>1, <3>3, <1>12 DEF FreeAt, Fail
    <2>3. held' = held
        BY <2>2, <1>6
    <2>4. \A q \in Pool : table'[q] = table[q]
        BY <1>7, <2>1
    <2>5. \A a \in held : a.pool \in Pool
        BY <1>1 DEF TypeInv, Allocation
    <2>6. PoolsConsistent'
        BY <1>1, <2>3, <2>4, <2>5 DEF PoolsConsistent
    <2>7. PtrsOK'
        BY <1>1, <1>2, <1>3, <1>6, <2>1, <2>3 DEF PtrsOK, Starts, FreeAt
    <2> QED
        BY <1>10, <2>6, <2>7 DEF IInv
<1>13. CASE \E a \in held : a.pool = "sram" /\ a.off = o
    <2>1. PICK a \in held : a.pool = "sram" /\ a.off = o
        BY <1>13
    <2>2. a.off \in Nat /\ a.n \in Nat \ {0} /\ a.off \in Run(a.off, a.n)
        BY <1>1 DEF TypeInv, Allocation, Run
    <2>3. o # Fail /\ table["sram"][o] = a.n
        BY <2>1, <2>2, <1>1 DEF PoolsConsistent, Fail
    <2>4. /\ DOMAIN table'["sram"] = DOMAIN table["sram"]
          /\ \A i \in DOMAIN table["sram"] :
               table'["sram"][i] = IF i \in Run(o, a.n) THEN 0 ELSE table["sram"][i]
        BY <2>3, <1>7, <1>8 DEF Freed, Table
    <2>5. \A b \in held : b # a /\ b.pool = "sram" => Run(b.off, b.n) \cap Run(o, a.n) = {}
        BY <2>1, <1>1 DEF PoolsConsistent
    <2>6. held' = held \ {a}
        <3>1. ASSUME NEW b \in held, b.pool = "sram", b.off = o, b # a PROVE FALSE
            <4>1. b.off \in Run(b.off, b.n)
                BY <1>1 DEF TypeInv, Allocation, Run
            <4> QED
                BY <4>1, <3>1, <2>1, <2>2, <2>5
        <3> QED
            BY <3>1, <2>1, <1>6
    <2>7. ASSUME NEW b \in held', NEW i \in Run(b.off, b.n)
          PROVE  i \in DOMAIN table'[b.pool] /\ table'[b.pool][i] = b.n
        <3>4. b \in held /\ b # a
            BY <2>6, <2>7
        <3>5. b.pool \in Pool
            BY <3>4, <1>1 DEF TypeInv, Allocation
        <3>6. i \in DOMAIN table[b.pool] /\ table[b.pool][i] = b.n
            BY <3>4, <2>7, <1>1 DEF PoolsConsistent
        <3>1. /\ b \in held /\ b # a /\ b.pool \in Pool
              /\ i \in DOMAIN table[b.pool] /\ table[b.pool][i] = b.n
            BY <3>4, <3>5, <3>6
        <3>2. CASE b.pool = "sram"
            BY <3>1, <3>2, <2>4, <2>5, <2>7
        <3>3. CASE b.pool # "sram"
            BY <3>1, <3>3, <1>7
        <3> QED
            BY <3>2, <3>3
    <2>8. ASSUME NEW b \in held', NEW c \in held', b # c, b.pool = c.pool
          PROVE  Run(b.off, b.n) \cap Run(c.off, c.n) = {}
        BY <2>6, <2>8, <1>1 DEF PoolsConsistent
    <2>9. ASSUME NEW q \in Pool, NEW i \in DOMAIN table'[q], table'[q][i] # 0
          PROVE  \E b \in held' : b.pool = q /\ i \in Run(b.off, b.n)
        <3>1. i \in DOMAIN table[q] /\ table[q][i] # 0
            BY <2>4, <2>9, <1>7
        <3>2. PICK b \in held : b.pool = q /\ i \in Run(b.off, b.n)
            BY <3>1, <1>1 DEF PoolsConsistent
        <3>3. b # a
            BY <3>1, <3>2, <2>1, <2>4, <2>9
        <3> QED
            BY <3>2, <3>3, <2>6
    <2>10. PoolsConsistent'
        BY <2>7, <2>8, <2>9 DEF PoolsConsistent
    <2>11. o \in DOMAIN table'["sram"] /\ table'["sram"][o] = 0
        <3>1. o \in DOMAIN table["sram"] /\ o \in Run(o, a.n)
            BY <2>1, <2>2, <1>1 DEF PoolsConsistent
        <3> QED
            BY <3>1, <2>4
    <2>12. ASSUME NEW q, Starts(q) \/ FreeAt(q)
           PROVE  Starts(q)' \/ FreeAt(q)'
        <3>1. CASE q = o
            BY <3>1, <2>11 DEF FreeAt
        <3>2. CASE q # o /\ Starts(q)
            BY <3>2, <2>1, <2>6 DEF Starts
        <3>3. CASE FreeAt(q)
            BY <3>3, <1>11, <2>4 DEF FreeAt
        <3> QED
            BY <2>12, <3>1, <3>2, <3>3
    <2>13. PtrsOK'
        <3> SUFFICES ASSUME pc' = "undo", NEW i \in DOMAIN Bytes["sram"], i >= k'
                     PROVE  Starts(ptr["sram"][i])' \/ FreeAt(ptr["sram"][i])'
            BY <1>6 DEF PtrsOK
        <3>1. i >= k
            BY <1>2, <1>3, <1>6
        <3>2. Starts(ptr["sram"][i]) \/ FreeAt(ptr["sram"][i])
            BY <3>1, <1>1 DEF PtrsOK
        <3> QED
            BY <3>2, <2>12, <1>6 DEF Starts, FreeAt
    <2> QED
        BY <1>10, <2>10, <2>13 DEF IInv
<1> QED
    BY <1>5, <1>12, <1>13

LEMMA PhyInitIInv == ASSUME IInv, NEW ok \in BOOLEAN, PhyInit(ok) PROVE IInv'
<1>1. PoolsConsistent'
    BY DEF IInv, PhyInit, PoolsConsistent
<1>2. TypeInv'
    BY LwipBootAssumption DEF IInv, PhyInit, TypeInv, Pool
<1>3. PtrsOK'
    BY DEF PhyInit, PtrsOK
<1> QED
    BY <1>1, <1>2, <1>3 DEF IInv

LEMMA AgainIInv == IInv /\ Again => IInv'
<1> SUFFICES ASSUME IInv, Again PROVE IInv'
    OBVIOUS
<1>1. PoolsConsistent'
    BY DEF IInv, Again, PoolsConsistent
<1>2. 1 \in DOMAIN Bytes["dtcm"]
    BY LwipBootAssumption DEF Pool
<1>3. TypeInv'
    BY <1>2 DEF IInv, Again, TypeInv, Pool
<1>4. PtrsOK'
    BY DEF Again, PtrsOK
<1> QED
    BY <1>1, <1>3, <1>4 DEF IInv

LEMMA StutterIInv == IInv /\ UNCHANGED vars => IInv'
<1> SUFFICES ASSUME IInv, UNCHANGED vars PROVE IInv'
    OBVIOUS
<1>1. TypeInv'
    BY DEF IInv, TypeInv, vars
<1>2. PoolsConsistent'
    BY DEF IInv, PoolsConsistent, vars
<1>3. PtrsOK'
    BY DEF IInv, PtrsOK, Starts, FreeAt, vars
<1> QED
    BY <1>1, <1>2, <1>3 DEF IInv

LEMMA SpecIInv == Spec => []IInv
<1>1. IInv /\ [Next]_vars => IInv'
    BY EthMemMallocIInv, LwipMemMallocIInv, LwipMemFreeIInv, PhyInitIInv, AgainIInv,
       StutterIInv DEF Next
<1> QED
    BY InitIInv, <1>1, PTL DEF Spec

-----------------------------------------------------------------------------
(* Whole calls                                                             *)

\* A block that is handed out was free: it starts no allocation.
LEMMA MallocFresh ==
    ASSUME TypeInv, PoolsConsistent, NEW p \in Pool, k \in DOMAIN Bytes[p],
           Malloc(p)
    PROVE  \/ ptr'[p][k] = Fail /\ held' = held
           \/ /\ ptr'[p][k] # Fail
              /\ \A b \in held : b.pool = p => b.off # ptr'[p][k]
              /\ \E new : /\ held' = held \cup {new}
                          /\ new.pool = p /\ new.off = ptr'[p][k]
<1> DEFINE n == NMemb(Bytes[p][k])
           o == MallocAt(table[p], n)
<1>1. n \in Nat
    BY LwipBootAssumption, NMembType
<1>2. Blocks[p] \in Nat \ {0} /\ table[p] \in Table(Blocks[p])
    BY LwipBootAssumption DEF TypeInv
<1>3. /\ ptr' = [ptr EXCEPT ![p][k] = o]
      /\ held' = IF o = Fail THEN held ELSE held \cup {Alloc(p, o, n)}
    BY DEF Malloc
<1>4. o # Fail => /\ n > 0 /\ o \in 0..(Blocks[p] - 1)
                  /\ \A i \in Run(o, n) : i \in 0..(Blocks[p] - 1) /\ table[p][i] = 0
    BY <1>1, <1>2, MallocFits, Zenon
<1> HIDE DEF n, o
<1>5. ptr'[p][k] = o
    <2>1. ptr[p] \in [DOMAIN Bytes[p] -> Nat \cup {Fail}] /\ DOMAIN ptr = Pool
        BY DEF TypeInv
    <2>2. ptr'[p] = [ptr[p] EXCEPT ![k] = o]
        BY <1>3, <2>1
    <2> QED
        BY <2>1, <2>2
<1>6. ASSUME o # Fail
      PROVE  /\ \A b \in held : b.pool = p => b.off # o
             /\ \E new : held' = held \cup {new} /\ new.pool = p /\ new.off = o
    <2>1. o \in Run(o, n)
        BY <1>1, <1>2, <1>4, <1>6 DEF Run
    <2>2. table[p][o] = 0
        BY <1>4, <1>6, <2>1
    <2>3. ASSUME NEW b \in held, b.pool = p PROVE b.off # o
        <3>1. b.off \in Run(b.off, b.n) /\ b.n # 0
            BY DEF TypeInv, Allocation, Run
        <3>2. table[p][b.off] = b.n
            BY <2>3, <3>1 DEF PoolsConsistent
        <3> QED
            BY <2>2, <3>1, <3>2
    <2>4. held' = held \cup {Alloc(p, o, n)}
        BY <1>3, <1>6
    <2>5. Alloc(p, o, n).pool = p /\ Alloc(p, o, n).off = o
        BY DEF Alloc
    <2> QED
        BY <2>3, <2>4, <2>5
<1> QED
    BY <1>3, <1>5, <1>6

SramHeld == {a \in held : a.pool = "sram"}

\* The pointers of the call in progress that lwip_comm_mem_malloc() has set, or
\* that lwip_comm_mem_free() has left to free.
Current == IF pc = "sram" THEN 1..(k - 1)
           ELSE IF pc = "undo" THEN k..Len(Bytes["sram"]) ELSE {}

\* B is what q whole calls hold; the rest belongs to the call in progress, which
\* has a pointer to each of its allocations and none to another call's.
Calls(B, q) ==
    /\ B \subseteq SramHeld /\ IsFiniteSet(SramHeld)
    /\ q \in Nat /\ Cardinality(B) = Len(Bytes["sram"]) * q
    /\ \A a \in SramHeld \ B : \E i \in Current : ptr["sram"][i] = a.off
    /\ \A b \in B, i \in Current : ptr["sram"][i] # b.off
    /\ pc = "sram" /\ (\A i \in Current : ptr["sram"][i] # Fail)
         => Cardinality(SramHeld) = Len(Bytes["sram"]) * q + (k - 1)

WholeCalls == \E B, q : Calls(B, q)

\* Steps that keep the internal pool, between calls and to their start.
LEMMA CallsStay ==
    ASSUME WholeCalls, Current = {}, SramHeld' = SramHeld, Current' = {},
           pc' = "sram" => k' = 1
    PROVE  WholeCalls'
<1>1. PICK B, q : Calls(B, q)
    BY DEF WholeCalls
<1>2. B = SramHeld
    BY <1>1 DEF Calls
<1>3. /\ IsFiniteSet(SramHeld) /\ q \in Nat
      /\ Cardinality(SramHeld) = Len(Bytes["sram"]) * q
    BY <1>1, <1>2 DEF Calls
<1>4. Len(Bytes["sram"]) * q + (1 - 1) = Len(Bytes["sram"]) * q
    <2>1. Len(Bytes["sram"]) \in Nat
        BY LwipBootAssumption DEF Pool
    <2> QED
        BY <1>3, <2>1
<1>5. Calls(B, q)'
    <2>1. pc' = "sram" => Cardinality(SramHeld)' = Len(Bytes["sram"]) * q + (k' - 1)
        BY <1>3, <1>4
    <2> HIDE DEF SramHeld, Current
    <2> QED
        BY <1>2, <1>3, <2>1 DEF Calls
<1> QED
    BY <1>5 DEF WholeCalls

LEMMA WholeStarts == Init => WholeCalls
<1> SUFFICES ASSUME Init PROVE WholeCalls
    OBVIOUS
<1>1. SramHeld = {} /\ Current = {} /\ pc # "sram"
    BY DEF Init, SramHeld, Current
<1>2. IsFiniteSet({}) /\ Cardinality({}) = 0
    BY FS_EmptySet
<1>3. Len(Bytes["sram"]) * 0 = 0
    BY LwipBootAssumption DEF Pool
<1> HIDE DEF SramHeld, Current
<1>4. Calls({}, 0)
    BY <1>1, <1>2, <1>3 DEF Calls
<1> QED
    BY <1>4 DEF WholeCalls

LEMMA EthMemMallocWhole == IInv /\ WholeCalls /\ EthMemMalloc => WholeCalls'
<1> SUFFICES ASSUME IInv, WholeCalls, EthMemMalloc PROVE WholeCalls'
    OBVIOUS
<1>1. TypeInv /\ PoolsConsistent /\ pc = "dtcm" /\ "dtcm" \in Pool /\ Malloc("dtcm")
    BY DEF IInv, EthMemMalloc, Pool
<1>2. k \in DOMAIN Bytes["dtcm"]
    BY <1>1 DEF TypeInv
<1>3. SramHeld' = SramHeld
    BY <1>1, <1>2, MallocFresh DEF SramHeld
<1>4. pc' \in {"dtcm", "sram"} /\ (pc' = "sram" => k' = 1)
    BY <1>1 DEF EthMemMalloc, Last
<1>5. Current = {} /\ Current' = {}
    BY <1>1, <1>4 DEF Current
<1> QED
    BY <1>3, <1>4, <1>5, CallsStay

LEMMA PhyInitWhole ==
    ASSUME WholeCalls, NEW ok \in BOOLEAN, PhyInit(ok)
    PROVE  WholeCalls'
<1>1. pc = "phy" /\ pc' \in {"phy", "up", "delay"} /\ held' = held
    BY DEF PhyInit
<1> QED
    BY <1>1, CallsStay DEF Current, SramHeld

LEMMA AgainWhole == WholeCalls /\ Again => WholeCalls'
<1> SUFFICES ASSUME WholeCalls, Again PROVE WholeCalls'
    OBVIOUS
<1>1. pc = "delay" /\ pc' = "dtcm" /\ held' = held
    BY DEF Again
<1> QED
    BY <1>1, CallsStay DEF Current, SramHeld

\* lwip_comm_mem_malloc() goes on to the PHY with one allocation more for each
\* of its pointers.
LEMMA LwipMemMallocWhole == IInv /\ WholeCalls /\ LwipMemMalloc => WholeCalls'
<1> SUFFICES ASSUME IInv, WholeCalls, LwipMemMalloc PROVE WholeCalls'
    OBVIOUS
<1> DEFINE m == Len(Bytes["sram"])
           p == ptr["sram"]
           p1 == ptr'["sram"]
           S == SramHeld
           S1 == SramHeld'
<1>1. /\ TypeInv /\ PoolsConsistent
      /\ pc = "sram" /\ "sram" \in Pool /\ Malloc("sram")
    BY DEF IInv, LwipMemMalloc, Pool
<1>2. k \in DOMAIN Bytes["sram"]
    BY <1>1 DEF TypeInv
<1>3. m \in Nat \ {0} /\ DOMAIN Bytes["sram"] = 1..m
    BY <1>1, LwipBootAssumption
<1>4. k \in 1..m
    BY <1>2, <1>3
<1>5. \A i \in 1..m : i # k => p1[i] = p[i]
    BY <1>1, <1>2, <1>3, MallocKeeps
<1>6. \/ p1[k] = Fail /\ S1 = S
      \/ /\ p1[k] # Fail /\ \A b \in S : b.off # p1[k]
         /\ \E new : S1 = S \cup {new} /\ new.off = p1[k]
    BY <1>1, <1>2, MallocFresh DEF SramHeld
<1>7. PICK B, q : Calls(B, q)
    BY DEF WholeCalls
<1>8. Current = 1..(k - 1)
    BY <1>1 DEF Current
<1>9. /\ B \subseteq S /\ IsFiniteSet(S) /\ q \in Nat /\ Cardinality(B) = m * q
      /\ \A a \in S \ B : \E i \in 1..(k - 1) : p[i] = a.off
      /\ \A b \in B, i \in 1..(k - 1) : p[i] # b.off
      /\ (\A i \in 1..(k - 1) : p[i] # Fail) => Cardinality(S) = m * q + (k - 1)
    BY <1>1, <1>7, <1>8 DEF Calls
<1>10. \A b \in S : b.off # Fail
    BY <1>1 DEF TypeInv, Allocation, SramHeld, Fail
<1>11. /\ pc' \in {"sram", "undo", "phy"}
       /\ pc' = "sram" => k' = k + 1
       /\ pc' # "sram" => k' = 1 /\ k = m
       /\ pc' = "phy" => ~Missing(p1)
    BY <1>1 DEF LwipMemMalloc, Last
<1>12. pc' # "phy" => Current' = 1..k
    BY <1>3, <1>4, <1>11 DEF Current
<1>13. pc' = "phy" => Current' = {}
    BY <1>11 DEF Current
<1>14. pc' = "phy" => \A i \in 1..m : p1[i] # Fail
    <2>1. DOMAIN p1 = 1..m
        BY <1>1, <1>2, <1>3, MallocKeeps
    <2> QED
        BY <1>11, <2>1 DEF Missing
<1> HIDE DEF m, p, p1, S, S1
<1>15. ASSUME NEW i \in 1..k PROVE i = k \/ (i \in 1..(k - 1) /\ p1[i] = p[i])
    BY <1>3, <1>4, <1>5
<1>16. \A i \in 1..(k - 1) : i \in 1..k /\ i # k
    BY <1>3, <1>4
<1>17. k \in 1..k
    BY <1>3, <1>4
<1>18. /\ B \subseteq S1 /\ IsFiniteSet(S1)
       /\ p1[k] # Fail => Cardinality(S1) = Cardinality(S) + 1
    <2>1. ASSUME NEW new, S1 = S \cup {new}, \A b \in S : b.off # new.off
          PROVE  /\ B \subseteq S1 /\ IsFiniteSet(S1)
                 /\ Cardinality(S1) = Cardinality(S) + 1
        <3>1. new \notin S
            BY <2>1
        <3> QED
            BY <1>9, <2>1, <3>1, FS_AddElement
    <2> QED
        BY <1>6, <1>9, <2>1
<1>19. \A a \in S1 \ B : \E i \in 1..k : p1[i] = a.off
    BY <1>6, <1>9, <1>15, <1>16, <1>17
<1>20. \A b \in B, i \in 1..k : p1[i] # b.off
    BY <1>6, <1>9, <1>10, <1>15
<1>21. (\A i \in 1..k : p1[i] # Fail) => Cardinality(S1) = m * q + k
    <2> SUFFICES ASSUME \A i \in 1..k : p1[i] # Fail
                 PROVE  Cardinality(S1) = m * q + k
        OBVIOUS
    <2>1. \A i \in 1..(k - 1) : p[i] # Fail
        BY <1>15, <1>16
    <2>2. Cardinality(S) = m * q + (k - 1) /\ Cardinality(S1) = Cardinality(S) + 1
        BY <1>9, <1>17, <1>18, <2>1
    <2> DEFINE mq == m * q
    <2>3. mq \in Nat /\ k \in Nat
        BY <1>3, <1>4, <1>9
    <2> HIDE DEF mq
    <2>4. (mq + (k - 1)) + 1 = mq + k
        BY <2>3
    <2> QED
        BY <2>2, <2>4 DEF mq
<1>22. ASSUME pc' # "phy" PROVE Calls(B, q)'
    <2>1. pc' = "sram" => k' - 1 = k
        BY <1>3, <1>4, <1>11
    <2> HIDE DEF SramHeld, Current
    <2>2. /\ B \subseteq SramHeld' /\ IsFiniteSet(SramHeld') /\ q \in Nat
          /\ Cardinality(B) = Len(Bytes["sram"]) * q
        BY <1>9, <1>18 DEF S1, m
    <2>3. \A a \in SramHeld' \ B : \E i \in Current' : ptr'["sram"][i] = a.off
        BY <1>12, <1>19, <1>22 DEF S1, p1
    <2>4. \A b \in B, i \in Current' : ptr'["sram"][i] # b.off
        BY <1>12, <1>20, <1>22 DEF p1
    <2>5. pc' = "sram" /\ (\A i \in Current' : ptr'["sram"][i] # Fail)
            => Cardinality(SramHeld') = Len(Bytes["sram"]) * q + (k' - 1)
        BY <1>12, <1>21, <1>22, <2>1 DEF S1, m, p1
    <2> QED
        BY <2>2, <2>3, <2>4, <2>5 DEF Calls
<1>23. ASSUME pc' = "phy" PROVE WholeCalls'
    <2>1. Cardinality(S1) = m * q + m
        BY <1>11, <1>14, <1>21, <1>23
    <2>2. m * q + m = m * (q + 1)
        BY <1>3, <1>9
    <2>3. q + 1 \in Nat
        BY <1>9
    <2> HIDE DEF SramHeld, Current
    <2>4. PICK C : C = SramHeld'
        OBVIOUS
    <2>5. IsFiniteSet(C) /\ Cardinality(C) = Len(Bytes["sram"]) * (q + 1)
        BY <1>18, <2>1, <2>2, <2>4 DEF S1, m
    <2>6. Calls(C, q + 1)'
        BY <1>13, <1>23, <2>3, <2>4, <2>5 DEF Calls
    <2> QED
        BY <2>6 DEF WholeCalls
<1> QED
    BY <1>22, <1>23 DEF WholeCalls

\* lwip_comm_mem_free() frees what the call in progress took, and nothing else.
LEMMA LwipMemFreeWhole == IInv /\ WholeCalls /\ LwipMemFree => WholeCalls'
<1> SUFFICES ASSUME IInv, WholeCalls, LwipMemFree PROVE WholeCalls'
    OBVIOUS
<1> DEFINE m == Len(Bytes["sram"])
           p == ptr["sram"]
           S == SramHeld
           S1 == SramHeld'
<1>1. pc = "undo" /\ TypeInv
    BY DEF IInv, LwipMemFree
<1>2. Bytes["sram"] \in Seq(Nat) /\ m \in Nat /\ DOMAIN Bytes["sram"] = 1..m
    BY LwipBootAssumption DEF Pool
<1>3. k \in 1..m
    BY <1>1, <1>2 DEF TypeInv
<1>4. /\ ptr' = ptr /\ pc' \in {"undo", "delay"}
      /\ pc' = "undo" => k' = k + 1
      /\ pc' = "delay" => k = m
    BY DEF LwipMemFree, Last
<1>5. S1 = {a \in S : a.off # p[k]}
    BY DEF LwipMemFree, SramHeld
<1>6. PICK B, q : Calls(B, q)
    BY DEF WholeCalls
<1>7. Current = k..m
    BY <1>1 DEF Current
<1>8. /\ B \subseteq S /\ IsFiniteSet(S) /\ q \in Nat /\ Cardinality(B) = m * q
      /\ \A a \in S \ B : \E i \in k..m : p[i] = a.off
      /\ \A b \in B, i \in k..m : p[i] # b.off
    BY <1>6, <1>7 DEF Calls
<1>9. Current' = (k + 1)..m
    BY <1>2, <1>3, <1>4 DEF Current
<1> HIDE DEF m, p, S, S1
<1>10. k \in k..m /\ (\A i \in k..m : i = k \/ i \in (k + 1)..m)
       /\ (\A i \in (k + 1)..m : i \in k..m)
    BY <1>2, <1>3
<1>11. B \subseteq S1 /\ S1 \subseteq S /\ IsFiniteSet(S1)
    <2>1. B \subseteq S1 /\ S1 \subseteq S
        BY <1>5, <1>8, <1>10
    <2> QED
        BY <1>8, <2>1, FS_Subset
<1>12. \A a \in S1 \ B : \E i \in (k + 1)..m : p[i] = a.off
    BY <1>5, <1>8, <1>10
<1>13. \A b \in B, i \in (k + 1)..m : p[i] # b.off
    BY <1>8, <1>10
<1>14. Calls(B, q)'
    <2> HIDE DEF SramHeld, Current
    <2>1. /\ B \subseteq SramHeld' /\ IsFiniteSet(SramHeld') /\ q \in Nat
          /\ Cardinality(B) = Len(Bytes["sram"]) * q
        BY <1>8, <1>11 DEF S1, m
    <2>2. \A a \in SramHeld' \ B : \E i \in Current' : ptr'["sram"][i] = a.off
        BY <1>4, <1>9, <1>12 DEF S1, p
    <2>3. \A b \in B, i \in Current' : ptr'["sram"][i] # b.off
        BY <1>4, <1>9, <1>13 DEF p
    <2>4. pc' # "sram"
        BY <1>4
    <2> QED
        BY <2>1, <2>2, <2>3, <2>4 DEF Calls
<1> QED
    BY <1>14 DEF WholeCalls

LEMMA SpecWhole == Spec => []WholeCalls
<1>1. WholeCalls /\ UNCHANGED vars => WholeCalls'
    <2> SUFFICES ASSUME WholeCalls, UNCHANGED vars PROVE WholeCalls'
        OBVIOUS
    <2>1. SramHeld' = SramHeld /\ Current' = Current /\ ptr' = ptr /\ pc' = pc /\ k' = k
        BY DEF vars, SramHeld, Current
    <2>2. PICK B, q : Calls(B, q)
        BY DEF WholeCalls
    <2>3. Calls(B, q)'
        BY <2>1, <2>2 DEF Calls
    <2> QED
        BY <2>3 DEF WholeCalls
<1>2. IInv /\ WholeCalls /\ [Next]_vars => WholeCalls'
    BY <1>1, EthMemMallocWhole, LwipMemMallocWhole, LwipMemFreeWhole, PhyInitWhole,
       AgainWhole DEF Next
<1> QED
    BY SpecIInv, WholeStarts, <1>2, PTL DEF Spec

\* What q whole calls hold is no part of a call.
LEMMA WholeOfMany ==
    ASSUME NEW m \in Nat \ {0}, NEW q \in Nat
    PROVE  (m * q) % m = 0
BY SMTT(30)

-----------------------------------------------------------------------------
(* A whole start                                                           *)

Requests(p) == Len(Bytes[p])
Size(p, i) == NMemb(Bytes[p][i])

\* f[i] is the number of blocks that the first i requests to p ask for.
Sums(f, p, n) == /\ f \in [0..n -> Nat] /\ f[0] = 0
                 /\ \A i \in 1..n : f[i] = f[i - 1] + Size(p, i)
Sum(p) == CHOOSE f : Sums(f, p, Requests(p))
Need(p) == Sum(p)[Requests(p)]

\* What the theorem asks of the sizes: no request is empty, and as often as a
\* whole call fits into the internal pool it fits into the DTCM pool, whose
\* answers nobody looks at.  In the firmware a call takes 559 and 246 blocks, so
\* that one fits into the first and three into the second.
DtcmFollows ==
    /\ \A p \in Pool : \A i \in 1..Requests(p) : Bytes[p][i] > 0
    /\ \A c \in Nat : c * Need("sram") <= Blocks["sram"]
                        => c * Need("dtcm") <= Blocks["dtcm"]

LEMMA SizeType ==
    ASSUME NEW p \in Pool, NEW i \in 1..Requests(p)
    PROVE  Size(p, i) \in Nat
<1>1. Bytes[p] \in Seq(Nat)
    BY LwipBootAssumption
<1>2. Bytes[p][i] \in Nat
    BY <1>1 DEF Requests
<1> QED
    BY <1>2, NMembType DEF Size

LEMMA SizePositive ==
    ASSUME DtcmFollows, NEW p \in Pool, NEW i \in 1..Requests(p)
    PROVE  Size(p, i) \in Nat \ {0}
<1>1. Bytes[p][i] \in Nat \ {0}
    <2>1. Bytes[p] \in Seq(Nat)
        BY LwipBootAssumption
    <2> QED
        BY <2>1 DEF DtcmFollows, Requests
<1>2. \A b \in Nat \ {0} : NMemb(b) \in Nat \ {0}
    BY BlockPoolAssumption DEF NMemb
<1> QED
    BY <1>1, <1>2 DEF Size

\* The least of some numbers.
LEMMA Least ==
    ASSUME NEW T, T \subseteq Nat, T # {}
    PROVE  \E x \in T : \A y \in T : ~(y < x)
<1>1. \E x \in T : \A y \in T : ~(<<y, x>> \in OpToRel(<, Nat))
    BY NatLessThanWellFounded, WFMin
<1>2. \A x, y \in Nat : y < x => <<y, x>> \in OpToRel(<, Nat)
    BY DEF OpToRel
<1> QED
    BY <1>1, <1>2

LEMMA SumsExist ==
    ASSUME NEW p \in Pool, NEW n \in 0..Requests(p)
    PROVE  \E f : Sums(f, p, n)
<1> DEFINE Bad == {m \in 0..Requests(p) : ~\E f : Sums(f, p, m)}
<1>1. Requests(p) \in Nat
    BY LwipBootAssumption DEF Requests
<1>2. Bad = {}
    <2> SUFFICES ASSUME Bad # {} PROVE FALSE
        OBVIOUS
    <2>1. Bad \subseteq Nat
        BY <1>1
    <2>2. PICK m \in Bad : \A j \in Bad : ~(j < m)
        <3> HIDE DEF Bad
        <3> QED
            BY <2>1, Least
    <2>3. m \in 0..Requests(p) /\ ~\E f : Sums(f, p, m)
        OBVIOUS
    <2>4. m # 0
        <3> SUFFICES ASSUME m = 0 PROVE FALSE
            OBVIOUS
        <3> DEFINE z == [i \in 0..0 |-> 0]
        <3>1. z \in [0..0 -> Nat] /\ z[0] = 0 /\ 1..0 = {}
            OBVIOUS
        <3> HIDE DEF z
        <3>2. Sums(z, p, m)
            BY <3>1 DEF Sums
        <3> QED
            BY <2>3, <3>2
    <2>5. m - 1 \in 0..Requests(p) /\ m - 1 < m
        BY <1>1, <2>3, <2>4
    <2>6. PICK f : Sums(f, p, m - 1)
        <3>1. m - 1 \notin Bad
            BY <2>2, <2>5
        <3> QED
            BY <2>5, <3>1
    <2> DEFINE g == [i \in 0..m |-> IF i = m THEN f[m - 1] + Size(p, m) ELSE f[i]]
    <2>7. /\ m \in 1..Requests(p) /\ Size(p, m) \in Nat
          /\ f \in [0..(m - 1) -> Nat] /\ f[m - 1] \in Nat
        BY <1>1, <2>3, <2>4, <2>6, SizeType DEF Sums
    <2>8. \A i \in 0..m : i = m \/ i \in 0..(m - 1)
        BY <2>7
    <2>9. g \in [0..m -> Nat]
        BY <2>7, <2>8
    <2>10. g[0] = 0
        BY <2>4, <2>6, <2>7 DEF Sums
    <2>11. ASSUME NEW i \in 1..m PROVE g[i] = g[i - 1] + Size(p, i)
        <3>1. i \in 0..m /\ i - 1 \in 0..m /\ i - 1 # m
            BY <2>7
        <3>2. CASE i = m
            BY <3>1, <3>2
        <3>3. CASE i # m
            <4>1. i \in 1..(m - 1)
                BY <2>7, <3>3
            <4> QED
                BY <3>1, <3>3, <4>1, <2>6 DEF Sums
        <3> QED
            BY <3>2, <3>3
    <2> HIDE DEF g
    <2>12. Sums(g, p, m)
        BY <2>9, <2>10, <2>11 DEF Sums
    <2> QED
        BY <2>3, <2>12
<1> QED
    BY <1>2

LEMMA SumIs ==
    ASSUME NEW p \in Pool
    PROVE  /\ Requests(p) \in Nat \ {0}
           /\ Sum(p)[0] = 0 /\ Sum(p)[Requests(p)] = Need(p) /\ Need(p) \in Nat
           /\ \A i \in 0..Requests(p) : Sum(p)[i] \in Nat
           /\ \A i \in 1..Requests(p) : Sum(p)[i] = Sum(p)[i - 1] + Size(p, i)
<1>1. Requests(p) \in Nat \ {0}
    BY LwipBootAssumption DEF Requests
<1>2. Sums(Sum(p), p, Requests(p))
    <2>1. \E f : Sums(f, p, Requests(p))
        BY <1>1, SumsExist
    <2> QED
        BY <2>1 DEF Sum
<1> QED
    BY <1>1, <1>2 DEF Sums, Need

\* The first requests ask for no more than all.
LEMMA SumBelowNeed ==
    ASSUME NEW p \in Pool, NEW i \in 0..Requests(p)
    PROVE  Sum(p)[i] <= Need(p)
<1> DEFINE n == Requests(p)
           Bad == {j \in 0..n : ~(Sum(p)[n - j] <= Need(p))}
<1>1. n \in Nat /\ n # 0
    BY SumIs
<1>2. Bad = {}
    <2> SUFFICES ASSUME Bad # {} PROVE FALSE
        OBVIOUS
    <2>1. PICK j \in Bad : \A m \in Bad : ~(m < j)
        <3>1. Bad \subseteq Nat
            BY <1>1
        <3> HIDE DEF Bad
        <3> QED
            BY <3>1, Least
    <2>2. j \in 0..n /\ ~(Sum(p)[n - j] <= Need(p))
        OBVIOUS
    <2>3. j # 0
        BY <1>1, <2>2, SumIs
    <2>4. j - 1 \in 0..n /\ j - 1 < j /\ n - (j - 1) \in 1..n /\ (n - (j - 1)) - 1 = n - j
        BY <1>1, <2>2, <2>3
    <2>5. Sum(p)[n - (j - 1)] <= Need(p)
        BY <2>1, <2>4
    <2>6. Sum(p)[n - (j - 1)] = Sum(p)[n - j] + Size(p, n - (j - 1))
        BY <2>4, SumIs
    <2>7. Size(p, n - (j - 1)) \in Nat /\ Sum(p)[n - j] \in Nat /\ Need(p) \in Nat
        <3>1. n - j \in 0..n
            BY <1>1, <2>2
        <3> QED
            BY <2>4, <3>1, SizeType, SumIs
    <2> QED
        BY <2>2, <2>5, <2>6, <2>7
<1>3. n - i \in 0..n /\ n - (n - i) = i
    BY <1>1
<1> QED
    BY <1>2, <1>3

\* The u topmost blocks are taken and the others free.
Packed(t, size, u) == \A i \in 0..(size - 1) : t[i] = 0 <=> i < size - u

\* A pool that nothing was freed in stays packed, and a request is refused only
\* when it does not fit.
LEMMA MallocPacked ==
    ASSUME NEW size \in Nat \ {0}, NEW t \in Table(size), NEW u \in 0..size,
           NEW n \in Nat \ {0}, Packed(t, size, u)
    PROVE  /\ u + n <= size => /\ MallocAt(t, n) = size - u - n
                               /\ MallocAt(t, n) \in Nat
                               /\ Packed(Marked(t, MallocAt(t, n), n), size, u + n)
           /\ u + n > size => MallocAt(t, n) = Fail
<1>1. DOMAIN t = 0..(size - 1)
    BY DEF Table
<1>2. ASSUME u + n <= size
      PROVE  /\ MallocAt(t, n) = size - u - n /\ MallocAt(t, n) \in Nat
             /\ Packed(Marked(t, MallocAt(t, n), n), size, u + n)
    <2> DEFINE b == size - u - n
    <2>1. b \in Fits(t, n)
        <3>1. b \in 0..(size - 1)
            BY <1>2
        <3>2. \A i \in Run(b, n) : i \in 0..(size - 1) /\ t[i] = 0
            BY <1>2 DEF Run, Packed
        <3> QED
            BY <1>1, <3>1, <3>2 DEF Fits
    <2>2. MallocAt(t, n) # Fail
        <3>1. MallocAt(t, n) = Max(Fits(t, n))
            BY <2>1 DEF MallocAt
        <3>2. Fits(t, n) \in SUBSET (0..(size - 1)) /\ size - 1 \in Nat
            BY <1>1 DEF Fits
        <3>3. MallocAt(t, n) \in 0..(size - 1)
            BY <2>1, <3>1, <3>2, TopmostExists
        <3> QED
            BY <3>3 DEF Fail
    <2>3. /\ MallocAt(t, n) \in 0..(size - 1)
          /\ \A i \in Run(MallocAt(t, n), n) : i \in 0..(size - 1) /\ t[i] = 0
        BY <2>2, MallocFits
    <2>4. b <= MallocAt(t, n)
        <3>1. MallocAt(t, n) = Max(Fits(t, n))
            BY <2>1 DEF MallocAt
        <3>2. Fits(t, n) \in SUBSET (0..(size - 1)) /\ size - 1 \in Nat
            BY <1>1 DEF Fits
        <3> QED
            BY <2>1, <3>1, <3>2, TopmostExists
    <2>5. MallocAt(t, n) <= b
        <3> DEFINE last == MallocAt(t, n) + n - 1
        <3>1. last \in Run(MallocAt(t, n), n)
            BY <2>3 DEF Run
        <3>2. last \in 0..(size - 1) /\ t[last] = 0
            BY <2>3, <3>1
        <3>3. last < size - u
            BY <3>2 DEF Packed
        <3> QED
            BY <2>3, <3>3
    <2>6. MallocAt(t, n) = b /\ b \in Nat
        BY <1>2, <2>3, <2>4, <2>5
    <2>7. ASSUME NEW i \in 0..(size - 1)
          PROVE  Marked(t, b, n)[i] = 0 <=> i < size - (u + n)
        <3>1. Marked(t, b, n)[i] = IF i \in Run(b, n) THEN n ELSE t[i]
            BY <1>1, <2>6 DEF Marked, Fail
        <3>2. i \in Run(b, n) <=> size - u - n <= i /\ i < size - u
            BY <2>6 DEF Run
        <3>3. t[i] = 0 <=> i < size - u
            BY DEF Packed
        <3> QED
            BY <3>1, <3>2, <3>3
    <2> HIDE DEF b
    <2>8. Packed(Marked(t, b, n), size, u + n)
        BY <2>7 DEF Packed
    <2> QED
        BY <2>6, <2>8 DEF b
<1>3. ASSUME u + n > size, MallocAt(t, n) # Fail PROVE FALSE
    <2>1. /\ MallocAt(t, n) \in 0..(size - 1)
          /\ \A i \in Run(MallocAt(t, n), n) : i \in 0..(size - 1) /\ t[i] = 0
        BY <1>3, MallocFits
    <2> DEFINE last == MallocAt(t, n) + n - 1
    <2>2. last \in Run(MallocAt(t, n), n)
        BY <2>1 DEF Run
    <2>3. last \in 0..(size - 1) /\ t[last] = 0
        BY <2>1, <2>2
    <2>4. last < size - u
        BY <2>3 DEF Packed
    <2> QED
        BY <1>3, <2>1, <2>4
<1> QED
    BY <1>2, <1>3

\* What mymalloc does to the pool, the pointers and the history.
LEMMA MallocIs ==
    ASSUME TypeInv, NEW p \in Pool, k \in 1..Requests(p), Malloc(p)
    PROVE  LET o == MallocAt(table[p], Size(p, k)) IN
           /\ table'[p] = Marked(table[p], o, Size(p, k)) /\ ptr'[p][k] = o
           /\ held' = IF o = Fail THEN held ELSE held \cup {Alloc(p, o, Size(p, k))}
           /\ \A i \in 1..Requests(p) : i # k => ptr'[p][i] = ptr[p][i]
           /\ \A q \in Pool \ {p} : table'[q] = table[q] /\ ptr'[q] = ptr[q]
<1> DEFINE o == MallocAt(table[p], Size(p, k))
<1>1. /\ table' = [table EXCEPT ![p] = Marked(table[p], o, Size(p, k))]
      /\ ptr' = [ptr EXCEPT ![p][k] = o]
      /\ held' = IF o = Fail THEN held ELSE held \cup {Alloc(p, o, Size(p, k))}
    BY DEF Malloc, Size
<1>2. /\ DOMAIN table = Pool /\ DOMAIN ptr = Pool
      /\ ptr[p] \in [DOMAIN Bytes[p] -> Nat \cup {Fail}]
    BY DEF TypeInv
<1>3. DOMAIN Bytes[p] = 1..Requests(p)
    <2>1. Bytes[p] \in Seq(Nat)
        BY LwipBootAssumption
    <2> QED
        BY <2>1 DEF Requests
<1> HIDE DEF o
<1>4. /\ ptr'[p] = [ptr[p] EXCEPT ![k] = o]
      /\ \A q \in Pool \ {p} : ptr'[q] = ptr[q]
      /\ table'[p] = Marked(table[p], o, Size(p, k))
      /\ \A q \in Pool \ {p} : table'[q] = table[q]
    BY <1>1, <1>2
<1>5. ptr'[p][k] = o /\ \A i \in 1..Requests(p) : i # k => ptr'[p][i] = ptr[p][i]
    BY <1>2, <1>3, <1>4
<1> QED
    BY <1>1, <1>4, <1>5 DEF o

\* Each of the first n requests to p has an allocation of its own.
Own(p, n) ==
    /\ \A i \in 1..n : Alloc(p, ptr[p][i], Size(p, i)) \in held
    /\ \A i, j \in 1..n : i # j => ptr[p][i] # ptr[p][j]

\* A request to a packed pool: it is met if it fits, and then it is no other's.
LEMMA MallocPacks ==
    ASSUME TypeInv, PoolsConsistent, DtcmFollows, NEW p \in Pool,
           k \in 1..Requests(p), Malloc(p), NEW u \in 0..Blocks[p],
           Packed(table[p], Blocks[p], u), NEW m, m = k
    PROVE  /\ u + Size(p, k) <= Blocks[p] =>
                /\ ptr'[p][k] = Blocks[p] - u - Size(p, k) /\ ptr'[p][k] # Fail
                /\ held' = held \cup {Alloc(p, ptr'[p][k], Size(p, k))}
                /\ Packed(table'[p], Blocks[p], u + Size(p, k))
                /\ Own(p, m - 1) => Own(p, m)'
           /\ u + Size(p, k) > Blocks[p] =>
                ptr'[p][k] = Fail /\ held' = held /\ table'[p] = table[p]
<1> DEFINE n == Size(p, k)
           o == MallocAt(table[p], n)
<1>1. n \in Nat \ {0}
    BY SizePositive
<1>2. Blocks[p] \in Nat \ {0} /\ table[p] \in Table(Blocks[p])
    BY LwipBootAssumption DEF TypeInv
<1>3. /\ table'[p] = Marked(table[p], o, n) /\ ptr'[p][k] = o
      /\ held' = IF o = Fail THEN held ELSE held \cup {Alloc(p, o, n)}
      /\ \A i \in 1..Requests(p) : i # k => ptr'[p][i] = ptr[p][i]
    BY MallocIs
<1>4. /\ u + n <= Blocks[p] => /\ o = Blocks[p] - u - n /\ o \in Nat
                               /\ Packed(Marked(table[p], o, n), Blocks[p], u + n)
      /\ u + n > Blocks[p] => o = Fail
    BY <1>1, <1>2, MallocPacked
<1> HIDE DEF n, o
<1>5. ASSUME u + n > Blocks[p] PROVE o = Fail /\ held' = held /\ table'[p] = table[p]
    BY <1>3, <1>4, <1>5 DEF Marked
<1>6. ASSUME u + n <= Blocks[p]
      PROVE  o # Fail /\ held' = held \cup {Alloc(p, o, n)}
    BY <1>3, <1>4, <1>6 DEF Fail
<1>7. ASSUME u + n <= Blocks[p], Own(p, m - 1) PROVE Own(p, m)'
    <2>1. Requests(p) \in Nat /\ m \in 1..Requests(p)
        BY SumIs
    <2>2. \A i \in 1..m : i = m \/ (i \in 1..(m - 1) /\ ptr'[p][i] = ptr[p][i])
        BY <1>3, <2>1
    <2>3. ASSUME NEW i \in 1..(m - 1) PROVE ptr[p][i] # o
        <3>1. i \in 1..Requests(p)
            BY <2>1
        <3>2. Size(p, i) \in Nat \ {0}
            BY <3>1, SizePositive
        <3> DEFINE a == Alloc(p, ptr[p][i], Size(p, i))
        <3>3. a \in held /\ a.pool = p /\ a.off = ptr[p][i] /\ a.n = Size(p, i)
            BY <1>7 DEF Own, Alloc
        <3> HIDE DEF a
        <3>4. a.off \in Run(a.off, a.n)
            BY <3>3 DEF TypeInv, Allocation, Run
        <3>5. a.off \in DOMAIN table[p] /\ table[p][a.off] = a.n
            BY <3>3, <3>4 DEF PoolsConsistent
        <3>6. a.off \in 0..(Blocks[p] - 1) /\ ~(a.off < Blocks[p] - u)
            BY <1>2, <3>2, <3>3, <3>5 DEF Packed, Table
        <3>7. o < Blocks[p] - u
            BY <1>1, <1>2, <1>4, <1>7
        <3> QED
            BY <3>3, <3>6, <3>7
    <2>4. ASSUME NEW i \in 1..m PROVE Alloc(p, ptr'[p][i], Size(p, i)) \in held'
        <3>1. CASE i = m
            BY <1>3, <1>6, <1>7, <3>1 DEF n
        <3>2. CASE i # m
            BY <1>6, <1>7, <2>2, <3>2 DEF Own
        <3> QED
            BY <3>1, <3>2
    <2>5. ASSUME NEW i \in 1..m, NEW j \in 1..m, i # j PROVE ptr'[p][i] # ptr'[p][j]
        <3>1. CASE i = m
            BY <1>3, <2>2, <2>3, <2>5, <3>1
        <3>2. CASE j = m
            BY <1>3, <2>2, <2>3, <2>5, <3>2
        <3>3. CASE i # m /\ j # m
            BY <1>7, <2>2, <2>5, <3>3 DEF Own
        <3> QED
            BY <3>1, <3>2, <3>3
    <2> QED
        BY <2>4, <2>5 DEF Own
<1> QED
    BY <1>3, <1>4, <1>5, <1>6, <1>7 DEF n

\* What was there stays there.
LEMMA OwnKept ==
    ASSUME NEW q \in Pool, NEW n, Own(q, n), ptr'[q] = ptr[q], held \subseteq held'
    PROVE  Own(q, n)'
BY DEF Own

Room(s) == s + Need("sram") <= Blocks["sram"]
Clean(n) == \A i \in 1..n : ptr["sram"][i] # Fail

\* Beside the s topmost blocks only what the pointers in J lead to is taken.
Mine(s, J) ==
    /\ \A i \in 0..(Blocks["sram"] - 1) :
         i >= Blocks["sram"] - s => table["sram"][i] # 0
    /\ \A i \in 0..(Blocks["sram"] - 1) :
         i < Blocks["sram"] - s /\ table["sram"][i] # 0 =>
           \E j \in J, a \in SramHeld : ptr["sram"][j] = a.off /\ i \in Run(a.off, a.n)
    /\ \A j \in J, a \in SramHeld :
         ptr["sram"][j] = a.off => a.off + a.n <= Blocks["sram"] - s

\* A call that starts with s blocks of the internal pool taken and, unless it is
\* to fail, d of the DTCM pool.
Stage(s, d) ==
    /\ s \in 0..Blocks["sram"]
    /\ pc = "dtcm" =>
         /\ Packed(table["sram"], Blocks["sram"], s)
         /\ Room(s) => /\ Packed(table["dtcm"], Blocks["dtcm"], d + Sum("dtcm")[k - 1])
                       /\ Own("dtcm", k - 1)
    /\ pc = "sram" =>
         /\ Mine(s, 1..(k - 1))
         /\ \E u \in s..Blocks["sram"] :
              /\ Packed(table["sram"], Blocks["sram"], u)
              /\ Clean(k - 1) => u = s + Sum("sram")[k - 1] /\ Own("sram", k - 1)
         /\ Room(s) => /\ Clean(k - 1)
                       /\ Packed(table["dtcm"], Blocks["dtcm"], d + Need("dtcm"))
                       /\ Own("dtcm", Requests("dtcm"))
    /\ pc = "undo" => ~Room(s) /\ Mine(s, k..Requests("sram"))
    /\ pc \in {"phy", "up"} =>
         /\ Room(s) /\ \A p \in Pool : Own(p, Requests(p))
         /\ Packed(table["sram"], Blocks["sram"], s + Need("sram"))
         /\ Packed(table["dtcm"], Blocks["dtcm"], d + Need("dtcm"))
    /\ pc = "delay" =>
         /\ Packed(table["sram"], Blocks["sram"], s)
         /\ Room(s) => Packed(table["dtcm"], Blocks["dtcm"], d)

\* All calls before took as much as whole ones, or the next one fails.
Staged == \E c \in Nat : Stage(c * Need("sram"), c * Need("dtcm"))

\* c and c + 1 calls.
LEMMA OneMore ==
    ASSUME DtcmFollows, NEW c \in Nat, NEW p \in Pool
    PROVE  /\ c * Need(p) \in Nat /\ (c + 1) * Need(p) = c * Need(p) + Need(p)
           /\ Room(c * Need("sram")) =>
                c * Need("dtcm") + Need("dtcm") <= Blocks["dtcm"]
<1>1. \A q \in Pool : c * Need(q) \in Nat /\ (c + 1) * Need(q) = c * Need(q) + Need(q)
    <2> SUFFICES ASSUME NEW m \in Nat
                 PROVE  c * m \in Nat /\ (c + 1) * m = c * m + m
        BY SumIs
    <2> QED
        OBVIOUS
<1>2. ASSUME Room(c * Need("sram"))
      PROVE  c * Need("dtcm") + Need("dtcm") <= Blocks["dtcm"]
    <2>1. (c + 1) * Need("sram") <= Blocks["sram"]
        BY <1>1, <1>2 DEF Room, Pool
    <2>2. (c + 1) * Need("dtcm") <= Blocks["dtcm"]
        BY <2>1 DEF DtcmFollows
    <2> QED
        BY <1>1, <2>2 DEF Pool
<1> QED
    BY <1>1, <1>2

LEMMA StagedStarts == ASSUME DtcmFollows, Init PROVE Staged
<1>1. /\ Blocks["sram"] \in Nat \ {0} /\ Blocks["dtcm"] \in Nat \ {0}
      /\ "sram" \in Pool /\ "dtcm" \in Pool
    BY LwipBootAssumption DEF Pool
<1>2. /\ pc = "dtcm" /\ k - 1 = 0
      /\ \A i \in 0..(Blocks["sram"] - 1) : table["sram"][i] = 0
      /\ \A i \in 0..(Blocks["dtcm"] - 1) : table["dtcm"][i] = 0
    BY <1>1 DEF Init
<1>3. Packed(table["sram"], Blocks["sram"], 0) /\ Packed(table["dtcm"], Blocks["dtcm"], 0)
    BY <1>1, <1>2 DEF Packed
<1>4. Sum("dtcm")[k - 1] = 0
    BY <1>1, <1>2, SumIs
<1>5. Own("dtcm", k - 1)
    BY <1>2 DEF Own
<1>6. Stage(0, 0)
    BY <1>1, <1>2, <1>3, <1>4, <1>5 DEF Stage
<1>7. 0 * Need("sram") = 0 /\ 0 * Need("dtcm") = 0
    BY <1>1, SumIs
<1> QED
    BY <1>6, <1>7 DEF Staged

LEMMA EthMemMallocStaged ==
    ASSUME IInv, DtcmFollows, EthMemMalloc, NEW c \in Nat,
           Stage(c * Need("sram"), c * Need("dtcm"))
    PROVE  Stage(c * Need("sram"), c * Need("dtcm"))'
<1> DEFINE s == c * Need("sram")
           d == c * Need("dtcm")
           n == Requests("dtcm")
<1>1. /\ TypeInv /\ PoolsConsistent /\ pc = "dtcm" /\ Malloc("dtcm")
      /\ "dtcm" \in Pool /\ "sram" \in Pool
    BY DEF IInv, EthMemMalloc, Pool
<1>2. n \in Nat \ {0} /\ k \in 1..n
    <2>1. Bytes["dtcm"] \in Seq(Nat) /\ n \in Nat \ {0}
        BY <1>1, LwipBootAssumption DEF Requests
    <2> QED
        BY <1>1, <2>1 DEF TypeInv, Requests
<1>m. PICK m : m = k
    OBVIOUS
<1>3. /\ table'["sram"] = table["sram"] /\ ptr'["sram"] = ptr["sram"]
      /\ \A i \in 1..n : i # k => ptr'["dtcm"][i] = ptr["dtcm"][i]
      /\ SramHeld' = SramHeld
    <2>1. SramHeld' = SramHeld
        <3>1. k \in DOMAIN Bytes["dtcm"]
            BY <1>1 DEF TypeInv
        <3> QED
            BY <1>1, <3>1, MallocFresh DEF SramHeld
    <2> QED
        BY <1>1, <1>2, <2>1, MallocIs
<1>4. /\ pc' \in {"dtcm", "sram"}
      /\ pc' = "dtcm" => k' = k + 1
      /\ pc' = "sram" => k' = 1 /\ k = n
    BY <1>1 DEF EthMemMalloc, Last, Requests
<1>5. /\ s \in 0..Blocks["sram"] /\ d \in Nat /\ Blocks["dtcm"] \in Nat
      /\ Packed(table["sram"], Blocks["sram"], s)
      /\ Room(s) => /\ Packed(table["dtcm"], Blocks["dtcm"], d + Sum("dtcm")[k - 1])
                    /\ Own("dtcm", k - 1)
      /\ Room(s) => d + Need("dtcm") <= Blocks["dtcm"]
    BY <1>1, OneMore, LwipBootAssumption DEF Stage
<1> HIDE DEF s, d, n
<1>6. ASSUME Room(s)
      PROVE  /\ Packed(table'["dtcm"], Blocks["dtcm"], d + Sum("dtcm")[k])
             /\ Own("dtcm", m)'
    <2> DEFINE u == d + Sum("dtcm")[k - 1]
    <2>1. /\ Sum("dtcm")[k - 1] \in Nat /\ Sum("dtcm")[k] \in Nat
          /\ Size("dtcm", k) \in Nat \ {0} /\ Need("dtcm") \in Nat
          /\ Sum("dtcm")[k] = Sum("dtcm")[k - 1] + Size("dtcm", k)
          /\ Sum("dtcm")[k] <= Need("dtcm")
        BY <1>1, <1>2, SumIs, SumBelowNeed, SizePositive DEF n
    <2>2. u \in 0..Blocks["dtcm"] /\ u + Size("dtcm", k) <= Blocks["dtcm"]
          /\ u + Size("dtcm", k) = d + Sum("dtcm")[k]
        BY <1>5, <1>6, <2>1
    <2>3. Packed(table["dtcm"], Blocks["dtcm"], u)
        BY <1>5, <1>6
    <2> HIDE DEF u
    <2> QED
        BY <1>1, <1>2, <1>m, <1>5, <1>6, <2>2, <2>3, MallocPacks DEF n
<1>7. CASE pc' = "dtcm"
    <2>1. k' - 1 = k /\ k' - 1 = m
        BY <1>2, <1>m, <1>4, <1>7
    <2>2. Room(s) => /\ Packed(table'["dtcm"], Blocks["dtcm"], d + Sum("dtcm")[k' - 1])
                     /\ Own("dtcm", k - 1)'
        BY <1>6, <2>1 DEF Own
    <2> QED
        BY <1>3, <1>5, <1>7, <2>2 DEF Stage, Room, s, d
<1>8. CASE pc' = "sram"
    <2>1. k' - 1 = 0 /\ 1..0 = {}
        BY <1>4, <1>8
    <2>2. Mine(s, 1..0)'
        <3>1. \A i \in 0..(Blocks["sram"] - 1) :
                table'["sram"][i] = 0 <=> i < Blocks["sram"] - s
            BY <1>3, <1>5 DEF Packed
        <3>2. Blocks["sram"] \in Nat
            BY <1>1, LwipBootAssumption
        <3> QED
            BY <1>5, <2>1, <3>1, <3>2 DEF Mine
    <2>3. Mine(s, 1..(k - 1))'
        BY <2>1, <2>2 DEF Mine
    <2>4. Clean(k - 1)'
        BY <2>1 DEF Clean
    <2>5. Own("sram", k - 1)'
        BY <2>1 DEF Own
    <2>6. Sum("sram")[k' - 1] = 0 /\ s \in s..Blocks["sram"] /\ s + 0 = s
        BY <1>1, <1>5, <2>1, SumIs, LwipBootAssumption
    <2>7. Room(s) => /\ Packed(table'["dtcm"], Blocks["dtcm"], d + Need("dtcm"))
                     /\ Own("dtcm", Requests("dtcm"))'
        <3>1. m = Requests("dtcm") /\ Sum("dtcm")[k] = Need("dtcm")
            BY <1>1, <1>m, <1>4, <1>8, SumIs DEF n
        <3> QED
            BY <1>6, <3>1
    <2>8. \E u \in s..Blocks["sram"] :
            /\ Packed(table'["sram"], Blocks["sram"], u)
            /\ Clean(k - 1)' => u = s + Sum("sram")[k' - 1] /\ Own("sram", k - 1)'
        BY <1>3, <1>5, <2>5, <2>6
    <2> QED
        BY <1>5, <1>8, <2>3, <2>4, <2>7, <2>8 DEF Stage, Room, s, d
<1> QED
    BY <1>4, <1>7, <1>8

LEMMA LwipMemMallocStaged ==
    ASSUME IInv, DtcmFollows, LwipMemMalloc, NEW c \in Nat,
           Stage(c * Need("sram"), c * Need("dtcm"))
    PROVE  Stage(c * Need("sram"), c * Need("dtcm"))'
<1> DEFINE s == c * Need("sram")
           d == c * Need("dtcm")
           n == Requests("sram")
           B == Blocks["sram"]
<1>1. /\ TypeInv /\ PoolsConsistent /\ PtrsOK /\ pc = "sram" /\ Malloc("sram")
      /\ "dtcm" \in Pool /\ "sram" \in Pool
    BY DEF IInv, LwipMemMalloc, Pool
<1>2. n \in Nat \ {0} /\ k \in 1..n /\ k \in DOMAIN Bytes["sram"]
      /\ DOMAIN Bytes["sram"] = 1..n
    <2>1. Bytes["sram"] \in Seq(Nat) /\ n \in Nat \ {0}
        BY <1>1, LwipBootAssumption DEF Requests
    <2> QED
        BY <1>1, <2>1 DEF TypeInv, Requests
<1>m. PICK m : m = k
    OBVIOUS
<1>3. /\ table'["dtcm"] = table["dtcm"] /\ ptr'["dtcm"] = ptr["dtcm"]
      /\ \A i \in 1..n : i # m => ptr'["sram"][i] = ptr["sram"][i]
      /\ held \subseteq held'
    <2>1. held \subseteq held'
        BY <1>1, <1>2, MallocKeeps
    <2> QED
        BY <1>1, <1>2, <1>m, <2>1, MallocIs
<1>4. /\ pc' \in {"sram", "undo", "phy"}
      /\ pc' = "sram" => k' = k + 1
      /\ pc' # "sram" => k' = 1 /\ k = n
      /\ pc' = "undo" <=> k = n /\ Missing(ptr'["sram"])
    BY <1>1 DEF LwipMemMalloc, Last, Requests
<1>5. /\ s \in 0..B /\ d \in Nat /\ B \in Nat
      /\ Mine(s, 1..(m - 1))
      /\ Room(s) => /\ Clean(m - 1)
                    /\ Packed(table["dtcm"], Blocks["dtcm"], d + Need("dtcm"))
                    /\ Own("dtcm", Requests("dtcm"))
    BY <1>1, <1>m, OneMore, LwipBootAssumption DEF Stage
<1>6. PICK u \in s..B :
         /\ Packed(table["sram"], B, u)
         /\ Clean(m - 1) => u = s + Sum("sram")[m - 1] /\ Own("sram", m - 1)
    BY <1>1, <1>m DEF Stage
<1>7. /\ Sum("sram")[m - 1] \in Nat /\ Sum("sram")[m] \in Nat
      /\ Size("sram", m) \in Nat \ {0} /\ Need("sram") \in Nat
      /\ Sum("sram")[m] = Sum("sram")[m - 1] + Size("sram", m)
      /\ Sum("sram")[m] <= Need("sram")
    BY <1>1, <1>2, <1>m, SumIs, SumBelowNeed, SizePositive DEF n
<1> DEFINE v == u + Size("sram", m)
           o == ptr'["sram"][m]
           new == Alloc("sram", o, Size("sram", m))
<1>8. /\ v <= B => /\ o = B - v /\ o # Fail /\ held' = held \cup {new}
                   /\ Packed(table'["sram"], B, v)
                   /\ Own("sram", m - 1) => Own("sram", m)'
      /\ v > B => o = Fail /\ held' = held /\ table'["sram"] = table["sram"]
    <2>1. u \in 0..B
        BY <1>5, <1>6
    <2>2. u + Size("sram", m) > B => /\ ptr'["sram"][m] = Fail /\ held' = held
                                     /\ table'["sram"] = table["sram"]
        BY <1>1, <1>2, <1>m, <1>6, <2>1, MallocPacks DEF n
    <2>3. u + Size("sram", m) <= B =>
            /\ ptr'["sram"][m] = B - u - Size("sram", m) /\ ptr'["sram"][m] # Fail
            /\ held' = held \cup {Alloc("sram", ptr'["sram"][m], Size("sram", m))}
            /\ Packed(table'["sram"], B, u + Size("sram", m))
            /\ Own("sram", m - 1) => Own("sram", m)'
        BY <1>1, <1>2, <1>m, <1>6, <2>1, MallocPacks DEF n
    <2>4. B - u - Size("sram", m) = B - v
        BY <1>5, <1>6, <1>7
    <2> QED
        BY <2>2, <2>3, <2>4
<1>9. /\ new.pool = "sram" /\ new.off = o /\ new.n = Size("sram", m)
    BY DEF Alloc
<1>10. \A i \in 1..m : i = m \/ (i \in 1..(m - 1) /\ ptr'["sram"][i] = ptr["sram"][i])
    BY <1>2, <1>m, <1>3
<1>11. m \in 1..m /\ 1..(m - 1) \subseteq 1..m
    BY <1>2, <1>m
<1> HIDE DEF s, d, n, B, v, o, new
\* The pool is packed still, and a request was met unless it did not fit.
<1>12. \E w \in s..B :
         /\ Packed(table'["sram"], B, w)
         /\ Clean(m)' => w = s + Sum("sram")[m] /\ Own("sram", m)'
    <2>1. Clean(m)' => Clean(m - 1) /\ o # Fail
        <3> SUFFICES ASSUME Clean(m)' PROVE Clean(m - 1) /\ o # Fail
            OBVIOUS
        <3>1. \A i \in 1..m : ptr'["sram"][i] # Fail
            BY DEF Clean
        <3>2. \A i \in 1..(m - 1) : i \in 1..m /\ ptr'["sram"][i] = ptr["sram"][i]
            BY <1>2, <1>m, <1>3
        <3> QED
            BY <1>11, <3>1, <3>2 DEF Clean, o
    <2>2. CASE v <= B
        <3>1. v \in s..B
            BY <1>5, <1>6, <1>7, <2>2 DEF v
        <3>2. Clean(m - 1) => v = s + Sum("sram")[m]
            BY <1>5, <1>6, <1>7 DEF v
        <3> QED
            BY <1>6, <1>8, <2>1, <2>2, <3>1, <3>2
    <2>3. CASE v > B
        BY <1>6, <1>8, <2>1, <2>3
    <2> QED
        <3>1. v \in Int
            BY <1>5, <1>6, <1>7 DEF v
        <3> QED
            BY <1>5, <2>2, <2>3, <3>1
<1>13. Room(s) => Clean(m)'
    <2> SUFFICES ASSUME Room(s), NEW i \in 1..m PROVE ptr'["sram"][i] # Fail
        BY DEF Clean
    <2>1. CASE i = m
        <3>1. u = s + Sum("sram")[m - 1]
            BY <1>5, <1>6
        <3>2. v <= B
            <4>1. s + Need("sram") <= B
                BY DEF Room, B
            <4>2. s \in Nat /\ B \in Nat
                BY <1>5
            <4> QED
                BY <1>7, <3>1, <4>1, <4>2 DEF v
        <3> QED
            BY <1>8, <2>1, <3>2 DEF o
    <2>2. CASE i # m
        BY <1>5, <1>10, <2>2 DEF Clean
    <2> QED
        BY <2>1, <2>2
<1>14. Mine(s, 1..m)'
    <2>1. ASSUME NEW i \in 0..(B - 1), i >= B - s PROVE table'["sram"][i] # 0
        <3>1. PICK w \in s..B : Packed(table'["sram"], B, w)
            BY <1>12
        <3> QED
            BY <1>5, <2>1, <3>1 DEF Packed
    <2>2. ASSUME NEW i \in 0..(B - 1), i < B - s, table'["sram"][i] # 0
          PROVE  \E j \in 1..m, a \in SramHeld' :
                   ptr'["sram"][j] = a.off /\ i \in Run(a.off, a.n)
        <3>1. CASE table["sram"][i] # 0
            <4>1. PICK j \in 1..(m - 1), a \in SramHeld :
                    ptr["sram"][j] = a.off /\ i \in Run(a.off, a.n)
                BY <1>5, <2>2, <3>1 DEF Mine, B
            <4>2. j \in 1..m /\ ptr'["sram"][j] = ptr["sram"][j]
                BY <1>2, <1>m, <1>3
            <4>3. a \in SramHeld'
                BY <1>3 DEF SramHeld
            <4> QED
                BY <4>1, <4>2, <4>3
        <3>2. CASE table["sram"][i] = 0
            <4>1. v <= B
                <5>1. v \in Int
                    BY <1>5, <1>6, <1>7 DEF v
                <5>2. ASSUME v > B PROVE FALSE
                    <6>1. table'["sram"] = table["sram"]
                        BY <1>8, <5>2
                    <6> QED
                        BY <2>2, <3>2, <6>1
                <5> QED
                    BY <1>5, <5>1, <5>2
            <4>2. i < B - u /\ ~(i < B - v)
                BY <1>6, <1>8, <2>2, <3>2, <4>1 DEF Packed
            <4>3. i \in Run(new.off, new.n)
                BY <1>5, <1>6, <1>7, <1>8, <1>9, <4>1, <4>2 DEF Run, v
            <4>4. new \in SramHeld'
                BY <1>8, <1>9, <4>1 DEF SramHeld
            <4> QED
                BY <1>9, <1>11, <4>3, <4>4 DEF o
        <3> QED
            BY <3>1, <3>2
    <2>3. ASSUME NEW j \in 1..m, NEW a \in SramHeld', ptr'["sram"][j] = a.off
          PROVE  a.off + a.n <= B - s
        <3>1. CASE a = new /\ v <= B
            BY <1>5, <1>6, <1>7, <1>8, <1>9, <3>1 DEF v
        <3>2. CASE a \in SramHeld
            <4>1. CASE j = m
                <5>1. a.off # o
                    <6>1. a \in held /\ a.pool = "sram"
                        BY <3>2 DEF SramHeld
                    <6>2. \/ o = Fail
                          \/ \A b \in held : b.pool = "sram" => b.off # o
                        BY <1>1, <1>2, <1>m, MallocFresh DEF o
                    <6>3. a.off \in Nat
                        BY <1>1, <6>1 DEF TypeInv, Allocation
                    <6> QED
                        BY <6>1, <6>2, <6>3 DEF Fail
                <5> QED
                    BY <2>3, <4>1, <5>1 DEF o
            <4>2. CASE j # m
                BY <1>5, <1>10, <2>3, <3>2, <4>2 DEF Mine, B
            <4> QED
                BY <4>1, <4>2
        <3>3. a \in SramHeld \/ (a = new /\ v <= B)
            <4>1. v \in Int
                BY <1>5, <1>6, <1>7 DEF v
            <4> QED
                BY <1>5, <1>8, <2>3, <4>1 DEF SramHeld
        <3> QED
            BY <3>1, <3>2, <3>3
    <2> QED
        BY <2>1, <2>2, <2>3 DEF Mine, B
<1>15. Room(s) => /\ Packed(table'["dtcm"], Blocks["dtcm"], d + Need("dtcm"))
                  /\ Own("dtcm", Requests("dtcm"))'
    BY <1>1, <1>3, <1>5, OwnKept
<1>16. CASE pc' = "sram"
    <2>1. k' - 1 = m
        BY <1>2, <1>m, <1>4, <1>16
    <2>2. Mine(s, 1..(k - 1))'
        BY <1>14, <2>1 DEF Mine
    <2>3. Clean(m)' <=> Clean(k - 1)'
        BY <2>1 DEF Clean
    <2>4. Own("sram", m)' <=> Own("sram", k - 1)'
        BY <2>1 DEF Own
    <2>5. \E w \in s..B :
            /\ Packed(table'["sram"], B, w)
            /\ Clean(k - 1)' => w = s + Sum("sram")[k' - 1] /\ Own("sram", k - 1)'
        BY <1>12, <2>1, <2>3, <2>4
    <2> QED
        BY <1>5, <1>13, <1>15, <1>16, <2>2, <2>3, <2>5 DEF Stage, Room, s, d, B
<1>17. Missing(ptr'["sram"]) <=> ~Clean(n)'
    <2>1. DOMAIN ptr'["sram"] = 1..n
        BY <1>1, <1>2, MallocKeeps
    <2> QED
        BY <2>1 DEF Missing, Clean
<1>18. CASE pc' = "undo"
    <2>1. m = n /\ k' = 1 /\ ~Clean(m)'
        BY <1>m, <1>4, <1>17, <1>18
    <2>2. Mine(s, k..Requests("sram"))'
        BY <1>14, <2>1 DEF Mine, n
    <2> QED
        BY <1>5, <1>13, <1>18, <2>1, <2>2 DEF Stage, Room, s, d, B
<1>19. CASE pc' = "phy"
    <2>1. m = n /\ Clean(m)'
        BY <1>m, <1>4, <1>17, <1>19
    <2>2. PICK w \in s..B : /\ Packed(table'["sram"], B, w)
                            /\ w = s + Sum("sram")[m] /\ Own("sram", m)'
        BY <1>12, <2>1
    <2>3. Sum("sram")[m] = Need("sram")
        BY <1>1, <2>1, SumIs DEF n
    <2>4. Room(s) /\ Packed(table'["sram"], B, s + Need("sram"))
        BY <1>5, <2>2, <2>3 DEF Room, B
    <2>5. \A p \in Pool : Own(p, Requests(p))'
        <3>1. Own("sram", Requests("sram"))'
            BY <2>1, <2>2 DEF n
        <3> QED
            BY <1>15, <2>4, <3>1 DEF Pool
    <2> QED
        BY <1>5, <1>15, <1>19, <2>4, <2>5 DEF Stage, Room, s, d, B
<1> QED
    BY <1>4, <1>16, <1>18, <1>19

\* What lwip_comm_mem_free() clears lies below the blocks of earlier calls.
LEMMA LwipMemFreeStaged ==
    ASSUME IInv, DtcmFollows, LwipMemFree, NEW c \in Nat,
           Stage(c * Need("sram"), c * Need("dtcm"))
    PROVE  Stage(c * Need("sram"), c * Need("dtcm"))'
<1> DEFINE s == c * Need("sram")
           d == c * Need("dtcm")
           n == Requests("sram")
           B == Blocks["sram"]
           o == ptr["sram"][k]
<1>1. TypeInv /\ PoolsConsistent /\ PtrsOK /\ pc = "undo" /\ "sram" \in Pool
    BY DEF IInv, LwipMemFree, Pool
<1>2. n \in Nat \ {0} /\ k \in 1..n /\ DOMAIN Bytes["sram"] = 1..n
    <2>1. Bytes["sram"] \in Seq(Nat) /\ n \in Nat \ {0}
        BY <1>1, LwipBootAssumption DEF Requests
    <2> QED
        BY <1>1, <2>1 DEF TypeInv, Requests
<1>3. /\ s \in 0..B /\ B \in Nat /\ ~Room(s) /\ Mine(s, k..n)
    BY <1>1, LwipBootAssumption DEF Stage
<1>4. /\ table'["sram"] = Freed(table["sram"], o) /\ ptr' = ptr
      /\ SramHeld' = {a \in SramHeld : a.off # o}
      /\ pc' \in {"undo", "delay"}
      /\ pc' = "undo" => k' = k + 1
      /\ pc' = "delay" => k' = 1 /\ k = n
    BY <1>1 DEF LwipMemFree, Last, Requests, SramHeld, TypeInv
<1>5. table["sram"] \in Table(B)
    BY <1>1 DEF TypeInv
<1>6. o = Fail \/ FreeAt(o) \/ \E a \in SramHeld : a.off = o
    BY <1>1, <1>2 DEF PtrsOK, Starts, SramHeld
<1>7. \A a \in SramHeld : /\ a.off \in Nat /\ a.n \in Nat \ {0}
                          /\ a.off \in Run(a.off, a.n)
                          /\ table["sram"][a.off] = a.n
    <2> SUFFICES ASSUME NEW a \in SramHeld
                 PROVE  /\ a.off \in Nat /\ a.n \in Nat \ {0}
                        /\ a.off \in Run(a.off, a.n)
                        /\ table["sram"][a.off] = a.n
        OBVIOUS
    <2>1. a \in held /\ a.pool = "sram"
        BY DEF SramHeld
    <2>2. a.off \in Nat /\ a.n \in Nat \ {0} /\ a.off \in Run(a.off, a.n)
        BY <1>1, <2>1 DEF TypeInv, Allocation, Run
    <2> QED
        BY <1>1, <2>1, <2>2 DEF PoolsConsistent
<1> HIDE DEF s, d, n, B, o
<1>8. \A j \in k..n : j = k \/ j \in (k + 1)..n
    BY <1>2
<1>9. /\ k \in k..n /\ (k + 1)..n \subseteq k..n
    BY <1>2
<1>10. ASSUME NEW i \in 0..(B - 1)
       PROVE  /\ table'["sram"][i] # 0 => table["sram"][i] # 0
              /\ i >= B - s => table'["sram"][i] = table["sram"][i]
              /\ \A a \in SramHeld : a.off = o /\ i \in Run(a.off, a.n)
                                       => table'["sram"][i] = 0
    <2>1. CASE o = Fail
        BY <1>4, <1>7, <2>1 DEF Freed, Fail
    <2>2. CASE o # Fail /\ FreeAt(o)
        <3>1. Run(o, table["sram"][o]) = {}
            <4>1. o \in DOMAIN table["sram"] /\ table["sram"][o] = 0
                BY <2>2 DEF FreeAt
            <4>2. o \in Int
                BY <1>3, <1>5, <4>1 DEF Table
            <4> QED
                BY <4>1, <4>2 DEF Run
        <3>2. table'["sram"][i] = table["sram"][i]
            BY <1>4, <1>5, <2>2, <3>1 DEF Freed, Table
        <3>3. \A a \in SramHeld : a.off # o
            BY <1>7, <2>2 DEF FreeAt
        <3> QED
            BY <3>2, <3>3
    <2>3. ASSUME o # Fail, NEW a \in SramHeld, a.off = o
          PROVE  /\ table'["sram"][i] # 0 => table["sram"][i] # 0
                 /\ i >= B - s => table'["sram"][i] = table["sram"][i]
                 /\ \A b \in SramHeld : b.off = o /\ i \in Run(b.off, b.n)
                                          => table'["sram"][i] = 0
        <3>1. table'["sram"][i] = IF i \in Run(o, a.n) THEN 0 ELSE table["sram"][i]
            BY <1>4, <1>5, <1>7, <2>3 DEF Freed, Table
        <3>2. a.off + a.n <= B - s
            BY <1>3, <1>9, <2>3 DEF Mine, o, B
        <3>3. i >= B - s => i \notin Run(o, a.n)
            BY <1>3, <1>7, <2>3, <3>2 DEF Run
        <3>4. \A b \in SramHeld : b.off = o => b.n = a.n
            BY <1>7, <2>3
        <3> QED
            BY <3>1, <3>3, <3>4
    <2> QED
        BY <1>6, <2>1, <2>2, <2>3
<1>m. PICK m : m = k + 1
    OBVIOUS
<1>11. Mine(s, m..n)'
    <2>1. ASSUME NEW i \in 0..(B - 1), i >= B - s PROVE table'["sram"][i] # 0
        BY <1>3, <1>10, <2>1 DEF Mine, B
    <2>2. ASSUME NEW i \in 0..(B - 1), i < B - s, table'["sram"][i] # 0
          PROVE  \E j \in m..n, a \in SramHeld' :
                   ptr'["sram"][j] = a.off /\ i \in Run(a.off, a.n)
        <3>1. PICK j \in k..n, a \in SramHeld :
                ptr["sram"][j] = a.off /\ i \in Run(a.off, a.n)
            BY <1>3, <1>10, <2>2 DEF Mine, B
        <3>2. a.off # o
            BY <1>10, <2>2, <3>1
        <3>3. j \in m..n /\ a \in SramHeld'
            BY <1>m, <1>4, <1>8, <3>1, <3>2 DEF o
        <3> QED
            BY <1>4, <3>1, <3>3
    <2>3. ASSUME NEW j \in m..n, NEW a \in SramHeld', ptr'["sram"][j] = a.off
          PROVE  a.off + a.n <= B - s
        <3>1. j \in k..n /\ a \in SramHeld /\ ptr["sram"][j] = a.off
            BY <1>m, <1>4, <1>9, <2>3
        <3> QED
            BY <1>3, <3>1 DEF Mine, B
    <2> QED
        BY <2>1, <2>2, <2>3 DEF Mine, B
<1>12. CASE pc' = "undo"
    <2>1. Mine(s, k..Requests("sram"))'
        BY <1>m, <1>4, <1>11, <1>12 DEF Mine, n
    <2> QED
        BY <1>3, <1>12, <2>1 DEF Stage, Room, s, d, B
<1>13. CASE pc' = "delay"
    <2>1. m..n = {}
        BY <1>2, <1>m, <1>4, <1>13
    <2>2. ASSUME NEW i \in 0..(B - 1)
          PROVE  table'["sram"][i] = 0 <=> i < B - s
        BY <1>3, <1>11, <2>1 DEF Mine, B
    <2>3. Packed(table'["sram"], B, s)
        BY <2>2 DEF Packed
    <2> QED
        BY <1>3, <1>13, <2>3 DEF Stage, Room, s, d, B
<1> QED
    BY <1>4, <1>12, <1>13

\* Giving up on the PHY leaves one whole call more.
LEMMA PhyInitStaged ==
    ASSUME IInv, DtcmFollows, NEW ok \in BOOLEAN, PhyInit(ok), Staged
    PROVE  Staged'
<1>1. PICK c \in Nat : Stage(c * Need("sram"), c * Need("dtcm"))
    BY DEF Staged
<1> DEFINE s == c * Need("sram")
           d == c * Need("dtcm")
<1>2. /\ pc = "phy" /\ pc' \in {"phy", "up", "delay"}
      /\ table' = table /\ ptr' = ptr /\ held' = held
    BY DEF PhyInit
<1>3. /\ s \in 0..Blocks["sram"]
      /\ Room(s) /\ \A p \in Pool : Own(p, Requests(p))
      /\ Packed(table["sram"], Blocks["sram"], s + Need("sram"))
      /\ Packed(table["dtcm"], Blocks["dtcm"], d + Need("dtcm"))
    BY <1>1, <1>2 DEF Stage
<1>4. \A p \in Pool : Own(p, Requests(p))'
    BY <1>2, <1>3 DEF Own
<1>5. CASE pc' \in {"phy", "up"}
    <2>1. Stage(s, d)'
        BY <1>2, <1>3, <1>4, <1>5 DEF Stage, Room
    <2> QED
        BY <2>1 DEF Staged
<1>6. CASE pc' = "delay"
    <2> DEFINE s1 == (c + 1) * Need("sram")
               d1 == (c + 1) * Need("dtcm")
    <2>1. /\ s1 = s + Need("sram") /\ d1 = d + Need("dtcm") /\ s1 \in Nat
          /\ Blocks["sram"] \in Nat /\ c + 1 \in Nat
        <3>1. "sram" \in Pool /\ "dtcm" \in Pool
            BY DEF Pool
        <3>2. \A p \in Pool : (c + 1) * Need(p) = c * Need(p) + Need(p)
            BY OneMore
        <3>3. c * Need("sram") \in Nat /\ Need("sram") \in Nat
            BY <3>1, OneMore, SumIs
        <3>4. Blocks["sram"] \in Nat /\ c + 1 \in Nat
            BY <3>1, LwipBootAssumption
        <3>5. s1 = s + Need("sram") /\ d1 = d + Need("dtcm")
            BY <3>1, <3>2
        <3> HIDE DEF s, s1
        <3>6. s1 \in Nat
            BY <3>3, <3>5 DEF s
        <3> QED
            BY <3>4, <3>5, <3>6
    <2> HIDE DEF s, d, s1, d1
    <2>2. s1 \in 0..Blocks["sram"]
        BY <1>3, <2>1 DEF Room
    <2>3. Stage(s1, d1)'
        BY <1>2, <1>3, <1>6, <2>1, <2>2 DEF Stage, Room
    <2> QED
        BY <2>1, <2>3 DEF Staged, s1, d1
<1> QED
    BY <1>2, <1>5, <1>6

LEMMA AgainStaged ==
    ASSUME IInv, DtcmFollows, Again, NEW c \in Nat,
           Stage(c * Need("sram"), c * Need("dtcm"))
    PROVE  Stage(c * Need("sram"), c * Need("dtcm"))'
<1> DEFINE s == c * Need("sram")
           d == c * Need("dtcm")
<1>1. /\ pc = "delay" /\ pc' = "dtcm" /\ k' = k /\ table' = table /\ k = 1
    BY DEF Again, IInv, TypeInv
<1>2. /\ s \in 0..Blocks["sram"] /\ d \in Nat
      /\ Packed(table["sram"], Blocks["sram"], s)
      /\ Room(s) => Packed(table["dtcm"], Blocks["dtcm"], d)
    BY <1>1, OneMore DEF Stage, Pool
<1>3. k' - 1 = 0 /\ Sum("dtcm")[k' - 1] = 0
    BY <1>1, SumIs DEF Pool
<1>4. Own("dtcm", k - 1)'
    BY <1>3 DEF Own
<1> HIDE DEF s, d
<1>5. d + Sum("dtcm")[k' - 1] = d
    BY <1>2, <1>3
<1>6. Stage(s, d)'
    BY <1>1, <1>2, <1>4, <1>5 DEF Stage, Room
<1> QED
    BY <1>6 DEF s, d

LEMMA SpecStaged == ASSUME DtcmFollows PROVE Spec => []Staged
<1>1. Init => Staged
    BY StagedStarts
<1>2. ASSUME IInv, Staged, [Next]_vars PROVE Staged'
    <2>1. PICK c \in Nat : Stage(c * Need("sram"), c * Need("dtcm"))
        BY <1>2 DEF Staged
    <2>2. CASE EthMemMalloc
        BY <1>2, <2>1, <2>2, EthMemMallocStaged DEF Staged
    <2>3. CASE LwipMemMalloc
        BY <1>2, <2>1, <2>3, LwipMemMallocStaged DEF Staged
    <2>4. CASE LwipMemFree
        BY <1>2, <2>1, <2>4, LwipMemFreeStaged DEF Staged
    <2>5. CASE \E ok \in BOOLEAN : PhyInit(ok)
        BY <1>2, <2>5, PhyInitStaged
    <2>6. CASE Again
        BY <1>2, <2>1, <2>6, AgainStaged DEF Staged
    <2>7. CASE UNCHANGED vars
        <3>1. Stage(c * Need("sram"), c * Need("dtcm"))'
            BY <2>1, <2>7 DEF vars, Stage, Mine, Own, Clean, Room, SramHeld
        <3> QED
            BY <3>1 DEF Staged
    <2> QED
        BY <1>2, <2>2, <2>3, <2>4, <2>5, <2>6, <2>7 DEF Next
<1>3. IInv /\ Staged /\ [Next]_vars => Staged'
    BY <1>2
<1> QED
    BY SpecIInv, <1>1, <1>3, PTL DEF Spec

-----------------------------------------------------------------------------
(* The theorems                                                            *)

\* Every variable of the boot loop of main() and of the pools keeps its type:
\* the tables keep their length and lwip_comm_init() its count of tries.
THEOREM TypeCorrect == Spec => []TypeOK
<1>1. IInv => TypeOK
    BY DEF IInv, TypeInv, TypeOK
<1> QED
    BY <1>1, SpecIInv, PTL

\* However often lwip_comm_init() fails and starts over, the tables of malloc.c
\* say exactly what is allocated: lwip_comm_mem_free() never clears a block of an
\* allocation it does not mean, and mymalloc() never hands out a block twice.
THEOREM TablesExact == Spec => []PoolsConsistent
<1>1. IInv => PoolsConsistent
    BY DEF IInv
<1> QED
    BY <1>1, SpecIInv, PTL

\* Each lwip_comm_init() that fails has either given back all the memory of lwIP
\* it took or kept all of it (the PHY): lwip_comm_mem_free() returns exactly the
\* allocations of its own call, whichever of them failed and however many calls
\* went before, for requests of every size and number.
THEOREM CallsAreWhole == Spec => []AllOrNothing
<1>1. WholeCalls => AllOrNothing
    <2> SUFFICES ASSUME WholeCalls, pc = "delay"
                 PROVE  Cardinality(SramHeld) % Len(Bytes["sram"]) = 0
        BY DEF AllOrNothing, SramHeld
    <2>1. PICK B, q : Calls(B, q)
        BY DEF WholeCalls
    <2>2. Current = {}
        BY DEF Current
    <2> HIDE DEF SramHeld
    <2>3. B = SramHeld
        BY <2>1, <2>2 DEF Calls
    <2>4. q \in Nat /\ Cardinality(SramHeld) = Len(Bytes["sram"]) * q
        BY <2>1, <2>3 DEF Calls
    <2>5. Len(Bytes["sram"]) \in Nat \ {0}
        BY LwipBootAssumption DEF Pool
    <2> QED
        BY <2>4, <2>5, WholeOfMany
<1> QED
    BY <1>1, SpecWhole, PTL

\* Whatever failed before, the stack starts with every buffer it uses, although
\* ETH_Mem_Malloc() never finds out that mymalloc() refused it: as long as the
\* DTCM pool takes a whole call as often as the internal pool does, a call that
\* lwip_comm_mem_malloc() lets go on has them all.
THEOREM StartIsWhole == ASSUME DtcmFollows PROVE Spec => []StartsWhole
<1>1. ASSUME Staged PROVE StartsWhole
    <2> SUFFICES ASSUME pc = "up", NEW p \in Pool, NEW i \in DOMAIN Bytes[p]
                 PROVE  /\ Alloc(p, ptr[p][i], NMemb(Bytes[p][i])) \in held
                        /\ \A j \in DOMAIN Bytes[p] \ {i} : ptr[p][j] # ptr[p][i]
        BY DEF StartsWhole
    <2>1. Own(p, Requests(p))
        BY <1>1 DEF Staged, Stage
    <2>2. DOMAIN Bytes[p] = 1..Requests(p)
        <3>1. Bytes[p] \in Seq(Nat)
            BY LwipBootAssumption
        <3> QED
            BY <3>1 DEF Requests
    <2> QED
        BY <2>1, <2>2 DEF Own, Size
<1> QED
    BY <1>1, SpecStaged, PTL
=============================================================================
