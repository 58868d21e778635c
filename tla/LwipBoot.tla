------------------------------ MODULE LwipBoot ------------------------------
(***************************************************************************)
(* Bringing up the network: main() calls lwip_comm_init() until it returns *)
(* 0.  Each call allocates the Ethernet buffers in the DTCM pool and the   *)
(* memory of lwIP in the internal pool, then tries the PHY six times.      *)
(* A call that fails returns what it took only in part, and the next call  *)
(* overwrites the pointers: the module keeps the allocations as history.   *)
(***************************************************************************)
EXTENDS BlockPool, Sequences, FiniteSets

CONSTANTS
    Blocks,    \* [pool -> blocks in the pool]
    Bytes,     \* [pool -> the sizes asked for, in order]
    Retries    \* LAN8720_Init is tried once and then so often (5)

Pool == {"sram", "dtcm"}

ASSUME LwipBootAssumption ==
    /\ Blocks \in [Pool -> Nat \ {0}]
    /\ Bytes \in [Pool -> Seq(Nat)] /\ \A p \in Pool : Len(Bytes[p]) > 0
    /\ Retries \in Nat

VARIABLES
    pc,      \* "dtcm": in ETH_Mem_Malloc, "sram": in lwip_comm_mem_malloc,
             \* "undo": in lwip_comm_mem_free, "phy", "delay": in main, "up"
    k,       \* the allocation of that function that is next
    retry,   \* retry of lwip_comm_init
    table,   \* [pool -> allocation table]
    ptr,     \* [pool -> the pointers to the allocations, as block numbers]
    held     \* history: allocations not freed yet

vars == <<pc, k, retry, table, ptr, held>>

Alloc(p, o, n) == [pool |-> p, off |-> o, n |-> n]

Init ==
    /\ pc = "dtcm" /\ k = 1 /\ retry = 0
    /\ table = [p \in Pool |-> [i \in 0..(Blocks[p] - 1) |-> 0]]
    /\ ptr = [p \in Pool |-> [i \in DOMAIN Bytes[p] |-> Fail]]
    /\ held = {}

\* mymalloc into pointer k of pool p.
Malloc(p) ==
    LET n == NMemb(Bytes[p][k])
        o == MallocAt(table[p], n) IN
    /\ table' = [table EXCEPT ![p] = Marked(table[p], o, n)]
    /\ ptr' = [ptr EXCEPT ![p][k] = o]
    /\ held' = IF o = Fail THEN held ELSE held \cup {Alloc(p, o, n)}

Last(p) == k = Len(Bytes[p])

\* ETH_Mem_Malloc tests the addresses of its pointers, which are never 0: it
\* returns 0 whatever the pool gave.
EthMemMalloc ==
    /\ pc = "dtcm" /\ Malloc("dtcm")
    /\ IF Last("dtcm") THEN pc' = "sram" /\ k' = 1
                       ELSE k' = k + 1 /\ UNCHANGED pc
    /\ UNCHANGED retry

\* Mutant: the pointer to ram_heap is not tested.
MissingNotHeap(p) == \E i \in DOMAIN p : i # 2 /\ p[i] = Fail
Missing(p) == \E i \in DOMAIN p : p[i] = Fail

LwipMemMalloc ==
    /\ pc = "sram" /\ Malloc("sram")
    /\ IF Last("sram") THEN pc' = (IF Missing(ptr'["sram"]) THEN "undo" ELSE "phy")
                            /\ k' = 1
                       ELSE k' = k + 1 /\ UNCHANGED pc
    /\ UNCHANGED retry

\* Mutant: the loop of frees ends one early.
LwipMemFreeShort ==
    /\ pc = "undo"
    /\ LET o == ptr["sram"][k] IN
       /\ table' = [table EXCEPT !["sram"] = Freed(table["sram"], o)]
       /\ held' = {a \in held : ~(a.pool = "sram" /\ a.off = o)}
    /\ IF k + 1 = Len(Bytes["sram"]) THEN pc' = "delay" /\ k' = 1
                                     ELSE k' = k + 1 /\ UNCHANGED pc
    /\ UNCHANGED <<retry, ptr>>
\* myfree of pointer k; the pointers keep their values.
LwipMemFree ==
    /\ pc = "undo"
    /\ LET o == ptr["sram"][k] IN
       /\ table' = [table EXCEPT !["sram"] = Freed(table["sram"], o)]
       /\ held' = {a \in held : ~(a.pool = "sram" /\ a.off = o)}
    /\ IF Last("sram") THEN pc' = "delay" /\ k' = 1
                       ELSE k' = k + 1 /\ UNCHANGED pc
    /\ UNCHANGED <<retry, ptr>>

\* LAN8720_Init; giving up returns 2 and frees nothing.
PhyInit(ok) ==
    /\ pc = "phy"
    /\ IF ok THEN pc' = "up" /\ UNCHANGED retry
       ELSE IF retry + 1 > Retries THEN pc' = "delay" /\ retry' = 0
       ELSE retry' = retry + 1 /\ UNCHANGED pc
    /\ UNCHANGED <<k, table, ptr, held>>

\* main() blinks and calls lwip_comm_init() again.
Again ==
    /\ pc = "delay" /\ pc' = "dtcm"
    /\ UNCHANGED <<k, retry, table, ptr, held>>

Next == \/ EthMemMalloc \/ LwipMemMalloc \/ LwipMemFree
        \/ \E ok \in BOOLEAN : PhyInit(ok)
        \/ Again

Spec == Init /\ [][Next]_vars

-----------------------------------------------------------------------------
(* Properties                                                              *)

Allocation == [pool : Pool, off : Nat, n : Nat \ {0}]

\* Every variable has its type.
TypeOK ==
    /\ pc \in Pool \cup {"undo", "phy", "delay", "up"}
    /\ k \in Nat \ {0} /\ retry \in 0..Retries
    /\ DOMAIN table = Pool /\ DOMAIN ptr = Pool
    /\ \A p \in Pool : /\ table[p] \in Table(Blocks[p])
                       /\ ptr[p] \in [DOMAIN Bytes[p] -> Nat \cup {Fail}]
    /\ held \subseteq Allocation

\* The tables say exactly what is allocated: an allocation lies inside its pool,
\* all its blocks carry its length, no two share a block, and a block of none is
\* free.
PoolsConsistent ==
    /\ \A a \in held : \A i \in Run(a.off, a.n) :
         i \in DOMAIN table[a.pool] /\ table[a.pool][i] = a.n
    /\ \A a, b \in held :
         a # b /\ a.pool = b.pool => Run(a.off, a.n) \cap Run(b.off, b.n) = {}
    /\ \A p \in Pool : \A i \in DOMAIN table[p] :
         table[p][i] # 0 => \E a \in held : a.pool = p /\ i \in Run(a.off, a.n)

\* Whatever failed before, the stack starts with every buffer it uses: eight
\* allocations of the right sizes, none of them NULL, none shared.
StartsWhole ==
    pc = "up" =>
      \A p \in Pool : \A i \in DOMAIN Bytes[p] :
        /\ Alloc(p, ptr[p][i], NMemb(Bytes[p][i])) \in held
        /\ \A j \in DOMAIN Bytes[p] \ {i} : ptr[p][j] # ptr[p][i]

\* A call that fails for want of memory gives back the memory of lwIP to the
\* last block: between two calls the internal pool holds whole calls only, those
\* whose PHY did not come up.
AllOrNothing ==
    pc = "delay" =>
      Cardinality({a \in held : a.pool = "sram"}) % Len(Bytes["sram"]) = 0
=============================================================================
