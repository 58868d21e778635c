----------------------------- MODULE BlockPool ------------------------------
(***************************************************************************)
(* The memory pools of malloc.c: a table with one entry per block, 0 for a *)
(* free block and, in every block of an allocation, the number of its      *)
(* blocks.  Allocation takes the topmost run that is long enough; freeing  *)
(* clears as many entries as the first one says.                           *)
(***************************************************************************)
EXTENDS Integers, FiniteSetsExt

CONSTANT BlockSize   \* MEMx_BLOCK_SIZE

ASSUME BlockPoolAssumption == BlockSize \in Nat \ {0}

Fail == -1   \* 0XFFFFFFFF, NULL

Table(size) == [0..(size - 1) -> Nat]

\* Blocks of an allocation of that many bytes.
NMemb(bytes) == (bytes + BlockSize - 1) \div BlockSize

Run(o, n) == o..(o + n - 1)
\* Mutant: the last block of the run is not looked at.
FitsShort(t, n) == {o \in DOMAIN t : /\ Run(o, n) \subseteq DOMAIN t
                                     /\ \A i \in Run(o, n - 1) : t[i] = 0}
Fits(t, n) == {o \in DOMAIN t : /\ Run(o, n) \subseteq DOMAIN t
                                /\ \A i \in Run(o, n) : t[i] = 0}

\* my_mem_malloc.
MallocAt(t, n) == IF n = 0 \/ Fits(t, n) = {} THEN Fail ELSE Max(Fits(t, n))
Marked(t, o, n) == IF o = Fail THEN t
                   ELSE [i \in DOMAIN t |-> IF i \in Run(o, n) THEN n ELSE t[i]]

\* myfree and my_mem_free, with the block number of the pointer.
Freed(t, o) == IF o = Fail THEN t
               ELSE [i \in DOMAIN t |-> IF i \in Run(o, t[o]) THEN 0 ELSE t[i]]
=============================================================================
