------------------------------- MODULE MBlock -------------------------------
(***************************************************************************)
(* The memory pools of utils/mblock.c: new_segment() cuts segments from    *)
(* the first block of a pool, reuse_mblock() gives all blocks of a pool    *)
(* back, those of the least size to a free list that all pools share.      *)
(*                                                                         *)
(* Addresses are block and offset, counted in bytes; malloc() returns any  *)
(* block that is not in use.  safe_malloc() ends the program when there is *)
(* none, so that case is left out.                                         *)
(***************************************************************************)
EXTENDS Integers, Sequences

CONSTANTS
  Pools,             \* the MBlockLists of the program
  Blocks,            \* what malloc() may return
  MIN_MBLOCK_SIZE,
  ADDRALIGN,
  Sizes              \* the lengths segments are asked for

ASSUME SizeAssumption ==
  /\ ADDRALIGN \in Nat \ {0}
  /\ MIN_MBLOCK_SIZE \in Nat /\ MIN_MBLOCK_SIZE % ADDRALIGN = 0
  /\ Sizes \subseteq Nat \ {0}

VARIABLES
  chain,        \* chain[m]: the blocks of pool m from `first` on
  allocated,    \* allocated[m]: their sizes together
  free_mblock_list,
  block_size, offset,
  segments      \* history: what new_segment() returned and is still in use

vars == <<chain, allocated, free_mblock_list, block_size, offset, segments>>

Among(s) == {s[i] : i \in 1..Len(s)}
InUse == Among(free_mblock_list) \cup UNION {Among(chain[m]) : m \in Pools}

Init ==
  /\ chain = [m \in Pools |-> <<>>]
  /\ allocated = [m \in Pools |-> 0]
  /\ free_mblock_list = <<>>
  /\ block_size \in [Blocks -> {MIN_MBLOCK_SIZE}]
  /\ offset = [b \in Blocks |-> 0]
  /\ segments = {}

-----------------------------------------------------------------------------
Rounded(nbytes) == ((nbytes + ADDRALIGN - 1) \div ADDRALIGN) * ADDRALIGN

(* enough_block_memory() *)
Enough(m, n) ==
  chain[m] # <<>> /\ offset[Head(chain[m])] + n <= block_size[Head(chain[m])]

(* the segment at the offset of block b, whose pool is m *)
Cut(m, b, from, n) ==
  /\ offset' = [offset EXCEPT ![b] = from + n]
  /\ segments' = segments \cup
                   {[pool |-> m, block |-> b, from |-> from, to |-> from + n]}

(* new_segment() with room in the first block ... *)
NewSegment(m, nbytes) ==
  LET n == Rounded(nbytes)
      b == Head(chain[m])
  IN  /\ Enough(m, n)
      /\ Cut(m, b, offset[b], n)
      /\ UNCHANGED <<chain, allocated, free_mblock_list, block_size>>

(* ... and with a new block in front of it: new_mblock_node() *)
Push(m, b, size) ==
  /\ chain' = [chain EXCEPT ![m] = <<b>> \o @]
  /\ allocated' = [allocated EXCEPT ![m] = @ + size]

NewLarge(m, nbytes) ==
  LET n == Rounded(nbytes)
  IN  /\ ~Enough(m, n) /\ n > MIN_MBLOCK_SIZE
      /\ \E b \in Blocks \ InUse :
           /\ block_size' = [block_size EXCEPT ![b] = n]
           /\ Push(m, b, n) /\ Cut(m, b, 0, n)
      /\ UNCHANGED free_mblock_list

NewFromHeap(m, nbytes) ==
  LET n == Rounded(nbytes)
  IN  /\ ~Enough(m, n) /\ n <= MIN_MBLOCK_SIZE /\ free_mblock_list = <<>>
      /\ \E b \in Blocks \ InUse :
           /\ block_size' = [block_size EXCEPT ![b] = MIN_MBLOCK_SIZE]
           /\ Push(m, b, MIN_MBLOCK_SIZE) /\ Cut(m, b, 0, n)
      /\ UNCHANGED free_mblock_list

FromFreeListUnreset(m, nbytes) ==                                  \* mutant
  LET n == Rounded(nbytes)
      b == Head(free_mblock_list)
  IN  /\ ~Enough(m, n) /\ n <= MIN_MBLOCK_SIZE /\ free_mblock_list # <<>>
      /\ free_mblock_list' = Tail(free_mblock_list)
      /\ Push(m, b, block_size[b]) /\ Cut(m, b, offset[b], n)
      /\ UNCHANGED block_size
NewFromFreeList(m, nbytes) ==
  LET n == Rounded(nbytes)
      b == Head(free_mblock_list)
  IN  /\ ~Enough(m, n) /\ n <= MIN_MBLOCK_SIZE /\ free_mblock_list # <<>>
      /\ free_mblock_list' = Tail(free_mblock_list)
      /\ Push(m, b, block_size[b]) /\ Cut(m, b, 0, n)
      /\ UNCHANGED block_size

(* reuse_mblock(): the chain is walked from its first block, each small    *)
(* block becomes the first of the free list, the others are freed.  What   *)
(* comes to the free list is the small blocks of the chain s, last first.  *)
Small(s) == {b \in Among(s) : block_size[b] <= MIN_MBLOCK_SIZE}
LastFirst(t, s) ==
  \A i, j \in 1..Len(t) : i < j =>
    \E p, q \in 1..Len(s) : q < p /\ t[i] = s[p] /\ t[j] = s[q]
Kept(s) == {t \in UNION {[1..n -> Small(s)] : n \in 0..Len(s)} :
              Among(t) = Small(s) /\ LastFirst(t, s)}

(* reuse_mblock() but for the pool's own fields *)
Release(m) ==
  /\ chain[m] # <<>>
  /\ \E kept \in Kept(chain[m]) : free_mblock_list' = kept \o free_mblock_list
  /\ segments' = {s \in segments : s.pool # m}
  /\ UNCHANGED <<block_size, offset>>

ForgetsNothing(m) ==                                               \* mutant
  /\ Release(m)
  /\ UNCHANGED <<chain, allocated>>
ReuseMBlock(m) ==
  /\ Release(m)
  /\ chain' = [chain EXCEPT ![m] = <<>>]
  /\ allocated' = [allocated EXCEPT ![m] = 0]

(* free_global_mblock() *)
FreeGlobal ==
  /\ free_mblock_list # <<>>
  /\ free_mblock_list' = <<>>
  /\ UNCHANGED <<chain, allocated, block_size, offset, segments>>

Next ==
  \/ \E m \in Pools, nbytes \in Sizes :
       \/ NewSegment(m, nbytes) \/ NewLarge(m, nbytes)
       \/ NewFromHeap(m, nbytes) \/ NewFromFreeList(m, nbytes)
  \/ \E m \in Pools : ReuseMBlock(m)
  \/ FreeGlobal

Spec == Init /\ [][Next]_vars

-----------------------------------------------------------------------------
(* Type invariant; an empty pool counts nothing as allocated. *)
TypeOK ==
  /\ chain \in [Pools -> Seq(Blocks)]
  /\ allocated \in [Pools -> Nat]
  /\ \A m \in Pools : chain[m] = <<>> => allocated[m] = 0
  /\ free_mblock_list \in Seq(Blocks)
  /\ block_size \in [Blocks -> Nat] /\ offset \in [Blocks -> Nat]
  /\ segments \subseteq
       [pool: Pools, block: Blocks, from: Nat, to: Nat]

(* A block is in one place: in one pool, once, or on the free list, once,  *)
(* or with malloc().  reuse_mblock() and free_global_mblock() would free   *)
(* it twice otherwise, and two pools would write to it.                    *)
Distinct(s) == \A i, j \in 1..Len(s) : s[i] = s[j] => i = j
OneOwner ==
  /\ Distinct(free_mblock_list)
  /\ \A m \in Pools :
       /\ Distinct(chain[m])
       /\ Among(chain[m]) \cap Among(free_mblock_list) = {}
       /\ \A k \in Pools \ {m} : Among(chain[m]) \cap Among(chain[k]) = {}

(* Segments in use do not overlap, lie inside their block and are aligned, *)
(* whatever was allocated, reused and freed before; their block belongs to *)
(* the pool they were taken from.                                          *)
SegmentsApart ==
  \A s \in segments :
    /\ s.block \in Among(chain[s.pool])
    /\ s.to <= block_size[s.block] /\ s.from % ADDRALIGN = 0
    /\ \A t \in segments \ {s} :
         s.block = t.block => s.to <= t.from \/ t.to <= s.from
=============================================================================
