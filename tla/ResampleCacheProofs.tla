---------------------------- MODULE ResampleCacheProofs ----------------------------
(***************************************************************************)
(* Proofs about the pools of MBlock, for every number of pools and blocks, *)
(* every size of a block and of the segments, and every alignment; and     *)
(* about the cache of resampled sounds, which keeps its entries and copies *)
(* in one of them, for every song, every instrument, every size of the     *)
(* cache and every way in which the other pools are used.                  *)
(***************************************************************************)
EXTENDS ResampleCache, FiniteSetTheorems, WellFoundedInduction, TLAPS

-----------------------------------------------------------------------------
(* Numbers *)

(* A length rounded up is a multiple of the alignment, and long enough. *)
LEMMA RoundedAligned ==
  ASSUME NEW nbytes \in Nat, NEW x \in Nat, x % ADDRALIGN = 0
  PROVE  /\ Rounded(nbytes) \in Nat
         /\ (x + Rounded(nbytes)) % ADDRALIGN = 0
<1> DEFINE k == (nbytes + ADDRALIGN - 1) \div ADDRALIGN
           l == x \div ADDRALIGN
<1>1. k \in Nat /\ l \in Nat
  BY SizeAssumption, SMT
<1>2. x = l * ADDRALIGN
  BY SizeAssumption, SMT
<1>3. \A i \in Nat : (i * ADDRALIGN) % ADDRALIGN = 0
  BY SizeAssumption, SMT
<1>4. k * ADDRALIGN \in Nat /\ x + k * ADDRALIGN = (l + k) * ADDRALIGN
  BY <1>1, <1>2, SizeAssumption, SMT
<1>5. ((l + k) * ADDRALIGN) % ADDRALIGN = 0
  BY <1>1, <1>3
<1> QED
  BY <1>4, <1>5 DEF Rounded

LEMMA ZeroAligned == 0 % ADDRALIGN = 0
BY SizeAssumption, SMT

-----------------------------------------------------------------------------
(* Lists of blocks *)

LEMMA AmongPush ==
  ASSUME NEW s \in Seq(Blocks), NEW b \in Blocks
  PROVE  /\ <<b>> \o s \in Seq(Blocks)
         /\ Among(<<b>> \o s) = {b} \cup Among(s)
         /\ Distinct(s) /\ b \notin Among(s) => Distinct(<<b>> \o s)
<1> DEFINE t == <<b>> \o s
<1>1. t \in Seq(Blocks) /\ Len(t) = Len(s) + 1
  OBVIOUS
<1>2. t[1] = b /\ \A i \in 1..Len(s) : t[i + 1] = s[i]
  OBVIOUS
<1>3. \A i \in 1..Len(t) : i = 1 \/ (i - 1 \in 1..Len(s) /\ t[i] = s[i - 1])
  BY <1>1, <1>2
<1>4. Among(t) \subseteq {b} \cup Among(s)
  BY <1>2, <1>3 DEF Among
<1>5. {b} \cup Among(s) \subseteq Among(t)
  <2>1. b \in Among(t)
    BY <1>1, <1>2 DEF Among
  <2>2. \A i \in 1..Len(s) : i + 1 \in 1..Len(t) /\ s[i] = t[i + 1]
    BY <1>1, <1>2
  <2> QED
    BY <2>1, <2>2 DEF Among
<1>6. ASSUME Distinct(s), b \notin Among(s)
      PROVE  Distinct(t)
  BY <1>1, <1>2, <1>3, <1>6 DEF Distinct, Among
<1> QED
  BY <1>1, <1>4, <1>5, <1>6

LEMMA AmongTail ==
  ASSUME NEW s \in Seq(Blocks), s # <<>>, Distinct(s)
  PROVE  /\ Tail(s) \in Seq(Blocks) /\ Head(s) \in Among(s)
         /\ Among(Tail(s)) = Among(s) \ {Head(s)} /\ Distinct(Tail(s))
<1> DEFINE t == Tail(s)
<1>1. t \in Seq(Blocks) /\ Len(s) = Len(t) + 1 /\ Len(t) \in Nat
  OBVIOUS
<1>2. Head(s) = s[1] /\ \A i \in 1..Len(t) : t[i] = s[i + 1]
  OBVIOUS
<1>3. \A i \in 1..Len(t) : i + 1 \in 1..Len(s) /\ i + 1 # 1
  BY <1>1
<1>4. 1 \in 1..Len(s)
  BY <1>1
<1>5. Among(t) \subseteq Among(s) \ {Head(s)}
  BY <1>2, <1>3, <1>4 DEF Among, Distinct
<1>6. Among(s) \ {Head(s)} \subseteq Among(t)
  <2>1. \A i \in 1..Len(s) : i # 1 => i - 1 \in 1..Len(t) /\ t[i - 1] = s[i]
    BY <1>1, <1>2
  <2>2. SUFFICES ASSUME NEW x \in Among(s) \ {Head(s)}
                 PROVE  x \in Among(t)
    OBVIOUS
  <2>3. PICK i \in 1..Len(s) : x = s[i]
    BY DEF Among
  <2>4. i - 1 \in 1..Len(t) /\ t[i - 1] = x
    BY <1>2, <2>1, <2>2, <2>3
  <2> QED
    BY <2>4 DEF Among
<1>7. Distinct(t)
  BY <1>2, <1>3 DEF Distinct
<1> QED
  BY <1>1, <1>2, <1>4, <1>5, <1>6, <1>7 DEF Among

LEMMA AmongConcat ==
  ASSUME NEW s \in Seq(Blocks), NEW t \in Seq(Blocks)
  PROVE  /\ s \o t \in Seq(Blocks)
         /\ Among(s \o t) = Among(s) \cup Among(t)
         /\ (Distinct(s) /\ Distinct(t) /\ Among(s) \cap Among(t) = {})
              => Distinct(s \o t)
<1> DEFINE u == s \o t
<1>1. u \in Seq(Blocks) /\ Len(u) = Len(s) + Len(t)
  OBVIOUS
<1>2. /\ \A i \in 1..Len(s) : u[i] = s[i] /\ i \in 1..Len(u)
      /\ \A i \in 1..Len(t) : u[i + Len(s)] = t[i] /\ i + Len(s) \in 1..Len(u)
  BY <1>1
<1>3. \A i \in 1..Len(u) : \/ i \in 1..Len(s)
                           \/ i > Len(s) /\ i - Len(s) \in 1..Len(t)
  BY <1>1
<1>4. \A i \in 1..Len(u) : i > Len(s) => u[i] = t[i - Len(s)]
  BY <1>1
<1>5. Among(u) = Among(s) \cup Among(t)
  <2>1. Among(u) \subseteq Among(s) \cup Among(t)
    BY <1>2, <1>3, <1>4 DEF Among
  <2>2. Among(s) \cup Among(t) \subseteq Among(u)
    BY <1>2 DEF Among
  <2> QED
    BY <2>1, <2>2
<1>6. ASSUME Distinct(s), Distinct(t), Among(s) \cap Among(t) = {}
      PROVE  Distinct(u)
  <2>1. SUFFICES ASSUME NEW i \in 1..Len(u), NEW j \in 1..Len(u), u[i] = u[j]
                 PROVE  i = j
    BY DEF Distinct
  <2>2. CASE i \in 1..Len(s) /\ j \in 1..Len(s)
    BY <1>2, <1>6, <2>1, <2>2 DEF Distinct
  <2>3. CASE i > Len(s) /\ j > Len(s)
    <3>1. i - Len(s) = j - Len(s)
      BY <1>3, <1>4, <1>6, <2>1, <2>3 DEF Distinct
    <3> QED
      BY <3>1
  <2>4. ASSUME NEW k \in 1..Len(s), NEW l \in 1..Len(u), l > Len(s), u[k] = u[l]
        PROVE  FALSE
    <3>1. u[k] \in Among(s)
      BY <1>2 DEF Among
    <3>2. u[l] \in Among(t)
      BY <1>3, <1>4, <2>4 DEF Among
    <3> QED
      BY <1>6, <2>4, <3>1, <3>2
  <2> QED
    BY <1>3, <2>1, <2>2, <2>3, <2>4
<1> QED
  BY <1>1, <1>5, <1>6

(* What a chain without repetitions leaves to the free list has none. *)
LEMMA KeptDistinct ==
  ASSUME NEW s \in Seq(Blocks), Distinct(s), NEW t \in Kept(s)
  PROVE  t \in Seq(Blocks) /\ Among(t) \subseteq Among(s) /\ Distinct(t)
<1>1. PICK n \in 0..Len(s) : t \in [1..n -> Small(s)]
  BY DEF Kept
<1>2. Small(s) \subseteq Among(s) /\ Among(s) \subseteq Blocks
  BY DEF Small, Among
<1>3. t \in Seq(Blocks) /\ Len(t) = n
  BY <1>1, <1>2
<1>4. Among(t) \subseteq Among(s)
  BY <1>1, <1>2, <1>3 DEF Among
<1>5. Distinct(t)
  <2>1. LastFirst(t, s)
    BY DEF Kept
  <2>2. \A i, j \in 1..Len(t) : i < j => t[i] # t[j]
    BY <2>1 DEF LastFirst, Distinct
  <2>3. \A i, j \in 1..Len(t) : i < j \/ j < i \/ i = j
    BY <1>3
  <2> QED
    BY <2>2, <2>3 DEF Distinct
<1> QED
  BY <1>3, <1>4, <1>5

-----------------------------------------------------------------------------
(* Owners of blocks: OneOwner of the chains c and the free list f *)

Owned(c, f) ==
  /\ Distinct(f)
  /\ \A m \in Pools :
       /\ Distinct(c[m])
       /\ Among(c[m]) \cap Among(f) = {}
       /\ \A k \in Pools \ {m} : Among(c[m]) \cap Among(c[k]) = {}

Chains == [Pools -> Seq(Blocks)]

(* A block nobody has may become the first of a chain. *)
LEMMA OwnedPush ==
  ASSUME NEW c \in Chains, NEW f \in Seq(Blocks), Owned(c, f),
         NEW m \in Pools, NEW b \in Blocks,
         b \notin Among(f), \A k \in Pools : b \notin Among(c[k])
  PROVE  LET d == [c EXCEPT ![m] = <<b>> \o @]
         IN  /\ d \in Chains /\ Owned(d, f)
             /\ Among(d[m]) = {b} \cup Among(c[m])
             /\ \A k \in Pools : Among(c[k]) \subseteq Among(d[k])
<1> DEFINE d == [c EXCEPT ![m] = <<b>> \o @]
<1>1. c[m] \in Seq(Blocks)
  BY DEF Chains
<1>2. /\ <<b>> \o c[m] \in Seq(Blocks)
      /\ Among(<<b>> \o c[m]) = {b} \cup Among(c[m])
      /\ Distinct(<<b>> \o c[m])
  BY <1>1, AmongPush DEF Owned
<1>3. d \in Chains /\ d[m] = <<b>> \o c[m]
  BY <1>2 DEF Chains
<1>4. \A k \in Pools : k # m => d[k] = c[k]
  BY DEF Chains
<1>5. Owned(d, f)
  <2>1. ASSUME NEW k \in Pools
        PROVE  Distinct(d[k]) /\ Among(d[k]) \cap Among(f) = {}
    <3>1. CASE k = m
      BY <1>2, <1>3, <3>1 DEF Owned
    <3>2. CASE k # m
      BY <1>4, <3>2 DEF Owned
    <3> QED
      BY <3>1, <3>2
  <2>2. ASSUME NEW k \in Pools, NEW l \in Pools \ {k}
        PROVE  Among(d[k]) \cap Among(d[l]) = {}
    <3>1. Among(c[k]) \cap Among(c[l]) = {}
      BY DEF Owned
    <3>2. /\ k = m => Among(d[k]) = {b} \cup Among(c[k])
          /\ k # m => Among(d[k]) = Among(c[k])
          /\ l = m => Among(d[l]) = {b} \cup Among(c[l])
          /\ l # m => Among(d[l]) = Among(c[l])
      BY <1>2, <1>3, <1>4
    <3> QED
      BY <3>1, <3>2
  <2> QED
    BY <2>1, <2>2 DEF Owned
<1> QED
  BY <1>2, <1>3, <1>4, <1>5

(* The first block of the free list is nobody else's once it is taken. *)
LEMMA OwnedTake ==
  ASSUME NEW c \in Chains, NEW f \in Seq(Blocks), Owned(c, f), f # <<>>
  PROVE  /\ Tail(f) \in Seq(Blocks) /\ Head(f) \in Blocks
         /\ Owned(c, Tail(f)) /\ Head(f) \in Among(f)
         /\ Head(f) \notin Among(Tail(f))
         /\ \A k \in Pools : Head(f) \notin Among(c[k])
<1>1. Distinct(f)
  BY DEF Owned
<1>2. /\ Tail(f) \in Seq(Blocks) /\ Head(f) \in Among(f)
      /\ Among(Tail(f)) = Among(f) \ {Head(f)} /\ Distinct(Tail(f))
  BY <1>1, AmongTail
<1>3. Head(f) \in Blocks
  OBVIOUS
<1> QED
  BY <1>2, <1>3 DEF Owned

(* A chain may be given up, and any of its blocks put on the free list. *)
LEMMA OwnedRelease ==
  ASSUME NEW c \in Chains, NEW f \in Seq(Blocks), Owned(c, f),
         NEW m \in Pools, NEW t \in Kept(c[m])
  PROVE  LET d == [c EXCEPT ![m] = <<>>]
         IN  d \in Chains /\ t \o f \in Seq(Blocks) /\ Owned(d, t \o f)
<1> DEFINE d == [c EXCEPT ![m] = <<>>]
<1>1. c[m] \in Seq(Blocks) /\ Distinct(c[m])
  BY DEF Chains, Owned
<1>2. t \in Seq(Blocks) /\ Among(t) \subseteq Among(c[m]) /\ Distinct(t)
  BY <1>1, KeptDistinct
<1>3. /\ t \o f \in Seq(Blocks) /\ Among(t \o f) = Among(t) \cup Among(f)
      /\ Distinct(t \o f)
  BY <1>2, AmongConcat DEF Owned
<1>4. d \in Chains /\ d[m] = <<>>
  BY DEF Chains
<1>5. \A k \in Pools : k # m => d[k] = c[k]
  BY DEF Chains
<1>6. Among(<<>>) = {} /\ Distinct(<<>>)
  BY DEF Among, Distinct
<1>7. Owned(d, t \o f)
  <2>1. ASSUME NEW k \in Pools
        PROVE  Distinct(d[k]) /\ Among(d[k]) \cap Among(t \o f) = {}
    <3>1. CASE k = m
      BY <1>4, <1>6, <3>1
    <3>2. CASE k # m
      BY <1>2, <1>3, <1>5, <3>2 DEF Owned
    <3> QED
      BY <3>1, <3>2
  <2>2. ASSUME NEW k \in Pools, NEW l \in Pools \ {k}
        PROVE  Among(d[k]) \cap Among(d[l]) = {}
    BY <1>4, <1>5, <1>6 DEF Owned
  <2> QED
    BY <1>3, <2>1, <2>2 DEF Owned
<1> QED
  BY <1>3, <1>4, <1>7

-----------------------------------------------------------------------------
(* The inductive invariant: no block is smaller than the least size, the   *)
(* free part of a block is aligned and lies after its segments.            *)

BlocksLarge ==
  \A b \in Blocks : block_size[b] >= MIN_MBLOCK_SIZE /\ offset[b] % ADDRALIGN = 0
SegmentsBelow == \A s \in segments : s.to <= offset[s.block]

Inductive ==
  /\ TypeOK /\ OneOwner /\ SegmentsApart
  /\ BlocksLarge /\ SegmentsBelow

(* A segment cut from block b of pool m at `from` lies apart from those in *)
(* use if none of them reaches beyond `from`, and b has room for it.       *)
LEMMA CutApart ==
  ASSUME Inductive,
         NEW m \in Pools, NEW b \in Blocks, NEW from \in Nat, NEW n \in Nat,
         Cut(m, b, from, n),
         from % ADDRALIGN = 0, (from + n) % ADDRALIGN = 0,
         \A s \in segments : s.block = b => s.to <= from,
         \A k \in Pools : Among(chain[k]) \subseteq Among(chain'[k]),
         b \in Among(chain'[m]),
         block_size' \in [Blocks -> Nat],
         from + n <= block_size'[b], block_size'[b] >= MIN_MBLOCK_SIZE,
         \/ block_size' = block_size
         \/ /\ \A s \in segments : s.block # b
            /\ \A c \in Blocks \ {b} : block_size'[c] = block_size[c]
  PROVE  /\ offset' \in [Blocks -> Nat]
         /\ segments' \subseteq
              [pool: Pools, block: Blocks, from: Nat, to: Nat]
         /\ SegmentsApart' /\ BlocksLarge' /\ SegmentsBelow'
<1> DEFINE new == [pool |-> m, block |-> b, from |-> from, to |-> from + n]
           Segments == [pool: Pools, block: Blocks, from: Nat, to: Nat]
<1>1. /\ offset \in [Blocks -> Nat] /\ block_size \in [Blocks -> Nat]
      /\ segments \subseteq Segments
  BY DEF Inductive, TypeOK
<1>2. /\ segments' = segments \cup {new} /\ new \in Segments
      /\ offset' = [offset EXCEPT ![b] = from + n]
  BY DEF Cut
<1>3. /\ new.pool = m /\ new.block = b
      /\ new.from = from /\ new.to = from + n
  OBVIOUS
<1>4. /\ offset' \in [Blocks -> Nat]
      /\ offset'[b] = from + n
      /\ \A c \in Blocks \ {b} : offset'[c] = offset[c]
  BY <1>1, <1>2
<1>5. segments' \subseteq Segments
  BY <1>1, <1>2
<1>6. SegmentsBelow'
  <2>1. ASSUME NEW s \in segments
        PROVE  s.to <= offset'[s.block]
    <3>1. s \in Segments /\ s.block \in Blocks /\ s.to \in Nat
      BY <1>1
    <3>2. CASE s.block = b
      BY <1>4, <3>1, <3>2
    <3>3. CASE s.block # b
      BY <1>4, <3>1, <3>3 DEF Inductive, SegmentsBelow
    <3> QED
      BY <3>2, <3>3
  <2>2. new.to <= offset'[new.block]
    BY <1>3, <1>4
  <2> QED
    BY <1>2, <2>1, <2>2 DEF SegmentsBelow
<1>7. BlocksLarge'
  BY <1>4 DEF Inductive, BlocksLarge
<1>8. SegmentsApart'
  <2>1. ASSUME NEW s \in segments
        PROVE  /\ s.block \in Among(chain'[s.pool])
               /\ s.to <= block_size'[s.block] /\ s.from % ADDRALIGN = 0
    <3>1. s \in Segments /\ s.block \in Blocks /\ s.pool \in Pools
      BY <1>1
    <3>2. /\ s.block \in Among(chain[s.pool])
          /\ s.to <= block_size[s.block] /\ s.from % ADDRALIGN = 0
      BY DEF Inductive, SegmentsApart
    <3>3. block_size'[s.block] = block_size[s.block]
      BY <3>1
    <3> QED
      BY <3>1, <3>2, <3>3
  <2>2. /\ new.block \in Among(chain'[new.pool])
        /\ new.to <= block_size'[new.block] /\ new.from % ADDRALIGN = 0
    BY <1>3
  <2>3. ASSUME NEW s \in segments, NEW t \in segments \ {s},
               s.block = t.block
        PROVE  s.to <= t.from \/ t.to <= s.from
    BY <2>3 DEF Inductive, SegmentsApart
  <2>4. \A s \in segments : s.block = new.block => s.to <= new.from
    BY <1>3
  <2> QED
    BY <1>2, <2>1, <2>2, <2>3, <2>4 DEF SegmentsApart
<1> QED
  BY <1>4, <1>5, <1>6, <1>7, <1>8

(* A block taken into use by pool m, from malloc() or the free list, with  *)
(* the first n of its bytes as a segment; f is the free list then.         *)
LEMMA TakeBlock ==
  ASSUME Inductive,
         NEW m \in Pools, NEW b \in Blocks, NEW n \in Nat, n % ADDRALIGN = 0,
         NEW f \in Seq(Blocks), Owned(chain, f),
         b \notin Among(f), \A k \in Pools : b \notin Among(chain[k]),
         free_mblock_list' = f,
         NEW size \in Nat, size >= MIN_MBLOCK_SIZE, n <= size,
         Push(m, b, size), Cut(m, b, 0, n),
         block_size' = [block_size EXCEPT ![b] = size]
  PROVE  Inductive'
<1>1. /\ chain \in Chains /\ allocated \in [Pools -> Nat]
      /\ block_size \in [Blocks -> Nat]
      /\ segments \subseteq [pool: Pools, block: Blocks, from: Nat, to: Nat]
      /\ \A k \in Pools : chain[k] = <<>> => allocated[k] = 0
  BY DEF Inductive, TypeOK, Chains
<1>2. /\ chain' = [chain EXCEPT ![m] = <<b>> \o @]
      /\ allocated' = [allocated EXCEPT ![m] = @ + size]
  BY DEF Push
<1>3. /\ chain' \in Chains /\ Owned(chain', f)
      /\ Among(chain'[m]) = {b} \cup Among(chain[m])
      /\ \A k \in Pools : Among(chain[k]) \subseteq Among(chain'[k])
  <2>1. LET d == [chain EXCEPT ![m] = <<b>> \o @]
        IN  /\ d \in Chains /\ Owned(d, f)
            /\ Among(d[m]) = {b} \cup Among(chain[m])
            /\ \A k \in Pools : Among(chain[k]) \subseteq Among(d[k])
    BY <1>1, OwnedPush
  <2> QED
    BY <1>2, <2>1
<1>4. /\ block_size' \in [Blocks -> Nat] /\ block_size'[b] = size
      /\ \A c \in Blocks \ {b} : block_size'[c] = block_size[c]
  BY <1>1
<1>5. \A s \in segments : s.block # b
  <2>1. \A s \in segments : s.pool \in Pools
    BY <1>1
  <2> QED
    BY <2>1 DEF Inductive, SegmentsApart
<1>6. 0 % ADDRALIGN = 0 /\ 0 + n = n
  BY ZeroAligned
<1>7. /\ offset' \in [Blocks -> Nat]
      /\ segments' \subseteq
           [pool: Pools, block: Blocks, from: Nat, to: Nat]
      /\ SegmentsApart' /\ BlocksLarge' /\ SegmentsBelow'
  <2>1. b \in Among(chain'[m])
    BY <1>3
  <2>2. \A s \in segments : s.block = b => s.to <= 0
    BY <1>5
  <2>3. 0 + n <= block_size'[b] /\ block_size'[b] >= MIN_MBLOCK_SIZE
    BY <1>4, <1>6
  <2>4. (0 + n) % ADDRALIGN = 0 /\ 0 \in Nat
    BY <1>6
  <2>5. \/ block_size' = block_size
        \/ /\ \A s \in segments : s.block # b
           /\ \A c \in Blocks \ {b} : block_size'[c] = block_size[c]
    BY <1>4, <1>5
  <2>6. \A k \in Pools : Among(chain[k]) \subseteq Among(chain'[k])
    BY <1>3
  <2>7. block_size' \in [Blocks -> Nat]
    BY <1>4
  <2> QED
    BY <1>6, <2>1, <2>2, <2>3, <2>4, <2>5, <2>6, <2>7, CutApart
<1>8. TypeOK'
  <2>1. allocated' \in [Pools -> Nat]
    BY <1>1, <1>2
  <2>2. \A k \in Pools : chain'[k] = <<>> => allocated'[k] = 0
    <3>1. chain'[m] # <<>>
      <4>1. Among(<<>>) = {}
        BY DEF Among
      <4>2. b \in Among(chain'[m])
        BY <1>3
      <4> QED
        BY <4>1, <4>2
    <3>2. \A k \in Pools : k # m => /\ chain'[k] = chain[k]
                                    /\ allocated'[k] = allocated[k]
      BY <1>1, <1>2 DEF Chains
    <3> QED
      BY <1>1, <3>1, <3>2
  <2> QED
    BY <1>3, <1>4, <1>7, <2>1, <2>2 DEF TypeOK, Chains
<1>9. OneOwner'
  BY <1>3 DEF Owned, OneOwner
<1> QED
  BY <1>7, <1>8, <1>9 DEF Inductive

(* Every length is rounded to a number of aligned bytes. *)
LEMMA RoundedSizes ==
  ASSUME NEW nbytes \in Nat
  PROVE  Rounded(nbytes) \in Nat /\ Rounded(nbytes) % ADDRALIGN = 0
<1>1. nbytes \in Nat /\ 0 \in Nat
  BY SizeAssumption
<1>2. Rounded(nbytes) \in Nat /\ (0 + Rounded(nbytes)) % ADDRALIGN = 0
  BY <1>1, ZeroAligned, RoundedAligned
<1> QED
  BY <1>2

LEMMA InitInductive == Init => Inductive
<1> SUFFICES ASSUME Init PROVE Inductive
  OBVIOUS
<1>1. Among(<<>>) = {} /\ Distinct(<<>>) /\ <<>> \in Seq(Blocks)
  BY DEF Among, Distinct
<1>2. \A m \in Pools : chain[m] = <<>>
  BY DEF Init
<1>3. free_mblock_list = <<>> /\ segments = {}
  BY DEF Init
<1>4. TypeOK
  BY <1>1, <1>3, SizeAssumption DEF Init, TypeOK
<1>5. OneOwner
  BY <1>1, <1>2, <1>3 DEF OneOwner
<1>6. SegmentsApart /\ SegmentsBelow
  BY <1>3 DEF SegmentsApart, SegmentsBelow
<1>7. BlocksLarge
  <2>1. \A b \in Blocks : block_size[b] = MIN_MBLOCK_SIZE /\ offset[b] = 0
    BY DEF Init
  <2>2. MIN_MBLOCK_SIZE \in Nat
    BY SizeAssumption
  <2> QED
    BY <2>1, <2>2, ZeroAligned DEF BlocksLarge
<1> QED
  BY <1>4, <1>5, <1>6, <1>7 DEF Inductive

-----------------------------------------------------------------------------
(* One lemma for each action *)

LEMMA NewSegmentStep ==
  ASSUME Inductive, NEW m \in Pools, NEW nbytes \in Nat,
         NewSegment(m, nbytes)
  PROVE  Inductive'
<1>1. /\ chain[m] # <<>> /\ Enough(m, Rounded(nbytes))
      /\ Cut(m, Head(chain[m]), offset[Head(chain[m])], Rounded(nbytes))
      /\ UNCHANGED <<chain, allocated, free_mblock_list, block_size>>
  BY DEF NewSegment, Enough
<1>2. PICK b \in Blocks : b = Head(chain[m]) /\ b \in Among(chain[m])
  <2>1. chain[m] \in Seq(Blocks) /\ Distinct(chain[m])
    BY DEF Inductive, TypeOK, OneOwner
  <2>2. Head(chain[m]) \in Among(chain[m])
    BY <1>1, <2>1, AmongTail
  <2> QED
    BY <1>1, <2>1, <2>2
<1>3. PICK n \in Nat : n = Rounded(nbytes)
  BY RoundedSizes
<1>4. PICK from \in Nat : from = offset[b]
  BY DEF Inductive, TypeOK
<1>5. /\ Cut(m, b, from, n) /\ from + n <= block_size[b]
  BY <1>1, <1>2, <1>3, <1>4 DEF Enough
<1>6. from % ADDRALIGN = 0 /\ (from + n) % ADDRALIGN = 0
  <2>1. from % ADDRALIGN = 0
    BY <1>4 DEF Inductive, BlocksLarge
  <2>2. nbytes \in Nat
    BY SizeAssumption
  <2> QED
    BY <1>3, <2>1, <2>2, RoundedAligned
<1>7. \A s \in segments : s.block = b => s.to <= from
  BY <1>4 DEF Inductive, SegmentsBelow
<1>8. /\ offset' \in [Blocks -> Nat]
      /\ segments' \subseteq
           [pool: Pools, block: Blocks, from: Nat, to: Nat]
      /\ SegmentsApart' /\ BlocksLarge' /\ SegmentsBelow'
  <2>1. /\ b \in Among(chain'[m])
        /\ \A k \in Pools : Among(chain[k]) \subseteq Among(chain'[k])
    BY <1>1, <1>2
  <2>2. /\ block_size' = block_size
        /\ block_size' \in [Blocks -> Nat]
        /\ block_size'[b] >= MIN_MBLOCK_SIZE
    BY <1>1 DEF Inductive, TypeOK, BlocksLarge
  <2>3. from + n <= block_size'[b]
    BY <1>5, <2>2
  <2> QED
    BY <1>5, <1>6, <1>7, <2>1, <2>2, <2>3, CutApart
<1>9. TypeOK'
  BY <1>1, <1>8 DEF Inductive, TypeOK
<1>10. OneOwner'
  BY <1>1 DEF Inductive, OneOwner
<1> QED
  BY <1>8, <1>9, <1>10 DEF Inductive

(* malloc() returns a block nobody has. *)
LEMMA Unowned ==
  ASSUME Inductive, NEW b \in Blocks \ InUse
  PROVE  /\ Owned(chain, free_mblock_list) /\ free_mblock_list \in Seq(Blocks)
         /\ b \notin Among(free_mblock_list)
         /\ \A k \in Pools : b \notin Among(chain[k])
BY DEF Inductive, TypeOK, OneOwner, Owned, InUse

LEMMA NewLargeStep ==
  ASSUME Inductive, NEW m \in Pools, NEW nbytes \in Nat,
         NewLarge(m, nbytes)
  PROVE  Inductive'
<1> DEFINE n == Rounded(nbytes)
<1>1. /\ n > MIN_MBLOCK_SIZE
      /\ free_mblock_list' = free_mblock_list
  BY DEF NewLarge
<1>2. PICK b \in Blocks \ InUse :
        /\ block_size' = [block_size EXCEPT ![b] = n]
        /\ Push(m, b, n) /\ Cut(m, b, 0, n)
  BY DEF NewLarge
<1>3. n \in Nat /\ n % ADDRALIGN = 0 /\ MIN_MBLOCK_SIZE \in Nat
  BY RoundedSizes, SizeAssumption
<1>4. n >= MIN_MBLOCK_SIZE /\ n <= n
  BY <1>1, <1>3
<1> QED
  BY <1>1, <1>2, <1>3, <1>4, Unowned, TakeBlock

LEMMA NewFromHeapStep ==
  ASSUME Inductive, NEW m \in Pools, NEW nbytes \in Nat,
         NewFromHeap(m, nbytes)
  PROVE  Inductive'
<1> DEFINE n == Rounded(nbytes)
<1>1. /\ n <= MIN_MBLOCK_SIZE
      /\ free_mblock_list' = free_mblock_list
  BY DEF NewFromHeap
<1>2. PICK b \in Blocks \ InUse :
        /\ block_size' = [block_size EXCEPT ![b] = MIN_MBLOCK_SIZE]
        /\ Push(m, b, MIN_MBLOCK_SIZE) /\ Cut(m, b, 0, n)
  BY DEF NewFromHeap
<1>3. /\ n \in Nat /\ n % ADDRALIGN = 0 /\ MIN_MBLOCK_SIZE \in Nat
      /\ MIN_MBLOCK_SIZE >= MIN_MBLOCK_SIZE
  BY RoundedSizes, SizeAssumption
<1> QED
  BY <1>1, <1>2, <1>3, Unowned, TakeBlock

LEMMA NewFromFreeListStep ==
  ASSUME Inductive, NEW m \in Pools, NEW nbytes \in Nat,
         NewFromFreeList(m, nbytes)
  PROVE  Inductive'
<1> DEFINE n == Rounded(nbytes)
           b == Head(free_mblock_list)
<1>1. /\ n <= MIN_MBLOCK_SIZE /\ free_mblock_list # <<>>
      /\ free_mblock_list' = Tail(free_mblock_list)
      /\ Push(m, b, block_size[b]) /\ Cut(m, b, 0, n)
      /\ block_size' = block_size
  BY DEF NewFromFreeList
<1>2. /\ chain \in Chains /\ free_mblock_list \in Seq(Blocks)
      /\ Owned(chain, free_mblock_list) /\ block_size \in [Blocks -> Nat]
  BY DEF Inductive, TypeOK, OneOwner, Owned, Chains
<1>3. /\ Tail(free_mblock_list) \in Seq(Blocks) /\ b \in Blocks
      /\ Owned(chain, Tail(free_mblock_list))
      /\ b \notin Among(Tail(free_mblock_list))
      /\ \A k \in Pools : b \notin Among(chain[k])
  BY <1>1, <1>2, OwnedTake
<1>4. n \in Nat /\ n % ADDRALIGN = 0 /\ MIN_MBLOCK_SIZE \in Nat
  BY RoundedSizes, SizeAssumption
<1>5. /\ block_size[b] \in Nat /\ block_size[b] >= MIN_MBLOCK_SIZE
      /\ n <= block_size[b]
  <2>1. block_size[b] \in Nat
    BY <1>2, <1>3
  <2>2. block_size[b] >= MIN_MBLOCK_SIZE
    BY <1>3 DEF Inductive, BlocksLarge
  <2> QED
    BY <1>1, <1>4, <2>1, <2>2
<1>6. block_size' = [block_size EXCEPT ![b] = block_size[b]]
  BY <1>1, <1>2, <1>3
<1> QED
  BY <1>1, <1>3, <1>4, <1>5, <1>6, TakeBlock

LEMMA ReuseMBlockStep ==
  ASSUME Inductive, NEW m \in Pools, ReuseMBlock(m)
  PROVE  Inductive'
<1>1. PICK kept \in Kept(chain[m]) :
        free_mblock_list' = kept \o free_mblock_list
  BY DEF ReuseMBlock, Release
<1>2. /\ segments' = {s \in segments : s.pool # m}
      /\ block_size' = block_size /\ offset' = offset
      /\ chain' = [chain EXCEPT ![m] = <<>>]
      /\ allocated' = [allocated EXCEPT ![m] = 0]
  BY DEF ReuseMBlock, Release
<1>3. /\ chain \in Chains /\ free_mblock_list \in Seq(Blocks)
      /\ Owned(chain, free_mblock_list)
      /\ segments \subseteq [pool: Pools, block: Blocks, from: Nat, to: Nat]
  BY DEF Inductive, TypeOK, OneOwner, Owned, Chains
<1>4. /\ chain' \in Chains /\ free_mblock_list' \in Seq(Blocks)
      /\ Owned(chain', free_mblock_list')
  BY <1>1, <1>2, <1>3, OwnedRelease
<1>5. \A k \in Pools : k # m => /\ chain'[k] = chain[k]
                                /\ allocated'[k] = allocated[k]
  BY <1>2, <1>3 DEF Chains, Inductive, TypeOK
<1>6. TypeOK'
  <2>1. allocated' \in [Pools -> Nat] /\ allocated'[m] = 0
    BY <1>2 DEF Inductive, TypeOK
  <2>2. \A k \in Pools : chain'[k] = <<>> => allocated'[k] = 0
    BY <1>5, <2>1 DEF Inductive, TypeOK
  <2> QED
    BY <1>2, <1>3, <1>4, <2>1, <2>2 DEF Inductive, TypeOK, Chains
<1>7. OneOwner'
  BY <1>4 DEF Owned, OneOwner
<1>8. SegmentsApart'
  <2>1. \A s \in segments' : s \in segments /\ s.pool \in Pools /\ s.pool # m
    BY <1>2, <1>3
  <2>2. \A s \in segments' : s.block \in Among(chain'[s.pool])
    BY <1>5, <2>1 DEF Inductive, SegmentsApart
  <2> QED
    BY <1>2, <2>1, <2>2 DEF Inductive, SegmentsApart
<1>9. BlocksLarge' /\ SegmentsBelow'
  BY <1>2 DEF Inductive, BlocksLarge, SegmentsBelow
<1> QED
  BY <1>6, <1>7, <1>8, <1>9 DEF Inductive

LEMMA FreeGlobalStep ==
  ASSUME Inductive, FreeGlobal
  PROVE  Inductive'
<1>1. /\ free_mblock_list' = <<>>
      /\ UNCHANGED <<chain, allocated, block_size, offset, segments>>
  BY DEF FreeGlobal
<1>2. Among(<<>>) = {} /\ Distinct(<<>>) /\ <<>> \in Seq(Blocks)
  BY DEF Among, Distinct
<1>3. TypeOK'
  BY <1>1, <1>2 DEF Inductive, TypeOK
<1>4. OneOwner'
  BY <1>1, <1>2 DEF Inductive, OneOwner
<1>5. SegmentsApart' /\ BlocksLarge' /\ SegmentsBelow'
  BY <1>1 DEF Inductive, SegmentsApart, BlocksLarge, SegmentsBelow
<1> QED
  BY <1>3, <1>4, <1>5 DEF Inductive

LEMMA StutterStep ==
  ASSUME Inductive, UNCHANGED vars
  PROVE  Inductive'
<1>1. UNCHANGED <<chain, allocated, free_mblock_list, block_size, offset,
                  segments>>
  BY DEF vars
<1> QED
  BY <1>1 DEF Inductive, TypeOK, OneOwner, SegmentsApart, BlocksLarge,
              SegmentsBelow

-----------------------------------------------------------------------------
(* The invariant holds in every state of new_segment(), reuse_mblock() and *)
(* free_global_mblock() in any order.                                      *)
THEOREM InductiveInvariant == Spec => []Inductive
<1>1. Inductive /\ [Next]_vars => Inductive'
  <2> SUFFICES ASSUME Inductive, [Next]_vars PROVE Inductive'
    OBVIOUS
  <2>1. ASSUME NEW m \in Pools, NEW nbytes \in Nat, NewSegment(m, nbytes)
        PROVE  Inductive'
    BY <2>1, NewSegmentStep
  <2>2. ASSUME NEW m \in Pools, NEW nbytes \in Nat, NewLarge(m, nbytes)
        PROVE  Inductive'
    BY <2>2, NewLargeStep
  <2>3. ASSUME NEW m \in Pools, NEW nbytes \in Nat, NewFromHeap(m, nbytes)
        PROVE  Inductive'
    BY <2>3, NewFromHeapStep
  <2>4. ASSUME NEW m \in Pools, NEW nbytes \in Nat,
               NewFromFreeList(m, nbytes)
        PROVE  Inductive'
    BY <2>4, NewFromFreeListStep
  <2>5. ASSUME NEW m \in Pools, ReuseMBlock(m)
        PROVE  Inductive'
    BY <2>5, ReuseMBlockStep
  <2>6. CASE FreeGlobal
    BY <2>6, FreeGlobalStep
  <2>7. CASE UNCHANGED vars
    BY <2>7, StutterStep
  <2> QED
    BY <2>1, <2>2, <2>3, <2>4, <2>5, <2>6, <2>7, SizeAssumption DEF Next
<1> QED
  BY InitInductive, <1>1, PTL DEF Spec

(* The lists of blocks hold blocks, sizes and offsets are lengths, and an  *)
(* empty pool counts nothing as allocated.                                 *)
THEOREM TypeCorrect == Spec => []TypeOK
<1>1. Inductive => TypeOK
  BY DEF Inductive
<1> QED
  BY InductiveInvariant, <1>1, PTL

(* reuse_mblock() and free_global_mblock() free no block twice, and no two *)
(* pools write to one block, however blocks wander over the free list.     *)
THEOREM BlocksOwnedOnce == Spec => []OneOwner
<1>1. Inductive => OneOwner
  BY DEF Inductive
<1> QED
  BY InductiveInvariant, <1>1, PTL

(* new_segment() returns aligned memory inside a block of the pool it was  *)
(* asked for, apart from every segment that is still in use.               *)
THEOREM SegmentsNeverOverlap == Spec => []SegmentsApart
<1>1. Inductive => SegmentsApart
  BY DEF Inductive
<1> QED
  BY InductiveInvariant, <1>1, PTL

-----------------------------------------------------------------------------
(* Segments for the cache *)

(* new_segment() takes nothing away; what it adds is of the pool it was    *)
(* asked for, and is new unless nothing was asked for.                     *)
LEMMA SegmentAdded ==
  ASSUME Inductive, NEW m \in Pools, NEW b \in Blocks, NEW from \in Nat, NEW n \in Nat,
         Cut(m, b, from, n), \A s \in segments : s.block = b => s.to <= from
  PROVE  /\ segments \subseteq segments'
         /\ \A s \in segments' \ segments : s.pool = m
         /\ n > 0 => \E s \in segments' : s \notin segments
<1> DEFINE new == [pool |-> m, block |-> b, from |-> from, to |-> from + n]
<1>1. segments' = segments \cup {new}
  BY DEF Cut
<1>2. new.pool = m /\ new.block = b /\ new.to = from + n
  OBVIOUS
<1>3. n > 0 => new \notin segments
  <2>1. n > 0 => ~(from + n <= from)
    OBVIOUS
  <2> QED
    BY <1>2, <2>1
<1> HIDE DEF new
<1> QED
  BY <1>1, <1>2, <1>3

LEMMA NoSegmentIn ==
  ASSUME Inductive, NEW b \in Blocks, \A k \in Pools : b \notin Among(chain[k])
  PROVE  \A s \in segments : s.block # b
<1>1. \A s \in segments : s.pool \in Pools
  BY DEF Inductive, TypeOK
<1> QED
  BY <1>1 DEF Inductive, SegmentsApart

LEMMA RoundedPositive ==
  ASSUME NEW nbytes \in Nat \ {0}
  PROVE  Rounded(nbytes) > 0
<1> DEFINE k == (nbytes + ADDRALIGN - 1) \div ADDRALIGN
<1>1. k \in Nat /\ k > 0
  BY SizeAssumption, SMT
<1>2. \A i \in Nat \ {0} : i * ADDRALIGN > 0
  BY SizeAssumption, SMT
<1> HIDE DEF k
<1>3. k * ADDRALIGN > 0
  BY <1>1, <1>2
<1> QED
  BY <1>3 DEF Rounded, k

LEMMA SegmentTaken ==
  ASSUME Inductive, NEW m \in Pools, NEW nbytes \in Nat, NewSegmentIn(m, nbytes)
  PROVE  /\ Inductive'
         /\ segments \subseteq segments'
         /\ \A s \in segments' \ segments : s.pool = m
         /\ nbytes # 0 => NewOne \in segments' /\ NewOne \notin segments
<1>1. Inductive'
  <2>1. CASE NewSegment(m, nbytes)
    BY <2>1, NewSegmentStep
  <2>2. CASE NewLarge(m, nbytes)
    BY <2>2, NewLargeStep
  <2>3. CASE NewFromHeap(m, nbytes)
    BY <2>3, NewFromHeapStep
  <2>4. CASE NewFromFreeList(m, nbytes)
    BY <2>4, NewFromFreeListStep
  <2> QED
    BY <2>1, <2>2, <2>3, <2>4 DEF NewSegmentIn
<1>2. PICK n \in Nat : n = Rounded(nbytes)
  BY RoundedSizes
<1>3. PICK b \in Blocks, from \in Nat :
        Cut(m, b, from, n) /\ \A s \in segments : s.block = b => s.to <= from
  <2>1. ASSUME NEW b \in Blocks \ InUse, Cut(m, b, 0, n)
        PROVE  \E c \in Blocks, from \in Nat :
                 Cut(m, c, from, n) /\ \A s \in segments : s.block = c => s.to <= from
    <3>1. \A s \in segments : s.block # b
      BY Unowned, NoSegmentIn
    <3> QED
      BY <2>1, <3>1
  <2>2. CASE NewSegment(m, nbytes)
    <3> DEFINE b == Head(chain[m])
    <3>1. chain[m] # <<>> /\ Cut(m, b, offset[b], n)
      BY <1>2, <2>2 DEF NewSegment, Enough
    <3>2. b \in Blocks /\ offset[b] \in Nat
      BY <3>1 DEF Inductive, TypeOK
    <3>3. \A s \in segments : s.block = b => s.to <= offset[b]
      BY DEF Inductive, SegmentsBelow
    <3> HIDE DEF b
    <3> QED
      BY <3>1, <3>2, <3>3
  <2>3. CASE NewLarge(m, nbytes)
    BY <1>2, <2>1, <2>3 DEF NewLarge
  <2>4. CASE NewFromHeap(m, nbytes)
    BY <1>2, <2>1, <2>4 DEF NewFromHeap
  <2>5. CASE NewFromFreeList(m, nbytes)
    <3> DEFINE b == Head(free_mblock_list)
    <3>1. free_mblock_list # <<>> /\ Cut(m, b, 0, n)
      BY <1>2, <2>5 DEF NewFromFreeList
    <3>2. chain \in Chains /\ free_mblock_list \in Seq(Blocks) /\ Owned(chain, free_mblock_list)
      BY DEF Inductive, TypeOK, OneOwner, Owned, Chains
    <3>3. b \in Blocks /\ \A k \in Pools : b \notin Among(chain[k])
      BY <3>1, <3>2, OwnedTake
    <3>4. \A s \in segments : s.block # b
      BY <3>3, NoSegmentIn
    <3> HIDE DEF b
    <3> QED
      BY <3>1, <3>3, <3>4
  <2> QED
    BY <2>2, <2>3, <2>4, <2>5 DEF NewSegmentIn
<1>4. /\ segments \subseteq segments'
      /\ \A s \in segments' \ segments : s.pool = m
      /\ n > 0 => \E s \in segments' : s \notin segments
  BY <1>3, SegmentAdded
<1>5. nbytes # 0 => n > 0
  BY <1>2, RoundedPositive
<1>6. nbytes # 0 => NewOne \in segments' /\ NewOne \notin segments
  BY <1>4, <1>5 DEF NewOne
<1> QED
  BY <1>1, <1>4, <1>6

-----------------------------------------------------------------------------
(* The inductive invariant of the cache, on its tables and the segments S: *)
(* an entry and the copy it has are segments of the pool; a note that is   *)
(* on has its entry in the table, and only the prescan has notes on; what  *)
(* a voice plays are segments of the pool.                                 *)

Held(s, S) == s \in S /\ s.pool = hash_entry_pool
Entry(e, S) ==
  /\ e = [at |-> e.at, cnt |-> e.cnt, resampled |-> e.resampled]
  /\ Held(e.at, S)
  /\ e.resampled # None => Held(e.resampled.at, S)
Table(t, S) ==
  /\ IsFiniteSet(DOMAIN t) /\ t = [k \in DOMAIN t |-> t[k]]
  /\ \A k \in DOMAIN t : Entry(t[k], S)
NotesOn(f, ph, D) ==
  /\ DOMAIN f = Channels /\ f = [c \in Channels |-> f[c]]
  /\ \A c \in Channels : DOMAIN f[c] = Notes /\ f[c] = [n \in Notes |-> f[c][n]]
  /\ \A c \in Channels, n \in Notes : f[c][n] # Off => ph = "prescan" /\ f[c][n].key \in D
Voice(x, S) ==
  /\ x = [on |-> x.on, cache |-> x.cache, sample |-> x.sample, special |-> x.special]
  /\ x.on =>
       /\ x.cache # None /\ ~x.special => Held(x.cache, S)
       /\ x.sample # None => Held(x.sample.at, S)
Playing(w, S) ==
  /\ w = [v \in Voices |-> w[v]]
  /\ \A v \in Voices : Voice(w[v], S)

Grounded ==
  /\ Inductive
  /\ Table(cache_hash_table, segments)
  /\ NotesOn(channel_note_table, phase, DOMAIN cache_hash_table)
  /\ Playing(voice, segments)
  /\ refer # <<>> => phase = "prescan"

LEMMA GroundedReachable == Grounded => Reachable
BY DEF Grounded, Reachable, Live, Held, Table, Entry, NotesOn, Playing, Voice

LEMMA TableGrows ==
  ASSUME NEW t, NEW S, NEW T, Table(t, S), S \subseteq T
  PROVE  Table(t, T)
BY DEF Table, Entry, Held

LEMMA PlayingGrows ==
  ASSUME NEW w, NEW S, NEW T, Playing(w, S), S \subseteq T
  PROVE  Playing(w, T)
BY DEF Playing, Voice, Held

(* An entry may be counted, *)
LEMMA EntryCounted ==
  ASSUME NEW e, NEW S, NEW n, Entry(e, S)
  PROVE  /\ Entry([e EXCEPT !.cnt = n], S)
         /\ [e EXCEPT !.cnt = n].resampled = e.resampled
<1>1. e = [at |-> e.at, cnt |-> e.cnt, resampled |-> e.resampled]
  BY DEF Entry
<1>2. [e EXCEPT !.cnt = n] = [at |-> e.at, cnt |-> n, resampled |-> e.resampled]
  BY <1>1
<1> QED
  BY <1>2 DEF Entry

(* added, *)
LEMMA TableAdds ==
  ASSUME NEW t, NEW S, NEW k, NEW s, Table(t, S), Held(s, S), k \notin DOMAIN t,
         NEW u, u = [q \in {k} \cup DOMAIN t |->
                      IF q = k THEN [at |-> s, cnt |-> 0, resampled |-> None] ELSE t[q]]
  PROVE  /\ Table(u, S) /\ DOMAIN u = {k} \cup DOMAIN t
         /\ u[k].resampled = None /\ \A q \in DOMAIN t : u[q] = t[q]
<1> DEFINE e == [at |-> s, cnt |-> 0, resampled |-> None]
<1>1. u = [q \in {k} \cup DOMAIN t |-> IF q = k THEN e ELSE t[q]]
  OBVIOUS
<1>2. Entry(e, S) /\ e.resampled = None
  BY DEF Entry
<1> HIDE DEF e
<1>3. DOMAIN u = {k} \cup DOMAIN t /\ u[k] = e /\ \A q \in DOMAIN t : u[q] = t[q]
  BY <1>1
<1>4. IsFiniteSet({k} \cup DOMAIN t)
  BY FS_AddElement DEF Table
<1>5. u = [q \in DOMAIN u |-> u[q]]
  BY <1>1, <1>3
<1> QED
  BY <1>2, <1>3, <1>4, <1>5 DEF Table

(* and removed. *)
LEMMA TableDrops ==
  ASSUME NEW t, NEW S, NEW K, Table(t, S), K \subseteq DOMAIN t
  PROVE  Table([k \in K |-> t[k]], S) /\ IsFiniteSet(K)
<1>1. IsFiniteSet(K)
  BY FS_Subset DEF Table
<1> QED
  BY <1>1 DEF Table

LEMMA TableChanges ==
  ASSUME NEW t, NEW S, NEW k, NEW e, Table(t, S), k \in DOMAIN t => Entry(e, S)
  PROVE  /\ Table([t EXCEPT ![k] = e], S) /\ DOMAIN [t EXCEPT ![k] = e] = DOMAIN t
         /\ \A q \in DOMAIN t : [t EXCEPT ![k] = e][q] = IF q = k THEN e ELSE t[q]
<1> DEFINE u == [t EXCEPT ![k] = e]
<1>1. DOMAIN u = DOMAIN t /\ \A q \in DOMAIN t : u[q] = IF q = k THEN e ELSE t[q]
  BY DEF Table
<1>2. u = [q \in DOMAIN t |-> u[q]]
  BY DEF Table
<1> HIDE DEF u
<1>3. Table(u, S)
  BY <1>1, <1>2 DEF Table
<1> QED
  BY <1>1, <1>3 DEF u

LEMMA TableEmpty ==
  ASSUME NEW S
  PROVE  Table(<<>>, S) /\ DOMAIN <<>> = {}
<1>1. DOMAIN <<>> = {} /\ <<>> = [k \in {} |-> <<>>[k]]
  OBVIOUS
<1>2. IsFiniteSet({})
  BY FS_EmptySet
<1> QED
  BY <1>1, <1>2 DEF Table

(* resamp_cache_refer_off() and resamp_cache_refer_alloff() change counts. *)
SameCopies(u, t) ==
  DOMAIN u = DOMAIN t /\ \A q \in DOMAIN t : u[q].resampled = t[q].resampled

LEMMA CountedKeeps ==
  ASSUME NEW t, NEW S, NEW notes, NEW ch, NEW note, NEW time, Table(t, S)
  PROVE  Table(CountedTable(t, notes, ch, note, time), S) /\ SameCopies(CountedTable(t, notes, ch, note, time), t)
<1> DEFINE u == CountedTable(t, notes, ch, note, time)
           k == notes[ch][note].key
           n == Wrapped(t[k].cnt + Lasted(k.sp, note, time - notes[ch][note].on))
           e == [t[k] EXCEPT !.cnt = n]
<1>1. CASE u = t
  BY <1>1 DEF SameCopies
<1>2. CASE u = [t EXCEPT ![k] = e]
  <2>1. k \in DOMAIN t => Entry(e, S) /\ e.resampled = t[k].resampled
    BY EntryCounted DEF Table
  <2> HIDE DEF e, k, u
  <2>2. /\ Table(u, S) /\ DOMAIN u = DOMAIN t
        /\ \A q \in DOMAIN t : u[q] = IF q = k THEN e ELSE t[q]
    BY <1>2, <2>1, TableChanges
  <2>3. \A q \in DOMAIN t : u[q].resampled = t[q].resampled
    BY <2>1, <2>2
  <2> QED
    BY <2>2, <2>3 DEF u, SameCopies
<1>3. u = t \/ u = [t EXCEPT ![k] = e]
  BY DEF CountedTable
<1> QED
  BY <1>1, <1>2, <1>3

AllCounted(t, chs, time) ==
  [k \in DOMAIN t |-> [t[k] EXCEPT !.cnt = Wrapped(@ + LastedAll(chs, k, time))]]
LEMMA AllCountedKeeps ==
  ASSUME NEW t, NEW S, NEW chs, NEW time, Table(t, S)
  PROVE  Table(AllCounted(t, chs, time), S) /\ SameCopies(AllCounted(t, chs, time), t)
<1> DEFINE u == AllCounted(t, chs, time)
           n(k) == Wrapped(t[k].cnt + LastedAll(chs, k, time))
<1>1. u = [k \in DOMAIN t |-> [t[k] EXCEPT !.cnt = n(k)]]
  BY DEF AllCounted
<1>2. \A k \in DOMAIN t : /\ Entry([t[k] EXCEPT !.cnt = n(k)], S)
                          /\ [t[k] EXCEPT !.cnt = n(k)].resampled = t[k].resampled
  BY EntryCounted DEF Table
<1>3. DOMAIN u = DOMAIN t /\ u = [k \in DOMAIN u |-> u[k]]
  BY <1>1
<1>4. \A k \in DOMAIN t : Entry(u[k], S) /\ u[k].resampled = t[k].resampled
  BY <1>1, <1>2
<1> HIDE DEF u
<1>5. Table(u, S)
  BY <1>3, <1>4 DEF Table
<1> QED
  BY <1>3, <1>4, <1>5 DEF u, SameCopies

(* A note goes on or off; the notes of some channels go off. *)
LEMMA NoteChanges ==
  ASSUME NEW f, NEW ph, NEW D, NEW E, NEW ch, NEW note, NEW x,
         NotesOn(f, ph, D), D \subseteq E,
         x # Off => ph = "prescan" /\ x.key \in E
  PROVE  NotesOn([f EXCEPT ![ch][note] = x], ph, E)
<1> DEFINE g == [f EXCEPT ![ch] = [f[ch] EXCEPT ![note] = x]]
<1>1. g = [f EXCEPT ![ch][note] = x]
  OBVIOUS
<1>2. g = [c \in Channels |-> IF c = ch THEN [f[ch] EXCEPT ![note] = x] ELSE f[c]]
  BY DEF NotesOn
<1>3. ASSUME NEW c \in Channels
      PROVE  /\ DOMAIN g[c] = Notes /\ g[c] = [n \in Notes |-> g[c][n]]
             /\ \A n \in Notes : g[c][n] = x \/ g[c][n] = f[c][n]
  <2>1. CASE c = ch
    <3>1. f[c] = [n \in Notes |-> f[c][n]]
      BY DEF NotesOn
    <3>2. g[c] = [n \in Notes |-> IF n = note THEN x ELSE f[c][n]]
      BY <1>2, <2>1, <3>1
    <3> QED
      BY <3>2
  <2>2. CASE c # ch
    BY <1>2, <2>2 DEF NotesOn
  <2> QED
    BY <2>1, <2>2
<1>4. DOMAIN g = Channels /\ g = [c \in Channels |-> g[c]]
  BY <1>2
<1> HIDE DEF g
<1>5. NotesOn(g, ph, E)
  BY <1>3, <1>4 DEF NotesOn
<1> QED
  BY <1>1, <1>5

NotesLeft(f, chs) ==
  [c \in Channels |-> IF c \in chs THEN [n \in Notes |-> Off] ELSE f[c]]
LEMMA NotesOff ==
  ASSUME NEW f, NEW ph, NEW D, NEW chs, NotesOn(f, ph, D)
  PROVE  NotesOn(NotesLeft(f, chs), ph, D)
BY DEF NotesOn, NotesLeft

LEMMA NoNotes ==
  ASSUME NEW ph, NEW D, NEW f, f = [c \in Channels |-> [n \in Notes |-> Off]]
  PROVE  NotesOn(f, ph, D)
BY DEF NotesOn

(* A voice starts, is bent, or ends. *)
LEMMA VoiceChanges ==
  ASSUME NEW w, NEW S, NEW v, NEW x, Playing(w, S), Voice(x, S)
  PROVE  Playing([w EXCEPT ![v] = x], S)
BY DEF Playing

LEMMA VoiceTurned ==
  ASSUME NEW x, NEW n, x = [on |-> x.on, cache |-> x.cache, sample |-> x.sample, special |-> x.special]
  PROVE  [x EXCEPT !.on = n] = [on |-> n, cache |-> x.cache, sample |-> x.sample,
                                special |-> x.special]
OBVIOUS

LEMMA VoiceSilent ==
  ASSUME NEW x, NEW S, NEW T, Voice(x, S)
  PROVE  Voice([x EXCEPT !.on = FALSE], T)
<1>1. x = [on |-> x.on, cache |-> x.cache, sample |-> x.sample, special |-> x.special]
  BY DEF Voice
<1>2. [x EXCEPT !.on = FALSE] = [on |-> FALSE, cache |-> x.cache, sample |-> x.sample,
                                special |-> x.special]
  BY <1>1, VoiceTurned
<1> QED
  BY <1>2 DEF Voice

LEMMA VoicesSilent ==
  ASSUME NEW w, NEW S, NEW T, Playing(w, S)
  PROVE  Playing([v \in Voices |-> [w[v] EXCEPT !.on = FALSE]], T)
BY VoiceSilent DEF Playing

LEMMA VoiceBent ==
  ASSUME NEW x, NEW S, Voice(x, S)
  PROVE  Voice([x EXCEPT !.cache = None], S)
<1>1. x = [on |-> x.on, cache |-> x.cache, sample |-> x.sample, special |-> x.special]
  BY DEF Voice
<1>2. [x EXCEPT !.cache = None] = [on |-> x.on, cache |-> None, sample |-> x.sample,
                                   special |-> x.special]
  BY <1>1
<1> QED
  BY <1>2 DEF Voice

LEMMA SegmentHeld ==
  ASSUME Inductive, NEW nbytes \in Nat \ {0}, NewSegmentIn(hash_entry_pool, nbytes)
  PROVE  Inductive' /\ segments \subseteq segments' /\ Held(NewOne, segments')
BY SegmentTaken, CacheAssumption DEF Held

-----------------------------------------------------------------------------
(* The steps of the cache keep the invariant. *)

LEMMA CacheBegins == CacheInit => Grounded
<1> SUFFICES ASSUME CacheInit PROVE Grounded
  OBVIOUS
<1>1. Inductive
  BY InitInductive DEF CacheInit
<1>2. Table(cache_hash_table, segments)
  BY TableEmpty DEF CacheInit
<1>3. NotesOn(channel_note_table, phase, DOMAIN cache_hash_table)
  BY NoNotes DEF CacheInit
<1>4. Playing(voice, segments)
  <2>1. Voice(NoOne, segments)
    BY DEF Voice, NoOne
  <2> QED
    BY <2>1 DEF Playing, CacheInit
<1>5. refer = <<>>
  BY DEF CacheInit
<1> QED
  BY <1>1, <1>2, <1>3, <1>4, <1>5 DEF Grounded

(* What the pool is not touched by, and what only it is touched by. *)
PoolStill == UNCHANGED pool_vars
LEMMA PoolStays ==
  ASSUME Inductive, PoolStill
  PROVE  Inductive' /\ segments' = segments
<1>1. UNCHANGED vars /\ segments' = segments
  BY DEF PoolStill, pool_vars, vars
<1> QED
  BY <1>1, StutterStep

LEMMA StartPrescanGrounded ==
  ASSUME Grounded, StartPrescan
  PROVE  Grounded'
<1>1. /\ ResampCacheReset /\ phase' = "prescan"
      /\ voice' = [v \in Voices |-> [voice[v] EXCEPT !.on = FALSE]]
  BY DEF StartPrescan
<1>2. Inductive'
  <2>1. CASE chain[hash_entry_pool] = <<>>
    <3>1. PoolStill
      BY <1>1, <2>1 DEF ResampCacheReset, PoolStill
    <3> QED
      BY <3>1, PoolStays DEF Grounded
  <2>2. CASE chain[hash_entry_pool] # <<>>
    <3>1. ReuseMBlock(hash_entry_pool)
      BY <1>1, <2>2 DEF ResampCacheReset
    <3> QED
      BY <3>1, ReuseMBlockStep, CacheAssumption DEF Grounded
  <2> QED
    BY <2>1, <2>2
<1>3. /\ cache_hash_table' = <<>>
      /\ channel_note_table' = [c \in Channels |-> [n \in Notes |-> Off]]
  BY <1>1 DEF ResampCacheReset, ClearTables
<1>4. Table(cache_hash_table', segments')
  BY <1>3, TableEmpty
<1>5. NotesOn(channel_note_table', phase', DOMAIN cache_hash_table')
  BY <1>3, NoNotes
<1>6. Playing(voice', segments')
  BY <1>1, VoicesSilent DEF Grounded
<1> QED
  BY <1>1, <1>2, <1>4, <1>5, <1>6 DEF Grounded

(* A step that leaves the pool and the voices alone *)
LEMMA TablesChange ==
  ASSUME Grounded, PoolStill, voice' = voice,
         Table(cache_hash_table', segments),
         NotesOn(channel_note_table', phase', DOMAIN cache_hash_table'),
         refer' # <<>> => phase' = "prescan"
  PROVE  Grounded'
BY PoolStays DEF Grounded

LEMMA NothingChanges ==
  ASSUME Grounded, PoolStill, voice' = voice, phase' = phase, UNCHANGED table_vars,
         refer' # <<>> => phase' = "prescan"
  PROVE  Grounded'
<1>1. cache_hash_table' = cache_hash_table /\ channel_note_table' = channel_note_table
  BY DEF table_vars
<1> QED
  BY <1>1, PoolStays DEF Grounded

LEMMA ReferOnGrounded ==
  ASSUME Grounded, ReferOn
  PROVE  Grounded'
<1> DEFINE ch == Head(refer).ch
           note == Pressed(ch, Head(refer).a)
           k == [sp |-> Head(refer).sp, note |-> note]
           counted == CountedTable(cache_hash_table, channel_note_table, ch, note, now)
           x == [key |-> k, on |-> now]
<1>1. /\ channel_note_table' = [channel_note_table EXCEPT ![ch][note] = x]
      /\ IF k \in DOMAIN counted
         THEN cache_hash_table' = counted /\ PoolStill
         ELSE /\ NewSegmentIn(hash_entry_pool, ENTRY)
              /\ cache_hash_table' =
                   [q \in {k} \cup DOMAIN counted |->
                      IF q = k THEN [at |-> NewOne, cnt |-> 0, resampled |-> None]
                      ELSE counted[q]]
      /\ voice' = voice /\ phase' = phase /\ phase = "prescan"
  BY DEF ReferOn, Referred, PoolStill, Grounded
<1>2. Table(counted, segments) /\ DOMAIN counted = DOMAIN cache_hash_table
  BY CountedKeeps DEF Grounded, SameCopies
<1>3. x.key = k
  OBVIOUS
<1> HIDE DEF ch, note, k, counted, x
<1>4. ASSUME k \in DOMAIN cache_hash_table', DOMAIN cache_hash_table \subseteq DOMAIN cache_hash_table'
      PROVE  NotesOn(channel_note_table', phase', DOMAIN cache_hash_table')
  BY <1>1, <1>3, <1>4, NoteChanges DEF Grounded
<1>5. CASE k \in DOMAIN counted
  <2>1. cache_hash_table' = counted /\ PoolStill
    BY <1>1, <1>5
  <2>2. NotesOn(channel_note_table', phase', DOMAIN cache_hash_table')
    BY <1>2, <1>4, <1>5, <2>1
  <2>3. Table(cache_hash_table', segments)
    BY <1>2, <2>1
  <2> QED
    BY <1>1, <2>1, <2>2, <2>3, TablesChange
<1>6. CASE k \notin DOMAIN counted
  <2>1. /\ NewSegmentIn(hash_entry_pool, ENTRY)
        /\ cache_hash_table' =
             [q \in {k} \cup DOMAIN counted |->
                IF q = k THEN [at |-> NewOne, cnt |-> 0, resampled |-> None]
                ELSE counted[q]]
    BY <1>1, <1>6
  <2>2. Inductive' /\ segments \subseteq segments' /\ Held(NewOne, segments')
    BY <2>1, SegmentHeld, CacheAssumption DEF Grounded
  <2>3. Table(counted, segments')
    BY <1>2, <2>2, TableGrows
  <2>4. Table(cache_hash_table', segments') /\ DOMAIN cache_hash_table' = {k} \cup DOMAIN counted
    BY <1>6, <2>1, <2>2, <2>3, TableAdds
  <2>5. NotesOn(channel_note_table', phase', DOMAIN cache_hash_table')
    BY <1>2, <1>4, <2>4
  <2>6. Playing(voice', segments')
    BY <1>1, <2>2, PlayingGrows DEF Grounded
  <2> QED
    BY <1>1, <2>2, <2>4, <2>5, <2>6 DEF Grounded
<1> QED
  BY <1>5, <1>6

(* The prescan: its events touch neither the pool nor the voices. *)
LEMMA ReferAllOffKeeps ==
  ASSUME Grounded, NEW chs, ReferAllOff(chs)
  PROVE  /\ Table(cache_hash_table', segments)
         /\ DOMAIN cache_hash_table' = DOMAIN cache_hash_table
         /\ NotesOn(channel_note_table', phase, DOMAIN cache_hash_table')
         /\ chs = Channels => \A ph : NotesOn(channel_note_table', ph, DOMAIN cache_hash_table')
<1>1. /\ cache_hash_table' = AllCounted(cache_hash_table, chs, now')
      /\ channel_note_table' = NotesLeft(channel_note_table, chs)
  BY DEF ReferAllOff, AllCounted, NotesLeft
<1>2. /\ Table(cache_hash_table', segments)
      /\ DOMAIN cache_hash_table' = DOMAIN cache_hash_table
  BY <1>1, AllCountedKeeps DEF Grounded, SameCopies
<1>3. NotesOn(channel_note_table', phase, DOMAIN cache_hash_table')
  BY <1>1, <1>2, NotesOff DEF Grounded
<1>4. chs = Channels =>
        channel_note_table' = [c \in Channels |-> [n \in Notes |-> Off]]
  BY <1>1 DEF NotesLeft
<1> QED
  BY <1>2, <1>3, <1>4, NoNotes

LEMMA EventGrounded ==
  ASSUME Grounded, Event,
         \/ \E ch, a : NoteOn(ch, a)
         \/ \E ch, a : NoteOff(ch, a)
         \/ \E ch : AllOff(ch) \/ \E b : KeyShift(ch, b)
         \/ \E ch, p, part : Program(ch, p, part)
         \/ Reset
  PROVE  Grounded'
<1>1. voice' = voice /\ phase' = phase /\ phase = "prescan"
  BY DEF Event
<1>2. CASE UNCHANGED table_vars /\ PoolStill
  BY <1>1, <1>2, NothingChanges
<1>3. ASSUME NEW chs, ReferAllOff(chs), PoolStill
      PROVE  Grounded'
  BY <1>1, <1>3, ReferAllOffKeeps, TablesChange
<1>4. ASSUME NEW ch, NEW note, ReferOff(ch, note), PoolStill
      PROVE  Grounded'
  <2>1. /\ cache_hash_table' =
             CountedTable(cache_hash_table, channel_note_table, ch, note, now')
        /\ channel_note_table' = [channel_note_table EXCEPT ![ch][note] = Off]
    BY <1>4 DEF ReferOff
  <2>2. /\ Table(cache_hash_table', segments)
        /\ DOMAIN cache_hash_table' = DOMAIN cache_hash_table
    BY <2>1, CountedKeeps DEF Grounded, SameCopies
  <2>3. NotesOn(channel_note_table', phase', DOMAIN cache_hash_table')
    BY <1>1, <2>1, <2>2, NoteChanges DEF Grounded
  <2> QED
    BY <1>1, <1>4, <2>2, <2>3, TablesChange
<1>5. ASSUME NEW ch, NEW a, NoteOn(ch, a)
      PROVE  UNCHANGED table_vars /\ PoolStill
  BY <1>5 DEF NoteOn, PoolStill
<1>6. ASSUME NEW ch, NEW a, NoteOff(ch, a)
      PROVE  ReferOff(ch, Pressed(ch, a)) /\ PoolStill
  BY <1>6 DEF NoteOff, PoolStill
<1>7. ASSUME NEW ch, AllOff(ch)
      PROVE  ReferAllOff({ch}) /\ PoolStill
  BY <1>7 DEF AllOff, PoolStill
<1>8. ASSUME NEW ch, NEW b, KeyShift(ch, b)
      PROVE  ReferAllOff({ch}) /\ PoolStill
  BY <1>8 DEF KeyShift, PoolStill
<1>9. ASSUME NEW ch, NEW p, NEW part, Program(ch, p, part)
      PROVE  UNCHANGED table_vars /\ PoolStill
  BY <1>9 DEF Program, PoolStill
<1>10. ASSUME Reset
       PROVE  UNCHANGED table_vars /\ PoolStill
  BY <1>10 DEF Reset, PoolStill
<1> QED
  BY <1>2, <1>3, <1>4, <1>5, <1>6, <1>7, <1>8, <1>9, <1>10

LEMMA EndOfTrackGrounded ==
  ASSUME Grounded, EndOfTrack
  PROVE  Grounded'
<1>1. ReferAllOff(Channels) /\ PoolStill /\ voice' = voice /\ refer' = <<>>
  BY DEF EndOfTrack, PoolStill
<1>2. /\ Table(cache_hash_table', segments)
      /\ NotesOn(channel_note_table', phase', DOMAIN cache_hash_table')
  BY <1>1, ReferAllOffKeeps
<1> QED
  BY <1>1, <1>2, TablesChange

(* From the end of the prescan on no note is on. *)
LEMMA AllNotesOff ==
  ASSUME Grounded, phase # "prescan"
  PROVE  /\ refer = <<>>
         /\ \A ph, D : NotesOn(channel_note_table, ph, D)
<1>1. \A c \in Channels, n \in Notes : channel_note_table[c][n] = Off
  BY DEF Grounded, NotesOn
<1> QED
  BY <1>1 DEF Grounded, NotesOn

LEMMA CreateBeginGrounded ==
  ASSUME Grounded, CreateBegin
  PROVE  Grounded'
<1> DEFINE kept == {k \in DOMAIN cache_hash_table : Worth(k, cache_hash_table)}
<1>1. /\ phase = "count" /\ voice' = voice /\ refer' = refer
      /\ channel_note_table' = channel_note_table
      /\ cache_hash_table' = [k \in kept |-> cache_hash_table[k]]
      /\ IF kept = {} THEN PoolStill
         ELSE NewSegmentIn(hash_entry_pool, Cardinality(kept) * POINTER)
  BY DEF CreateBegin, PoolStill
<1>2. Table(cache_hash_table', segments) /\ IsFiniteSet(kept)
  <2>1. kept \subseteq DOMAIN cache_hash_table
    OBVIOUS
  <2> HIDE DEF kept
  <2> QED
    BY <1>1, <2>1, TableDrops DEF Grounded
<1> HIDE DEF kept
<1>3. refer' = <<>> /\ NotesOn(channel_note_table', phase', DOMAIN cache_hash_table')
  BY <1>1, AllNotesOff
<1>4. CASE kept = {}
  BY <1>1, <1>2, <1>3, <1>4, TablesChange
<1>5. CASE kept # {}
  <2>1. Cardinality(kept) * POINTER \in Nat
    BY <1>2, FS_CardinalityType, CacheAssumption
  <2>2. Inductive' /\ segments \subseteq segments'
    BY <1>1, <1>5, <2>1, SegmentTaken, CacheAssumption DEF Grounded
  <2>3. Table(cache_hash_table', segments')
    BY <1>2, <2>2, TableGrows
  <2>4. Playing(voice', segments')
    BY <1>1, <2>2, PlayingGrows DEF Grounded
  <2> QED
    BY <1>3, <2>2, <2>3, <2>4 DEF Grounded
<1> QED
  BY <1>4, <1>5

(* A copy is made of an entry, if it is still in the table. *)
LEMMA EntryCopied ==
  ASSUME NEW e, NEW S, NEW x, Entry(e, S), Held(x.at, S)
  PROVE  Entry([e EXCEPT !.resampled = x], S) /\ [e EXCEPT !.resampled = x].resampled = x
<1>1. e = [at |-> e.at, cnt |-> e.cnt, resampled |-> e.resampled]
  BY DEF Entry
<1>2. [e EXCEPT !.resampled = x] = [at |-> e.at, cnt |-> e.cnt, resampled |-> x]
  BY <1>1
<1> QED
  BY <1>2 DEF Entry

Copy(x) ==
  [at |-> NewOne, data |-> cache_data_len, start |-> x.start, end |-> x.end, len |-> x.len]
LEMMA TableCopies ==
  ASSUME NEW S, NEW k, NEW x, Table(cache_hash_table, S), Held(x.at, S),
         cache_hash_table' = [cache_hash_table EXCEPT ![k].resampled = x]
  PROVE  /\ Table(cache_hash_table', S)
         /\ DOMAIN cache_hash_table' = DOMAIN cache_hash_table
         /\ \A q \in DOMAIN cache_hash_table :
              cache_hash_table'[q].resampled =
                IF q = k THEN x ELSE cache_hash_table[q].resampled
<1> DEFINE e == [cache_hash_table[k] EXCEPT !.resampled = x]
<1>1. cache_hash_table' = [cache_hash_table EXCEPT ![k] = e]
  OBVIOUS
<1>2. k \in DOMAIN cache_hash_table => Entry(e, S) /\ e.resampled = x
  BY EntryCopied DEF Table
<1> HIDE DEF e
<1> DEFINE u == [cache_hash_table EXCEPT ![k] = e]
<1>3. k \in DOMAIN cache_hash_table => Entry(e, S)
  BY <1>2
<1>4. /\ Table(u, S) /\ DOMAIN u = DOMAIN cache_hash_table
      /\ \A q \in DOMAIN cache_hash_table : u[q] = IF q = k THEN e ELSE cache_hash_table[q]
  BY <1>3, TableChanges
<1>5. cache_hash_table' = u
  BY <1>1
<1> HIDE DEF u
<1> QED
  BY <1>2, <1>4, <1>5

LEMMA CacheResamplingGrounded ==
  ASSUME Grounded, NEW k, CacheResampling(k)
  PROVE  Grounded'
<1> DEFINE x == Copy(Copied(k))
<1>1. /\ phase = "create" /\ voice' = voice /\ refer' = refer
      /\ channel_note_table' = channel_note_table
      /\ NewSegmentIn(hash_entry_pool, SAMPLE)
      /\ cache_hash_table' = [cache_hash_table EXCEPT ![k].resampled = x]
  BY DEF CacheResampling, Copy
<1>2. x.at = NewOne
  BY DEF Copy
<1> HIDE DEF x
<1>3. Inductive' /\ segments \subseteq segments' /\ Held(NewOne, segments')
  BY <1>1, SegmentHeld, CacheAssumption DEF Grounded
<1>4. Table(cache_hash_table', segments')
  <2>1. Table(cache_hash_table, segments')
    BY <1>3, TableGrows DEF Grounded
  <2>2. Held(x.at, segments')
    BY <1>2, <1>3
  <2> QED
    BY <1>1, <2>1, <2>2, TableCopies
<1>5. refer' = <<>> /\ NotesOn(channel_note_table', phase', DOMAIN cache_hash_table')
  BY <1>1, AllNotesOff
<1>6. Playing(voice', segments')
  BY <1>1, <1>3, PlayingGrows DEF Grounded
<1> QED
  BY <1>3, <1>4, <1>5, <1>6 DEF Grounded

LEMMA CreateEndGrounded ==
  ASSUME Grounded, CreateEnd
  PROVE  Grounded'
<1> DEFINE K == {q \in DOMAIN cache_hash_table : cache_hash_table[q].resampled # None}
<1>1. /\ phase = "create" /\ voice' = voice /\ refer' = refer
      /\ channel_note_table' = channel_note_table /\ PoolStill
      /\ cache_hash_table' = [k \in K |-> cache_hash_table[k]]
  BY DEF CreateEnd, PoolStill
<1>2. K \subseteq DOMAIN cache_hash_table
  OBVIOUS
<1> HIDE DEF K
<1>3. Table(cache_hash_table', segments)
  BY <1>1, <1>2, TableDrops DEF Grounded
<1>4. refer' = <<>> /\ NotesOn(channel_note_table', phase', DOMAIN cache_hash_table')
  BY <1>1, AllNotesOff
<1> QED
  BY <1>1, <1>3, <1>4, TablesChange

LEMMA PlayGrounded ==
  ASSUME Grounded, NEW ch, NEW a, NEW v, PlayNote(ch, a, v)
  PROVE  Grounded'
<1>1. /\ PoolStill /\ phase' = phase /\ refer' = refer
      /\ cache_hash_table' = cache_hash_table
      /\ channel_note_table' = channel_note_table
  BY DEF PlayNote, PoolStill, table_vars
<1>2. PICK sp, note, p :
        /\ p \in {Fetch(sp, note), NoCopy}
        /\ voice' = [voice EXCEPT ![v] = [on |-> TRUE, cache |-> p.at, sample |-> p.resampled,
                                          special |-> FALSE]]
  BY DEF PlayNote
<1> DEFINE x == [on |-> TRUE, cache |-> p.at, sample |-> p.resampled, special |-> FALSE]
           k == [sp |-> sp, note |-> note]
<1>3. Voice(x, segments)
  <2>1. /\ x.on = TRUE /\ x.cache = p.at /\ x.sample = p.resampled /\ x.special = FALSE
        /\ x = [on |-> x.on, cache |-> x.cache, sample |-> x.sample, special |-> x.special]
    OBVIOUS
  <2>2. CASE p = NoCopy
    BY <2>1, <2>2 DEF Voice, NoCopy
  <2>3. CASE k \in DOMAIN cache_hash_table /\ p = cache_hash_table[k]
    <3>1. Entry(p, segments)
      BY <2>3 DEF Grounded, Table
    <3> QED
      BY <2>1, <3>1 DEF Entry, Voice
  <2> QED
    BY <1>2, <2>2, <2>3 DEF Fetch
<1> HIDE DEF x
<1>4. Playing(voice', segments)
  BY <1>2, <1>3, VoiceChanges DEF Grounded, x
<1> QED
  BY <1>1, <1>4, PoolStays DEF Grounded

(* A special patch: the entry stays, and is nobody's concern. *)
LEMMA PlaySpecialGrounded ==
  ASSUME Grounded, NEW v \in Voices, PlaySpecial(v)
  PROVE  Grounded'
<1>1. /\ PoolStill /\ phase' = phase /\ refer' = refer
      /\ cache_hash_table' = cache_hash_table
      /\ channel_note_table' = channel_note_table
  BY DEF PlaySpecial, PoolStill, table_vars
<1> DEFINE x == [on |-> TRUE, cache |-> voice[v].cache, sample |-> None, special |-> TRUE]
<1>2. voice' = [voice EXCEPT ![v] = x]
  BY DEF PlaySpecial
<1>3. Voice(x, segments)
  BY DEF Voice
<1> HIDE DEF x
<1>4. Playing(voice', segments)
  BY <1>2, <1>3, VoiceChanges DEF Grounded
<1> QED
  BY <1>1, <1>4, PoolStays DEF Grounded

LEMMA VoiceChangeGrounded ==
  ASSUME Grounded, NEW v \in Voices, VoiceChange(v)
  PROVE  Grounded'
<1>1. /\ PoolStill /\ phase' = phase /\ refer' = refer
      /\ cache_hash_table' = cache_hash_table
      /\ channel_note_table' = channel_note_table
  BY DEF VoiceChange, PoolStill, table_vars
<1> DEFINE bent == [voice[v] EXCEPT !.cache = None]
           silent == [voice[v] EXCEPT !.on = FALSE]
<1>2. voice' = [voice EXCEPT ![v] = bent] \/ voice' = [voice EXCEPT ![v] = silent]
  BY DEF VoiceChange
<1>3. Voice(voice[v], segments)
  BY DEF Grounded, Playing
<1>4. Voice(bent, segments) /\ Voice(silent, segments)
  BY <1>3, VoiceBent, VoiceSilent
<1> HIDE DEF bent, silent
<1>5. Playing(voice', segments)
  BY <1>2, <1>4, VoiceChanges DEF Grounded
<1> QED
  BY <1>1, <1>5, PoolStays DEF Grounded

LEMMA EndSongGrounded ==
  ASSUME Grounded, EndSong
  PROVE  Grounded'
<1>1. /\ PoolStill /\ phase = "play" /\ refer' = refer
      /\ cache_hash_table' = cache_hash_table
      /\ channel_note_table' = channel_note_table
      /\ voice' = [v \in Voices |-> [voice[v] EXCEPT !.on = FALSE]]
  BY DEF EndSong, PoolStill, table_vars, song_vars
<1>2. Playing(voice', segments)
  BY <1>1, VoicesSilent DEF Grounded
<1>3. refer' = <<>> /\ NotesOn(channel_note_table', phase', DOMAIN cache_hash_table')
  BY <1>1, AllNotesOff
<1> QED
  BY <1>1, <1>2, <1>3, PoolStays DEF Grounded

(* Other pools come and go; the segments of this one stay. *)
LEMMA OtherPoolsGrounded ==
  ASSUME Grounded, OtherPools
  PROVE  Grounded'
<1>1. /\ voice' = voice /\ phase' = phase /\ refer' = refer
      /\ cache_hash_table' = cache_hash_table
      /\ channel_note_table' = channel_note_table
  BY DEF OtherPools, table_vars
<1>2. Inductive' /\ \A s \in segments : s.pool = hash_entry_pool => s \in segments'
  <2>1. ASSUME NEW m \in Pools \ {hash_entry_pool}, ReuseMBlock(m)
        PROVE  Inductive' /\ \A s \in segments : s.pool = hash_entry_pool => s \in segments'
    <3>1. segments' = {s \in segments : s.pool # m}
      BY <2>1 DEF ReuseMBlock, Release
    <3> QED
      BY <2>1, <3>1, ReuseMBlockStep DEF Grounded
  <2>2. ASSUME NEW m \in Pools, NEW nbytes \in Sizes, NewSegmentIn(m, nbytes)
        PROVE  Inductive' /\ \A s \in segments : s.pool = hash_entry_pool => s \in segments'
    BY <2>2, SegmentTaken, SizeAssumption DEF Grounded
  <2>3. CASE FreeGlobal
    <3>1. segments' = segments
      BY <2>3 DEF FreeGlobal
    <3> QED
      BY <2>3, <3>1, FreeGlobalStep DEF Grounded
  <2> QED
    BY <2>1, <2>2, <2>3 DEF OtherPools
<1>3. \A s : Held(s, segments) => Held(s, segments')
  BY <1>2 DEF Held
<1>4. Table(cache_hash_table', segments') /\ Playing(voice', segments')
  BY <1>1, <1>3 DEF Grounded, Table, Entry, Playing, Voice
<1> QED
  BY <1>1, <1>2, <1>4 DEF Grounded

LEMMA CacheStutters ==
  ASSUME Grounded, UNCHANGED cache_vars
  PROVE  Grounded'
<1>1. /\ PoolStill /\ voice' = voice /\ phase' = phase /\ refer' = refer
      /\ UNCHANGED table_vars
  BY DEF cache_vars, PoolStill
<1> QED
  BY <1>1, NothingChanges DEF Grounded

LEMMA CacheStep == Grounded /\ [CacheNext]_cache_vars => Grounded'
<1> SUFFICES ASSUME Grounded, [CacheNext]_cache_vars PROVE Grounded'
  OBVIOUS
<1>1. CASE StartPrescan
  BY <1>1, StartPrescanGrounded
<1>2. CASE ReferOnNothing
  <2>1. /\ PoolStill /\ voice' = voice /\ phase' = phase /\ UNCHANGED table_vars
        /\ refer # <<>>
    BY <1>2 DEF ReferOnNothing, Referred, PoolStill
  <2> QED
    BY <2>1, NothingChanges DEF Grounded
<1>3. CASE ReferOn
  BY <1>3, ReferOnGrounded
<1>4. CASE Reset
  BY <1>4, EventGrounded DEF Reset
<1>5. ASSUME NEW ch \in Channels, NEW a \in Notes, NoteOn(ch, a) \/ NoteOff(ch, a)
      PROVE  Grounded'
  <2>1. Event
    BY <1>5 DEF NoteOn, NoteOff
  <2> QED
    BY <1>5, <2>1, EventGrounded
<1>6. ASSUME NEW ch \in Channels, AllOff(ch) \/ \E b \in {0, 1} : KeyShift(ch, b)
      PROVE  Grounded'
  <2>1. Event
    BY <1>6 DEF AllOff, KeyShift
  <2> QED
    BY <1>6, <2>1, EventGrounded
<1>7. ASSUME NEW ch \in Channels, NEW p \in DOMAIN Instrument, NEW part \in BOOLEAN,
             Program(ch, p, part)
      PROVE  Grounded'
  <2>1. Event
    BY <1>7 DEF Program
  <2> QED
    BY <1>7, <2>1, EventGrounded
<1>8. CASE EndOfTrack
  BY <1>8, EndOfTrackGrounded
<1>9. CASE CreateBegin
  BY <1>9, CreateBeginGrounded
<1>10. CASE CreateEnd
  BY <1>10, CreateEndGrounded
<1>11. ASSUME NEW k \in array, NotResampled(k)
       PROVE  Grounded'
  <2>1. /\ PoolStill /\ voice' = voice /\ phase' = phase /\ UNCHANGED table_vars
        /\ refer' = refer
    BY <1>11 DEF NotResampled, PoolStill
  <2> QED
    BY <2>1, NothingChanges DEF Grounded
<1>12. ASSUME NEW k \in array, CacheResampling(k)
       PROVE  Grounded'
  BY <1>12, CacheResamplingGrounded
<1>13. ASSUME NEW ch \in Channels, NEW a \in Notes, NEW v \in Voices, PlayNote(ch, a, v)
       PROVE  Grounded'
  BY <1>13, PlayGrounded
<1>14. ASSUME NEW v \in Voices, PlaySpecial(v) \/ VoiceChange(v)
       PROVE  Grounded'
  BY <1>14, PlaySpecialGrounded, VoiceChangeGrounded
<1>15. ASSUME NEW ch \in Channels, PlayChange(ch)
       PROVE  Grounded'
  <2>1. /\ PoolStill /\ voice' = voice /\ phase' = phase /\ UNCHANGED table_vars
        /\ refer' = refer
    BY <1>15 DEF PlayChange, PoolStill
  <2> QED
    BY <2>1, NothingChanges DEF Grounded
<1>16. CASE EndSong
  BY <1>16, EndSongGrounded
<1>17. CASE OtherPools
  BY <1>17, OtherPoolsGrounded
<1>18. CASE UNCHANGED cache_vars
  BY <1>18, CacheStutters
<1> QED
  BY <1>1, <1>2, <1>3, <1>4, <1>5, <1>6, <1>7, <1>8, <1>9, <1>10, <1>11, <1>12,
     <1>13, <1>14, <1>15, <1>16, <1>17, <1>18 DEF CacheNext

LEMMA CacheGrounded == CacheSpec => []Grounded
BY CacheBegins, CacheStep, PTL DEF CacheSpec

(* Whatever the other pools do meanwhile, no block of the cache's pool is  *)
(* another's or free as well.                                              *)
THEOREM CacheOwnsBlocks == CacheSpec => []OneOwner
<1>1. Grounded => OneOwner
  BY DEF Grounded, Inductive
<1> QED
  BY CacheGrounded, <1>1, PTL

(* No entry of the cache's table and no copy overlaps another or a segment *)
(* of another pool.                                                        *)
THEOREM CacheSegmentsApart == CacheSpec => []SegmentsApart
<1>1. Grounded => SegmentsApart
  BY DEF Grounded, Inductive
<1> QED
  BY CacheGrounded, <1>1, PTL

(* An entry of the table, its copy, the entry of a note that is on and     *)
(* what a voice plays are memory that reuse_mblock() did not give back,    *)
(* through every song, reset and end, though the pool, the two tables and  *)
(* the voices are each cleared in a place of their own; only the `cache'   *)
(* of a voice with a special patch may be an entry of a song before.       *)
THEOREM CacheReachable == CacheSpec => []Reachable
BY CacheGrounded, GroundedReachable, PTL

-----------------------------------------------------------------------------
(* Lengths of a copy *)

LEMMA TimesGrows ==
  ASSUME NEW a \in Nat, NEW b \in Nat, NEW c \in Nat, a <= b
  PROVE  a * c \in Nat /\ b * c \in Nat /\ a * c <= b * c
<1>1. PICK d \in Nat : b = a + d
  <2>1. b - a \in Nat /\ b = a + (b - a)
    OBVIOUS
  <2> QED
    BY <2>1
<1>2. b * c = a * c + d * c /\ d * c \in Nat /\ a * c \in Nat
  BY <1>1, SMT
<1> QED
  BY <1>2, SMT

LEMMA Quotient ==
  ASSUME NEW a \in Nat, NEW c \in Nat \ {0}
  PROVE  /\ a \div c \in Nat /\ (a \div c) * c \in Nat
         /\ (a \div c) * c <= a /\ a < (a \div c + 1) * c
BY SMT

LEMMA QuotientGrows ==
  ASSUME NEW a \in Nat, NEW b \in Nat, NEW c \in Nat \ {0}, a <= b
  PROVE  a \div c <= b \div c
<1> DEFINE p == a \div c
           q == b \div c
<1>1. p \in Nat /\ q \in Nat /\ p * c <= a /\ b < (q + 1) * c
  BY Quotient
<1> HIDE DEF p, q
<1>2. p * c \in Nat /\ (q + 1) * c \in Nat
  BY <1>1, TimesGrows
<1>3. ASSUME q + 1 <= p PROVE FALSE
  <2>1. (q + 1) * c <= p * c
    BY <1>1, <1>3, TimesGrows
  <2> QED
    BY <1>1, <1>2, <2>1
<1>4. p <= q
  BY <1>1, <1>3
<1> QED
  BY <1>4 DEF p, q

(* What is scaled in units of 1/f is not longer than what is scaled and    *)
(* rounded, for a ratio of n/f.                                            *)
LEMMA ScaledFits ==
  ASSUME NEW x \in Nat, NEW dl \in Nat, x <= dl, NEW f \in Nat \ {0}, NEW n \in Nat \ {0}
  PROVE  ((2 * x * f + n) \div (2 * n)) \div f <= (2 * dl + n) \div (2 * n)
<1> DEFINE a == 2 * x * f + n
           p == a \div (2 * n)
           q == p \div f
           d == 2 * dl + n
           r == d \div (2 * n)
<1>1. 2 * n \in Nat \ {0} /\ a \in Nat /\ d \in Nat
  BY SMT
<1>2. p \in Nat /\ p * (2 * n) \in Nat /\ p * (2 * n) <= a
  BY <1>1, Quotient
<1>3. q \in Nat /\ q * f \in Nat /\ q * f <= p
  BY <1>2, Quotient
<1>4. r \in Nat /\ d < (r + 1) * (2 * n)
  BY <1>1, Quotient
<1>5. ASSUME r + 1 <= q PROVE FALSE
  <2> HIDE DEF p, q, r
  <2>1. (r + 1) * f <= q * f /\ (r + 1) * f \in Nat
    BY <1>3, <1>4, <1>5, TimesGrows
  <2>2. (r + 1) * f <= p
    BY <1>2, <1>3, <2>1
  <2>3. ((r + 1) * f) * (2 * n) <= p * (2 * n) /\ ((r + 1) * f) * (2 * n) \in Nat
    BY <1>1, <1>2, <2>1, <2>2, TimesGrows
  <2>4. ((r + 1) * f) * (2 * n) <= a
    BY <1>1, <1>2, <2>3
  <2>5. ((r + 1) * (2 * n)) * f = ((r + 1) * f) * (2 * n)
    BY <1>4, SMT
  <2>6. (d + 1) * f <= ((r + 1) * (2 * n)) * f
    <3>1. (r + 1) * (2 * n) \in Nat /\ d + 1 \in Nat /\ d + 1 <= (r + 1) * (2 * n)
      BY <1>1, <1>4, SMT
    <3> QED
      BY <3>1, TimesGrows
  <2>7. (d + 1) * f = 2 * dl * f + n * f + f
    BY SMT
  <2>8. x * f <= dl * f /\ n <= n * f /\ x * f \in Nat /\ dl * f \in Nat /\ n * f \in Nat
    BY TimesGrows, SMT
  <2>9. a = 2 * (x * f) + n /\ 2 * dl * f = 2 * (dl * f)
    BY SMT
  <2>10. (d + 1) * f <= a
    <3> DEFINE u == ((r + 1) * f) * (2 * n)
               w == (d + 1) * f
    <3>1. w <= u /\ u <= a /\ u \in Nat
      BY <2>3, <2>4, <2>5, <2>6
    <3>2. w \in Nat
      BY <1>1, SMT
    <3> HIDE DEF u, w, a, d
    <3>3. w <= a
      BY <1>1, <3>1, <3>2
    <3> QED
      BY <3>3 DEF w
  <2>11. 2 * (dl * f) + n * f + f <= 2 * (x * f) + n
    BY <2>7, <2>9, <2>10
  <2> DEFINE u == dl * f
             v == x * f
             w == n * f
  <2>12. /\ u \in Nat /\ v \in Nat /\ w \in Nat /\ v <= u /\ n <= w
         /\ 2 * u + w + f <= 2 * v + n
    BY <2>8, <2>11
  <2> HIDE DEF a, d, u, v, w
  <2> QED
    BY <2>12
<1>6. q <= r
  BY <1>3, <1>4, <1>5
<1> QED
  BY <1>6

LEMMA SumOfQuotients ==
  ASSUME NEW a \in Nat, NEW b \in Nat, NEW f \in Nat \ {0}
  PROVE  (a + b) \div f <= (a \div f) + (b \div f) + 1
BY SMT

(* The loop of a sample lies in its data and is not empty: what            *)
(* set_sample_info() makes of every sample of a sound font.                *)
LoopsInside ==
  \A s \in Samples : \A x \in Shape[s] :
    x.ls <= x.le /\ x.le <= x.dl /\ (x.loops => x.ls < x.le)

LEMMA ScaledGrows ==
  ASSUME NEW x \in Nat, NEW y \in Nat, x <= y, NEW note \in Notes
  PROVE  Scaled(x, note) \in Nat /\ Scaled(y, note) \in Nat /\ Scaled(x, note) <= Scaled(y, note)
<1> DEFINE n == Step[note]
           a == 2 * x * FRACTION + n
           b == 2 * y * FRACTION + n
<1>1. n \in Nat \ {0} /\ FRACTION \in Nat \ {0}
  BY CacheAssumption
<1> HIDE DEF n
<1>2. x * FRACTION \in Nat /\ y * FRACTION \in Nat /\ x * FRACTION <= y * FRACTION
  BY <1>1, TimesGrows
<1>3. a = 2 * (x * FRACTION) + n /\ b = 2 * (y * FRACTION) + n
  BY <1>1, SMT
<1>4. a \in Nat /\ b \in Nat /\ a <= b /\ 2 * n \in Nat \ {0}
  BY <1>1, <1>2, <1>3
<1> HIDE DEF a, b
<1>5. a \div (2 * n) \in Nat /\ b \div (2 * n) \in Nat /\ a \div (2 * n) <= b \div (2 * n)
  BY <1>4, Quotient, QuotientGrows
<1> QED
  BY <1>5 DEF Scaled, a, b, n

(* What sample_resamp_info() says of a copy: the loop begins before it     *)
(* ends, and ends at most one sample behind the copy.                      *)
Sane(x) ==
  /\ x.start \in Nat /\ x.end \in Nat /\ x.len \in Nat
  /\ x.start <= x.end /\ x.end <= x.len + 1

LEMMA LengthsCounted ==
  ASSUME NEW n \in Nat, n < Points
  PROVE  Points \in Nat \ {0}
<1>1. SPLEN_T_MAX + 1 \in Nat /\ FRACTION \in Nat \ {0}
  BY CacheAssumption
<1>2. Points \in Nat
  BY <1>1, Quotient DEF Points
<1> QED
  BY <1>2

LEMMA InfoSane ==
  ASSUME LoopsInside, LengthsHeld, NEW sp \in Samples, sample[sp] \in Shape[sp], NEW note \in Notes
  PROVE  Sane(Info(sp, note))
<1> DEFINE s == sample[sp]
           xls == Scaled(s.ls, note)
           xle == Scaled(s.le, note)
           rounded == (2 * s.dl + Step[note]) \div (2 * Step[note])
           short == s.loops /\ (xle - xls) \div FRACTION < MIN_LOOPLEN
           turns == (MIN_LOOPLEN * Step[note]) \div (s.le - s.ls) + 1
           end == IF short THEN Scaled(s.le + turns * (s.le - s.ls), note) ELSE xle
           length == rounded + (end - xle) \div FRACTION
           zero == [start |-> 0, end |-> 0, len |-> 0]
           x == [start |-> xls \div FRACTION, end |-> end \div FRACTION,
                 len |-> length % Points]
<1>1. /\ LoopStart(sp, note) = xls /\ LoopEnd(sp, note) = end /\ Length(sp, note) = length
      /\ Info(sp, note) = IF TooLong(sp, note) THEN zero ELSE x
  BY DEF Info, LoopStart, LoopEnd, Length
<1>2. /\ s.ls \in Nat /\ s.le \in Nat /\ s.dl \in Nat
      /\ s.ls <= s.le /\ s.le <= s.dl /\ (s.loops => s.ls < s.le)
  BY CacheAssumption DEF LoopsInside
<1>3. /\ Step[note] \in Nat \ {0} /\ FRACTION \in Nat \ {0} /\ MIN_LOOPLEN \in Nat
  BY CacheAssumption
<1>4. Sane(zero)
  BY DEF Sane
<1>5. xls \in Nat /\ xle \in Nat /\ xls <= xle
  BY <1>2, ScaledGrows
<1>6. end \in Nat /\ xle <= end
  <2>1. CASE short
    <3> DEFINE d == s.le - s.ls
    <3>1. d \in Nat \ {0}
      BY <1>2, <2>1
    <3>2. MIN_LOOPLEN * Step[note] \in Nat
      BY <1>3, SMT
    <3> HIDE DEF d
    <3>3. (MIN_LOOPLEN * Step[note]) \div d \in Nat
      BY <3>1, <3>2, Quotient
    <3>4. turns \in Nat
      BY <3>3 DEF d
    <3> HIDE DEF turns, s
    <3>5. turns * d \in Nat
      BY <3>1, <3>4, SMT
    <3>6. s.le + turns * d \in Nat /\ s.le <= s.le + turns * d
      BY <1>2, <3>5
    <3>7. /\ Scaled(s.le + turns * d, note) \in Nat
          /\ Scaled(s.le, note) <= Scaled(s.le + turns * d, note)
      BY <1>2, <3>6, ScaledGrows
    <3> QED
      BY <2>1, <3>7 DEF d
  <2>2. CASE ~short
    BY <1>5, <2>2
  <2> QED
    BY <2>1, <2>2
<1>7. rounded \in Nat /\ xle \div FRACTION <= rounded
  <2>1. 2 * s.dl + Step[note] \in Nat /\ 2 * Step[note] \in Nat \ {0}
    BY <1>2, <1>3, SMT
  <2>2. rounded \in Nat
    BY <2>1, Quotient
  <2>3. ((2 * s.le * FRACTION + Step[note]) \div (2 * Step[note])) \div FRACTION
          <= (2 * s.dl + Step[note]) \div (2 * Step[note])
    BY <1>2, <1>3, ScaledFits
  <2> QED
    BY <2>2, <2>3 DEF Scaled
<1> HIDE DEF xls, xle, rounded, end, s
<1>8. xls \div FRACTION \in Nat /\ end \div FRACTION \in Nat
      /\ xls \div FRACTION <= end \div FRACTION
  <2>1. xls <= end
    BY <1>5, <1>6
  <2> QED
    BY <1>3, <1>5, <1>6, <2>1, Quotient, QuotientGrows
<1>9. PICK d \in Nat : end = xle + d
  <2>1. end - xle \in Nat /\ end = xle + (end - xle)
    BY <1>5, <1>6
  <2> QED
    BY <2>1
<1>10. end - xle = d
  BY <1>5, <1>9
<1>11. /\ d \div FRACTION \in Nat /\ xle \div FRACTION \in Nat
       /\ end \div FRACTION <= (xle \div FRACTION) + (d \div FRACTION) + 1
  BY <1>3, <1>5, <1>9, Quotient, SumOfQuotients
<1>12. ASSUME length < Points
       PROVE  /\ x.start = xls \div FRACTION /\ x.end = end \div FRACTION
              /\ x.len = rounded + (d \div FRACTION)
  <2>1. length = rounded + (d \div FRACTION) /\ length \in Nat
    BY <1>7, <1>10, <1>11
  <2>2. Points \in Nat \ {0}
    BY <1>12, <2>1, LengthsCounted
  <2> HIDE DEF length
  <2>3. length % Points = length
    BY <1>12, <2>1, <2>2, SMT
  <2> QED
    BY <2>1, <2>3
<1>13. ASSUME length < Points
       PROVE  Sane(x)
  <2> DEFINE a == xls \div FRACTION
             b == end \div FRACTION
             c == xle \div FRACTION
             e == d \div FRACTION
  <2>1. /\ a \in Nat /\ b \in Nat /\ c \in Nat /\ e \in Nat /\ rounded \in Nat
        /\ a <= b /\ b <= c + e + 1 /\ c <= rounded
    BY <1>7, <1>8, <1>11
  <2>2. x.start = a /\ x.end = b /\ x.len = rounded + e
    BY <1>12, <1>13
  <2> HIDE DEF a, b, c, e, x
  <2> QED
    BY <2>1, <2>2 DEF Sane
<1>14. TooLong(sp, note) \/ length < Points
  BY <1>1 DEF LengthsHeld
<1> QED
  BY <1>1, <1>4, <1>13, <1>14

-----------------------------------------------------------------------------
(* The inductive invariant of the copies: each has its cells in the part   *)
(* of the array that is in use, and a cell behind them.                    *)

Placed(k, x) ==
  /\ x.data \in Nat /\ x.len \in Nat /\ x.data + x.len + 1 <= cache_data_len
  /\ \A i \in 0..(x.len - 1) : cache_data[x.data + i] = k
  /\ x.end <= x.len + 1 /\ x.start <= x.end

Copies ==
  /\ cache_data_len \in Nat /\ cache_data_len <= CACHE_DATA_LEN
  /\ cache_data = [i \in 0..(CACHE_DATA_LEN + 1) |-> cache_data[i]]
  /\ cache_data[CACHE_DATA_LEN + 1] = None
  /\ \A k \in DOMAIN cache_hash_table :
       cache_hash_table[k].resampled # None => Placed(k, cache_hash_table[k].resampled)

ChannelsTyped ==
  /\ program \in [Channels -> DOMAIN Instrument] /\ key_shift \in [Channels -> {0, 1}]
  /\ drum \in [Channels -> BOOLEAN]
References == [ch: Channels, a: Notes, sp: Samples]
CacheTyped ==
  /\ \A s \in Samples : sample[s] \in Shape[s]
  /\ refer \in Seq(References)
  /\ ChannelsTyped
  /\ DOMAIN cache_hash_table \subseteq Keys /\ array \subseteq Keys

Intact == Grounded /\ CacheTyped /\ (LoopsInside /\ LengthsHeld => Copies)

LEMMA IntactData == LoopsInside /\ Intact => DataIntact
BY DEF Intact, Copies, Placed, DataIntact

LEMMA BeginsIntact == CacheInit => Intact
<1> SUFFICES ASSUME CacheInit PROVE Intact
  OBVIOUS
<1>1. Grounded
  BY CacheBegins
<1>2. DOMAIN cache_hash_table = {}
  BY TableEmpty DEF CacheInit
<1>3. CacheTyped
  <2>1. \A s \in Samples : sample[s] \in Shape[s]
    BY DEF CacheInit
  <2>2. ChannelsTyped
    BY CacheAssumption DEF CacheInit, ChannelsTyped
  <2>3. refer \in Seq(References) /\ array = {}
    BY DEF CacheInit
  <2> QED
    BY <1>2, <2>1, <2>2, <2>3 DEF CacheTyped
<1>4. Copies
  <2>1. cache_data = [i \in 0..(CACHE_DATA_LEN + 1) |-> None] /\ cache_data_len = 0
    BY DEF CacheInit
  <2>2. CACHE_DATA_LEN + 1 \in 0..(CACHE_DATA_LEN + 1) /\ 0 <= CACHE_DATA_LEN
    BY CacheAssumption
  <2>3. cache_data[CACHE_DATA_LEN + 1] = None
    BY <2>1, <2>2
  <2> QED
    BY <1>2, <2>1, <2>2, <2>3 DEF Copies
<1> QED
  BY <1>1, <1>3, <1>4 DEF Intact

(* The table afterwards has no copy it did not have. *)
NoNewCopy ==
  /\ cache_data' = cache_data /\ cache_data_len' = cache_data_len
  /\ \A k \in DOMAIN cache_hash_table' :
       cache_hash_table'[k].resampled # None =>
         /\ k \in DOMAIN cache_hash_table
         /\ cache_hash_table'[k].resampled = cache_hash_table[k].resampled

LEMMA CopiesStay ==
  ASSUME Copies, NoNewCopy
  PROVE  Copies'
BY DEF Copies, NoNewCopy, Placed

LEMMA PressedNote ==
  ASSUME CacheTyped, NEW ch \in Channels, NEW a \in Notes
  PROVE  Pressed(ch, a) \in Notes
<1>1. NoteCount \in Nat \ {0} /\ a \in Nat
  BY CacheAssumption DEF Notes
<1>2. Shift[ch] \in {0, 1}
  BY DEF CacheTyped, ChannelsTyped, Shift
<1>3. \A i \in Nat : i % NoteCount \in 0..(NoteCount - 1)
  BY <1>1, SMT
<1>4. a + Shift[ch] \in Nat
  BY <1>1, <1>2
<1> QED
  BY <1>3, <1>4 DEF Pressed, Notes

LEMMA ReferOnCopies ==
  ASSUME Grounded, CacheTyped, ReferOn
  PROVE  NoNewCopy /\ DOMAIN cache_hash_table' \subseteq Keys /\ array' = array
<1> DEFINE ch == Head(refer).ch
           note == Pressed(ch, Head(refer).a)
           k == [sp |-> Head(refer).sp, note |-> note]
           counted == CountedTable(cache_hash_table, channel_note_table, ch, note, now)
           new == [at |-> NewOne, cnt |-> 0, resampled |-> None]
<1>1. /\ refer # <<>> /\ cache_data' = cache_data /\ cache_data_len' = cache_data_len
      /\ array' = array
  BY DEF ReferOn, Referred, data_vars
<1>2. \/ cache_hash_table' = counted
      \/ cache_hash_table' =
             [q \in {k} \cup DOMAIN counted |-> IF q = k THEN new ELSE counted[q]]
  BY DEF ReferOn
<1>3. k \in Keys
  <2>1. Head(refer) \in References
    BY <1>1 DEF CacheTyped
  <2>2. Head(refer).ch \in Channels /\ Head(refer).a \in Notes /\ Head(refer).sp \in Samples
    BY <2>1 DEF References
  <2>3. note \in Notes
    BY <2>2, PressedNote
  <2> QED
    BY <2>2, <2>3 DEF Keys
<1>4. SameCopies(counted, cache_hash_table)
  <2>1. Table(cache_hash_table, segments)
    BY DEF Grounded
  <2> HIDE DEF ch, note, k
  <2> QED
    BY <2>1, CountedKeeps
<1>5. new.resampled = None
  OBVIOUS
<1> HIDE DEF ch, note, k, counted, new
<1>6. DOMAIN cache_hash_table' \subseteq Keys
  BY <1>2, <1>3, <1>4 DEF CacheTyped, SameCopies
<1>7. \A q \in DOMAIN cache_hash_table' :
        cache_hash_table'[q].resampled # None =>
          /\ q \in DOMAIN cache_hash_table
          /\ cache_hash_table'[q].resampled = cache_hash_table[q].resampled
  BY <1>2, <1>4, <1>5 DEF SameCopies
<1> QED
  BY <1>1, <1>6, <1>7 DEF NoNewCopy

LEMMA EventCopies ==
  ASSUME Grounded, CacheTyped, UNCHANGED data_vars,
         \/ UNCHANGED table_vars
         \/ \E chs : ReferAllOff(chs)
         \/ \E ch, note : ReferOff(ch, note)
  PROVE  NoNewCopy /\ DOMAIN cache_hash_table' \subseteq Keys /\ array' = array
<1>1. cache_data' = cache_data /\ cache_data_len' = cache_data_len /\ array' = array
  BY DEF data_vars
<1>3. Table(cache_hash_table, segments)
  BY DEF Grounded
<1>2. SameCopies(cache_hash_table', cache_hash_table)
  <2>1. CASE UNCHANGED table_vars
    BY <2>1 DEF table_vars, SameCopies
  <2>2. ASSUME NEW chs, ReferAllOff(chs)
        PROVE  SameCopies(cache_hash_table', cache_hash_table)
    <3>1. cache_hash_table' = AllCounted(cache_hash_table, chs, now')
      BY <2>2 DEF ReferAllOff, AllCounted
    <3> QED
      BY <1>3, <3>1, AllCountedKeeps
  <2>3. ASSUME NEW ch, NEW note, ReferOff(ch, note)
        PROVE  SameCopies(cache_hash_table', cache_hash_table)
    <3>1. cache_hash_table' =
            CountedTable(cache_hash_table, channel_note_table, ch, note, now')
      BY <2>3 DEF ReferOff
    <3> QED
      BY <1>3, <3>1, CountedKeeps
  <2> QED
    BY <2>1, <2>2, <2>3
<1> QED
  BY <1>1, <1>2 DEF NoNewCopy, CacheTyped, SameCopies

LEMMA DropCopies ==
  ASSUME CacheTyped, NEW K, K \subseteq DOMAIN cache_hash_table,
         cache_hash_table' = [k \in K |-> cache_hash_table[k]],
         cache_data' = cache_data, cache_data_len' = cache_data_len
  PROVE  NoNewCopy /\ DOMAIN cache_hash_table' \subseteq Keys
BY DEF NoNewCopy, CacheTyped

(* cache_resampling() writes behind all copies, and inside the array. *)
LEMMA CellsBehind ==
  ASSUME NEW k, NEW x, Sane(x), x.len > 0, cache_data_len \in Nat
  PROVE  /\ \A i \in 0..(x.len - 1) : cache_data_len + i \in Cells(k, x)
         /\ \A i \in Cells(k, x) :
              i \in Nat /\ cache_data_len <= i /\ i <= cache_data_len + x.len + 1
<1> DEFINE mix == IF sample[k.sp].loops
                  THEN Least(MIXLEN, Least(x.start, x.end - x.start)) ELSE 0
           I == 0..(x.len - 1) \cup (x.end - mix)..(x.end - 1) \cup {x.end}
<1>1. /\ x.start \in Nat /\ x.end \in Nat /\ x.len \in Nat
      /\ x.start <= x.end /\ x.end <= x.len + 1
  BY DEF Sane
<1>2. mix \in Nat /\ mix <= x.end
  <2>1. x.end - x.start \in Nat /\ x.end - x.start <= x.end
    BY <1>1
  <2>2. Least(x.start, x.end - x.start) \in Nat /\ Least(x.start, x.end - x.start) <= x.end
    BY <1>1, <2>1 DEF Least
  <2>3. MIXLEN \in Nat
    BY CacheAssumption
  <2>4. /\ Least(MIXLEN, Least(x.start, x.end - x.start)) \in Nat
        /\ Least(MIXLEN, Least(x.start, x.end - x.start)) <= x.end
    <3> DEFINE y == Least(x.start, x.end - x.start)
    <3>1. y \in Nat /\ y <= x.end
      BY <2>2
    <3> HIDE DEF y
    <3>2. Least(MIXLEN, y) \in Nat /\ Least(MIXLEN, y) <= x.end
      BY <1>1, <2>3, <3>1 DEF Least
    <3> QED
      BY <3>2 DEF y
  <2> QED
    BY <1>1, <2>4
<1>3. Cells(k, x) = {cache_data_len + i : i \in I}
  BY DEF Cells
<1> HIDE DEF mix
<1>4. \A i \in I : i \in Nat /\ i <= x.len + 1
  BY <1>1, <1>2
<1>5. \A i \in 0..(x.len - 1) : i \in I
  OBVIOUS
<1> HIDE DEF I
<1> QED
  BY <1>1, <1>3, <1>4, <1>5

LEMMA CacheResamplingCopies ==
  ASSUME LoopsInside, LengthsHeld, Intact, NEW k \in array, CacheResampling(k)
  PROVE  Copies' /\ DOMAIN cache_hash_table' \subseteq Keys /\ array' \subseteq Keys
<1> DEFINE x == Copied(k)
           y == Copy(x)
<1>1. /\ Fits(x)
      /\ NewSegmentIn(hash_entry_pool, SAMPLE)
      /\ cache_data' = [i \in DOMAIN cache_data |->
                          IF i \in Cells(k, x) THEN k ELSE cache_data[i]]
      /\ cache_hash_table' = [cache_hash_table EXCEPT ![k].resampled = y]
      /\ cache_data_len' = cache_data_len + x.len + 1
      /\ array' = array \ {k}
  BY DEF CacheResampling, Copy
<1>2. Sane(x)
  <2>1. k \in Keys
    BY DEF Intact, CacheTyped
  <2>2. k.sp \in Samples /\ k.note \in Notes
    BY <2>1 DEF Keys
  <2>3. sample[k.sp] \in Shape[k.sp] /\ sample[k.sp].note_to_use \in Notes
    BY <2>2, CacheAssumption DEF Intact, CacheTyped
  <2> QED
    BY <2>2, <2>3, InfoSane DEF Copied
<1>3. /\ y.at = NewOne /\ y.data = cache_data_len
      /\ y.start = x.start /\ y.end = x.end /\ y.len = x.len
  BY DEF Copy
<1> HIDE DEF x, y
<1>4. x.start \in Nat /\ x.end \in Nat /\ x.len \in Nat /\ x.start <= x.end /\ x.end <= x.len + 1
  BY <1>2 DEF Sane
<1>5. /\ cache_data_len \in Nat /\ CACHE_DATA_LEN \in Nat
      /\ x.len > 0 /\ cache_data_len + x.len + 1 <= CACHE_DATA_LEN
  BY <1>1, <1>4, CacheAssumption DEF Fits, Intact, Copies
<1>6. /\ \A i \in 0..(x.len - 1) : cache_data_len + i \in Cells(k, x)
      /\ \A i \in Cells(k, x) :
           i \in Nat /\ cache_data_len <= i /\ i <= cache_data_len + x.len + 1
  BY <1>2, <1>5, CellsBehind
<1>7. DOMAIN cache_data = 0..(CACHE_DATA_LEN + 1)
  BY DEF Intact, Copies
<1>8. /\ DOMAIN cache_hash_table' = DOMAIN cache_hash_table
      /\ \A q \in DOMAIN cache_hash_table :
           cache_hash_table'[q].resampled =
             IF q = k THEN y ELSE cache_hash_table[q].resampled
  <2>1. /\ Inductive' /\ segments \subseteq segments' /\ Held(NewOne, segments')
    BY <1>1, SegmentHeld, CacheAssumption DEF Intact, Grounded
  <2>2. Table(cache_hash_table, segments')
    BY <2>1, TableGrows DEF Intact, Grounded
  <2>3. Held(y.at, segments')
    BY <1>3, <2>1
  <2> QED
    BY <1>1, <2>2, <2>3, TableCopies
<1>9. cache_data_len' \in Nat /\ cache_data_len' <= CACHE_DATA_LEN
  BY <1>1, <1>4, <1>5
<1>10. \A i \in 0..(CACHE_DATA_LEN + 1) :
         cache_data'[i] = IF i \in Cells(k, x) THEN k ELSE cache_data[i]
  BY <1>1, <1>7
<1>11. cache_data' = [i \in 0..(CACHE_DATA_LEN + 1) |-> cache_data'[i]]
  BY <1>1, <1>7
<1>12. cache_data'[CACHE_DATA_LEN + 1] = None
  <2>1. CACHE_DATA_LEN + 1 \in 0..(CACHE_DATA_LEN + 1)
    BY <1>5
  <2>2. CACHE_DATA_LEN + 1 \notin Cells(k, x)
    BY <1>4, <1>5, <1>6
  <2> QED
    BY <1>10, <2>1, <2>2 DEF Intact, Copies
<1>13. ASSUME NEW q \in DOMAIN cache_hash_table, q # k,
              cache_hash_table[q].resampled # None
       PROVE  Placed(q, cache_hash_table[q].resampled)'
  <2> DEFINE z == cache_hash_table[q].resampled
  <2>1. Placed(q, z)
    BY <1>13 DEF Intact, Copies
  <2>2. z.data \in Nat /\ z.len \in Nat /\ z.data + z.len + 1 <= cache_data_len
    BY <2>1 DEF Placed
  <2>3. cache_hash_table'[q].resampled = z
    BY <1>8, <1>13
  <2> HIDE DEF z
  <2>4. ASSUME NEW i \in 0..(z.len - 1)
        PROVE  cache_data'[z.data + i] = q
    <3>1. z.data + i \in 0..(CACHE_DATA_LEN + 1) /\ z.data + i < cache_data_len
      BY <1>4, <1>5, <2>2
    <3>2. z.data + i \notin Cells(k, x)
      BY <1>5, <1>6, <3>1
    <3>3. cache_data[z.data + i] = q
      BY <2>1 DEF Placed
    <3> QED
      BY <1>10, <3>1, <3>2, <3>3
  <2>5. z.data + z.len + 1 <= cache_data_len'
    BY <1>1, <1>4, <1>5, <2>2
  <2>6. z.end <= z.len + 1 /\ z.start <= z.end
    BY <2>1 DEF Placed
  <2> QED
    BY <2>2, <2>3, <2>4, <2>5, <2>6 DEF Placed
<1>14. ASSUME k \in DOMAIN cache_hash_table
       PROVE  Placed(k, cache_hash_table[k].resampled)'
  <2>1. cache_hash_table'[k].resampled = y
    BY <1>8, <1>14
  <2>2. y.data \in Nat /\ y.len \in Nat /\ y.data + y.len + 1 <= cache_data_len'
    BY <1>1, <1>3, <1>4, <1>5
  <2>3. ASSUME NEW i \in 0..(y.len - 1)
        PROVE  cache_data'[y.data + i] = k
    <3>1. i \in 0..(x.len - 1) /\ y.data + i = cache_data_len + i
      BY <1>3
    <3>2. cache_data_len + i \in Cells(k, x)
      BY <1>6, <3>1
    <3>3. cache_data_len + i \in 0..(CACHE_DATA_LEN + 1)
      BY <1>4, <1>5, <3>1
    <3> QED
      BY <1>10, <3>1, <3>2, <3>3
  <2>4. y.end <= y.len + 1 /\ y.start <= y.end
    BY <1>3, <1>4
  <2> QED
    BY <2>1, <2>2, <2>3, <2>4 DEF Placed
<1>15. \A q \in DOMAIN cache_hash_table' :
         cache_hash_table'[q].resampled # None => Placed(q, cache_hash_table[q].resampled)'
  <2> SUFFICES ASSUME NEW q \in DOMAIN cache_hash_table', cache_hash_table'[q].resampled # None
               PROVE  Placed(q, cache_hash_table[q].resampled)'
    OBVIOUS
  <2>1. CASE q = k
    BY <1>8, <1>14, <2>1
  <2>2. CASE q # k
    BY <1>8, <1>13, <2>2
  <2> QED
    BY <2>1, <2>2
<1>16. Copies'
  BY <1>9, <1>11, <1>12, <1>15 DEF Copies
<1> QED
  BY <1>1, <1>8, <1>16 DEF Intact, CacheTyped

LEMMA TypesStay ==
  ASSUME CacheTyped, sample' = sample,
         refer' \in Seq(References),
         ChannelsTyped',
         DOMAIN cache_hash_table' \subseteq Keys, array' \subseteq Keys
  PROVE  CacheTyped'
BY DEF CacheTyped

LEMMA ReferTail ==
  ASSUME CacheTyped, refer # <<>>
  PROVE  Tail(refer) \in Seq(References)
BY DEF CacheTyped

LEMMA NotesReferred ==
  ASSUME CacheTyped, NEW ch \in Channels, NEW a \in Notes
  PROVE  /\ Played(ch, a) \in Seq(Samples)
         /\ [i \in 1..Len(Played(ch, a)) |->
               [ch |-> ch, a |-> a, sp |-> Played(ch, a)[i]]] \in Seq(References)
<1> DEFINE s == Played(ch, a)
           r == [i \in 1..Len(s) |-> [ch |-> ch, a |-> a, sp |-> s[i]]]
<1>1. program[ch] \in DOMAIN Instrument
  BY DEF CacheTyped, ChannelsTyped
<1>2. s \in Seq(Samples)
  BY <1>1, CacheAssumption DEF Played
<1> HIDE DEF s
<1>3. Len(s) \in Nat /\ \A i \in 1..Len(s) : s[i] \in Samples
  BY <1>2
<1>4. \A i \in 1..Len(s) : [ch |-> ch, a |-> a, sp |-> s[i]] \in References
  BY <1>3 DEF References
<1>5. r \in [1..Len(s) -> References]
  BY <1>4
<1>6. \A n \in Nat : \A f \in [1..n -> References] : f \in Seq(References)
  OBVIOUS
<1> HIDE DEF r
<1>7. r \in Seq(References)
  BY <1>3, <1>5, <1>6
<1> QED
  BY <1>2, <1>7 DEF r, s

LEMMA ChannelsSame ==
  ASSUME ChannelsTyped, UNCHANGED channel_vars
  PROVE  ChannelsTyped'
BY DEF ChannelsTyped, channel_vars

LEMMA ChannelsReset ==
  ASSUME ResetMidi, drum' \in [Channels -> BOOLEAN]
  PROVE  ChannelsTyped'
BY CacheAssumption DEF ChannelsTyped, ResetMidi

LEMMA LengthsStay ==
  ASSUME sample' = sample
  PROVE  LengthsHeld' => LengthsHeld
BY DEF LengthsHeld, TooLong, Length, LoopStart, LoopEnd, Scaled

(* A step in which the table only changes as the rest allows *)
LEMMA CopiesKept ==
  ASSUME Intact, Grounded', sample' = sample,
         refer' \in Seq(References),
         ChannelsTyped',
         NoNewCopy, DOMAIN cache_hash_table' \subseteq Keys, array' \subseteq Keys
  PROVE  Intact'
BY TypesStay, CopiesStay, LengthsStay DEF Intact

LEMMA TablesSame ==
  ASSUME CacheTyped, UNCHANGED table_vars, cache_data' = cache_data,
         cache_data_len' = cache_data_len
  PROVE  NoNewCopy /\ DOMAIN cache_hash_table' \subseteq Keys
BY DEF NoNewCopy, CacheTyped, table_vars

Sound == refer \in Seq(References) /\ ChannelsTyped
LEMMA SoundNow == ASSUME Intact PROVE Sound /\ CacheTyped /\ Grounded /\ array \subseteq Keys
BY DEF Intact, CacheTyped, Sound

(* The events of the prescan *)
LEMMA EventIntact ==
  ASSUME Intact, Grounded', Event,
         \/ \E ch \in Channels, a \in Notes : NoteOn(ch, a) \/ NoteOff(ch, a)
         \/ \E ch \in Channels : AllOff(ch) \/ \E b \in {0, 1} : KeyShift(ch, b)
         \/ \E ch \in Channels, p \in DOMAIN Instrument, part \in BOOLEAN : Program(ch, p, part)
         \/ Reset
  PROVE  Intact'
<1>1. sample' = sample /\ UNCHANGED data_vars
  BY DEF Event
<1>2. SUFFICES /\ Sound'
               /\ \/ UNCHANGED table_vars
                  \/ \E chs : ReferAllOff(chs)
                  \/ \E ch, note : ReferOff(ch, note)
  <2> SUFFICES ASSUME Sound',
                      \/ UNCHANGED table_vars
                      \/ \E chs : ReferAllOff(chs)
                      \/ \E ch, note : ReferOff(ch, note)
               PROVE  Intact'
    OBVIOUS
  <2>1. NoNewCopy /\ DOMAIN cache_hash_table' \subseteq Keys /\ array' \subseteq Keys
    BY <1>1, EventCopies, SoundNow
  <2> QED
    BY <1>1, <2>1, CopiesKept DEF Sound
<1>3. Sound /\ CacheTyped
  BY SoundNow
<1>4. ASSUME NEW ch \in Channels, NEW a \in Notes, NoteOn(ch, a)
      PROVE  Sound' /\ UNCHANGED table_vars
  <2>1. refer' \in Seq(References)
    BY <1>3, <1>4, NotesReferred DEF NoteOn
  <2>2. UNCHANGED channel_vars /\ UNCHANGED table_vars
    BY <1>4 DEF NoteOn, Event
  <2> QED
    BY <1>3, <2>1, <2>2, ChannelsSame DEF Sound
<1>5. ASSUME NEW ch \in Channels, NEW a \in Notes, NoteOff(ch, a)
      PROVE  Sound' /\ ReferOff(ch, Pressed(ch, a))
  <2>1. UNCHANGED channel_vars /\ refer' = refer
    BY <1>5 DEF NoteOff
  <2>2. ReferOff(ch, Pressed(ch, a))
    BY <1>5 DEF NoteOff
  <2> QED
    BY <1>3, <2>1, <2>2, ChannelsSame DEF Sound
<1>6. ASSUME NEW ch \in Channels, AllOff(ch)
      PROVE  Sound' /\ ReferAllOff({ch})
  <2>1. UNCHANGED channel_vars /\ refer' = refer
    BY <1>6 DEF AllOff
  <2>2. ReferAllOff({ch})
    BY <1>6 DEF AllOff
  <2> QED
    BY <1>3, <2>1, <2>2, ChannelsSame DEF Sound
<1>7. ASSUME NEW ch \in Channels, NEW b \in {0, 1}, KeyShift(ch, b)
      PROVE  Sound' /\ ReferAllOff({ch})
  <2>1. /\ program' = program /\ drum' = drum /\ refer' = refer
        /\ key_shift' = [key_shift EXCEPT ![ch] = b]
    BY <1>7 DEF KeyShift
  <2>2. ReferAllOff({ch})
    BY <1>7 DEF KeyShift
  <2>3. ChannelsTyped'
    BY <1>3, <2>1 DEF CacheTyped, ChannelsTyped
  <2> QED
    BY <1>3, <2>1, <2>2, <2>3 DEF Sound
<1>8. ASSUME NEW ch \in Channels, NEW p \in DOMAIN Instrument, NEW part \in BOOLEAN,
             Program(ch, p, part)
      PROVE  Sound' /\ UNCHANGED table_vars
  <2>1. /\ program' = [program EXCEPT ![ch] = p] /\ drum' = [drum EXCEPT ![ch] = part]
        /\ refer' = refer /\ key_shift' = key_shift
    BY <1>8 DEF Program
  <2>2. UNCHANGED table_vars
    BY <1>8 DEF Program
  <2>3. ChannelsTyped'
    BY <1>3, <2>1 DEF CacheTyped, ChannelsTyped
  <2> QED
    BY <1>3, <2>1, <2>2, <2>3 DEF Sound
<1>9. CASE Reset
  <2>1. ResetMidi /\ drum' = drum /\ refer' = refer /\ UNCHANGED table_vars
    BY <1>9 DEF Reset
  <2>2. drum' \in [Channels -> BOOLEAN]
    BY <1>3, <2>1 DEF Sound, ChannelsTyped
  <2>3. Sound'
    BY <1>3, <2>1, <2>2, ChannelsReset DEF Sound
  <2> QED
    BY <2>1, <2>3
<1> QED
  BY <1>4, <1>5, <1>6, <1>7, <1>8, <1>9

LEMMA IntactStep == Intact /\ [CacheNext]_cache_vars => Intact'
<1> SUFFICES ASSUME Intact, [CacheNext]_cache_vars PROVE Intact'
  OBVIOUS
<1>1. /\ Grounded' /\ Grounded /\ CacheTyped /\ (LoopsInside /\ LengthsHeld => Copies)
      /\ Sound /\ array \subseteq Keys
  BY CacheStep, SoundNow DEF Intact
<1>2. CASE StartPrescan
  <2>1. /\ sample' = sample /\ refer' = refer /\ array' = array
        /\ ResetMidi /\ drum' \in [Channels -> BOOLEAN]
        /\ cache_data' = cache_data /\ cache_data_len' = 0 /\ cache_hash_table' = <<>>
    BY <1>2 DEF StartPrescan, ResampCacheReset, ClearTables
  <2>2. DOMAIN cache_hash_table' = {}
    BY <2>1, TableEmpty
  <2>3. CacheTyped'
    BY <1>1, <2>1, <2>2, ChannelsReset, TypesStay DEF Sound
  <2>4. LoopsInside /\ LengthsHeld' => Copies'
    <3>1. LengthsHeld' => LengthsHeld
      BY <2>1, LengthsStay
    <3> QED
      BY <1>1, <2>1, <2>2, <3>1, CacheAssumption DEF Copies
  <2> QED
    BY <1>1, <2>3, <2>4 DEF Intact
<1>3. ASSUME sample' = sample, refer' = refer, array' = array,
             UNCHANGED channel_vars,
             UNCHANGED table_vars, cache_data' = cache_data, cache_data_len' = cache_data_len
      PROVE  Intact'
  BY <1>1, <1>3, TablesSame, ChannelsSame, CopiesKept DEF Sound
<1>4. CASE ReferOnNothing
  <2>1. /\ refer # <<>> /\ refer' = Tail(refer) /\ sample' = sample
        /\ UNCHANGED channel_vars /\ array' = array
        /\ UNCHANGED table_vars /\ cache_data' = cache_data /\ cache_data_len' = cache_data_len
    BY <1>4 DEF ReferOnNothing, Referred, song_vars, data_vars
  <2>2. refer' \in Seq(References)
    BY <1>1, <2>1, ReferTail
  <2> QED
    BY <1>1, <2>1, <2>2, TablesSame, ChannelsSame, CopiesKept DEF Sound
<1>5. CASE ReferOn
  <2>1. /\ refer # <<>> /\ refer' = Tail(refer) /\ sample' = sample
        /\ UNCHANGED channel_vars
    BY <1>5 DEF ReferOn, Referred, song_vars
  <2>2. refer' \in Seq(References)
    BY <1>1, <2>1, ReferTail
  <2>3. NoNewCopy /\ DOMAIN cache_hash_table' \subseteq Keys /\ array' = array
    BY <1>1, <1>5, ReferOnCopies
  <2> QED
    BY <1>1, <2>1, <2>2, <2>3, ChannelsSame, CopiesKept DEF Sound
<1>6. CASE Reset
  <2>1. Event
    BY <1>6 DEF Reset
  <2> QED
    BY <1>1, <1>6, <2>1, EventIntact
<1>7. ASSUME NEW ch \in Channels, NEW a \in Notes, NoteOn(ch, a) \/ NoteOff(ch, a)
      PROVE  Intact'
  <2>1. Event
    BY <1>7 DEF NoteOn, NoteOff
  <2> QED
    BY <1>1, <1>7, <2>1, EventIntact
<1>8. ASSUME NEW ch \in Channels, AllOff(ch) \/ \E b \in {0, 1} : KeyShift(ch, b)
      PROVE  Intact'
  <2>1. Event
    BY <1>8 DEF AllOff, KeyShift
  <2> QED
    BY <1>1, <1>8, <2>1, EventIntact
<1>9. ASSUME NEW ch \in Channels, NEW p \in DOMAIN Instrument, NEW part \in BOOLEAN,
             Program(ch, p, part)
      PROVE  Intact'
  <2>1. Event
    BY <1>9 DEF Program
  <2> QED
    BY <1>1, <1>9, <2>1, EventIntact
<1>10. CASE EndOfTrack
  <2>1. /\ ReferAllOff(Channels) /\ UNCHANGED data_vars /\ sample' = sample
        /\ refer' = refer /\ ResetMidi /\ drum' = drum
    BY <1>10 DEF EndOfTrack
  <2>2. NoNewCopy /\ DOMAIN cache_hash_table' \subseteq Keys /\ array' = array
    BY <1>1, <2>1, EventCopies
  <2>3. ChannelsTyped'
    BY <1>1, <2>1, ChannelsReset DEF Sound, ChannelsTyped
  <2> QED
    BY <1>1, <2>1, <2>2, <2>3, CopiesKept DEF Sound
<1>11. CASE CreateBegin
  <2> DEFINE kept == {k \in DOMAIN cache_hash_table : Worth(k, cache_hash_table)}
  <2>1. /\ cache_hash_table' = [k \in kept |-> cache_hash_table[k]] /\ array' = kept
        /\ cache_data' = cache_data /\ cache_data_len' = cache_data_len /\ sample' = sample
        /\ refer' = refer /\ UNCHANGED channel_vars
    BY <1>11 DEF CreateBegin
  <2>2. kept \subseteq DOMAIN cache_hash_table /\ kept \subseteq Keys
    BY <1>1 DEF CacheTyped
  <2> HIDE DEF kept
  <2>3. NoNewCopy /\ DOMAIN cache_hash_table' \subseteq Keys /\ array' \subseteq Keys
    BY <1>1, <2>1, <2>2, DropCopies
  <2> QED
    BY <1>1, <2>1, <2>3, ChannelsSame, CopiesKept DEF Sound
<1>12. CASE CreateEnd
  <2> DEFINE K == {q \in DOMAIN cache_hash_table : cache_hash_table[q].resampled # None}
  <2>1. /\ cache_hash_table' = [k \in K |-> cache_hash_table[k]] /\ array' = array
        /\ cache_data' = cache_data /\ cache_data_len' = cache_data_len /\ sample' = sample
        /\ refer' = refer /\ ResetMidi /\ drum' = drum
    BY <1>12 DEF CreateEnd
  <2>2. K \subseteq DOMAIN cache_hash_table
    OBVIOUS
  <2> HIDE DEF K
  <2>3. NoNewCopy /\ DOMAIN cache_hash_table' \subseteq Keys
    BY <1>1, <2>1, <2>2, DropCopies
  <2>4. ChannelsTyped'
    BY <1>1, <2>1, ChannelsReset DEF Sound, ChannelsTyped
  <2> QED
    BY <1>1, <2>1, <2>3, <2>4, CopiesKept DEF Sound
<1>13. ASSUME NEW k \in array, NotResampled(k)
       PROVE  Intact'
  <2>1. /\ array' = array \ {k} /\ UNCHANGED table_vars /\ sample' = sample
        /\ cache_data' = cache_data /\ cache_data_len' = cache_data_len
        /\ refer' = refer /\ UNCHANGED channel_vars
    BY <1>13 DEF NotResampled, song_vars
  <2>2. NoNewCopy /\ DOMAIN cache_hash_table' \subseteq Keys /\ array' \subseteq Keys
    BY <1>1, <2>1, TablesSame
  <2> QED
    BY <1>1, <2>1, <2>2, ChannelsSame, CopiesKept DEF Sound
<1>14. ASSUME NEW k \in array, CacheResampling(k)
       PROVE  Intact'
  <2>1. sample' = sample /\ refer' = refer /\ UNCHANGED channel_vars
    BY <1>14 DEF CacheResampling, song_vars
  <2>2. /\ LoopsInside /\ LengthsHeld => Copies'
        /\ DOMAIN cache_hash_table' \subseteq Keys /\ array' \subseteq Keys
    <3>1. LoopsInside /\ LengthsHeld => Copies'
      BY <1>14, CacheResamplingCopies
    <3>2. array' = array \ {k}
      BY <1>14 DEF CacheResampling
    <3>3. DOMAIN cache_hash_table' = DOMAIN cache_hash_table
      BY <1>14 DEF CacheResampling
    <3> QED
      BY <1>1, <3>1, <3>2, <3>3 DEF CacheTyped
  <2>3. CacheTyped'
    BY <1>1, <2>1, <2>2, ChannelsSame, TypesStay DEF Sound
  <2>4. LengthsHeld' => LengthsHeld
    BY <2>1, LengthsStay
  <2> QED
    BY <1>1, <2>2, <2>3, <2>4 DEF Intact
<1>15. ASSUME NEW ch \in Channels, NEW a \in Notes, NEW v \in Voices, PlayNote(ch, a, v)
       PROVE  Intact'
  <2>1. UNCHANGED <<sample, song_vars, refer, table_vars, data_vars>>
    BY <1>15 DEF PlayNote
  <2> QED
    BY <1>3, <2>1 DEF song_vars, data_vars
<1>16. ASSUME NEW v \in Voices, PlaySpecial(v) \/ VoiceChange(v)
       PROVE  Intact'
  <2>1. UNCHANGED <<sample, song_vars, refer, table_vars, data_vars>>
    BY <1>16 DEF PlaySpecial, VoiceChange
  <2> QED
    BY <1>3, <2>1 DEF song_vars, data_vars
<1>17. ASSUME NEW ch \in Channels, PlayChange(ch)
       PROVE  Intact'
  <2>1. UNCHANGED <<sample, refer, table_vars, data_vars>>
    BY <1>17 DEF PlayChange
  <2>2. \/ /\ \E p \in DOMAIN Instrument : program' = [program EXCEPT ![ch] = p]
           /\ \E part \in BOOLEAN : drum' = [drum EXCEPT ![ch] = part]
           /\ key_shift' = key_shift
        \/ /\ \E b \in {0, 1} : key_shift' = [key_shift EXCEPT ![ch] = b]
           /\ program' = program /\ drum' = drum
    BY <1>17 DEF PlayChange
  <2>3. ChannelsTyped'
    BY <1>1, <2>2 DEF Sound, ChannelsTyped
  <2>4. NoNewCopy /\ DOMAIN cache_hash_table' \subseteq Keys
    BY <1>1, <2>1, TablesSame DEF data_vars
  <2> QED
    BY <1>1, <2>1, <2>3, <2>4, CopiesKept DEF Sound, data_vars
<1>18. CASE EndSong
  <2>1. UNCHANGED <<sample, refer, table_vars, data_vars>>
    BY <1>18 DEF EndSong
  <2>2. ResetMidi /\ drum' \in [Channels -> BOOLEAN]
    BY <1>18 DEF EndSong
  <2>3. NoNewCopy /\ DOMAIN cache_hash_table' \subseteq Keys
    BY <1>1, <2>1, TablesSame DEF data_vars
  <2> QED
    BY <1>1, <2>1, <2>2, <2>3, ChannelsReset, CopiesKept DEF Sound, data_vars
<1>19. CASE OtherPools
  <2>1. UNCHANGED <<sample, song_vars, refer, table_vars, data_vars>>
    BY <1>19 DEF OtherPools
  <2> QED
    BY <1>3, <2>1 DEF song_vars, data_vars
<1>20. CASE UNCHANGED cache_vars
  <2>1. UNCHANGED <<sample, song_vars, refer, table_vars, data_vars>>
    BY <1>20 DEF cache_vars
  <2> QED
    BY <1>3, <2>1 DEF song_vars, data_vars
<1> QED
  BY <1>2, <1>4, <1>5, <1>6, <1>7, <1>8, <1>9, <1>10, <1>11, <1>12, <1>13,
     <1>14, <1>15, <1>16, <1>17, <1>18, <1>19, <1>20 DEF CacheNext

(* If no resampled length is too great for its splen_t, the copies of the  *)
(* cache keep their samples until the cache is reset, whatever is copied   *)
(* after them; the loop of a copy ends at most at the cell behind it, and  *)
(* nothing is written behind the array, though it is only known before the *)
(* copy is made that its samples and one more fit.                         *)
THEOREM CopiesIntact ==
  ASSUME LoopsInside
  PROVE  CacheSpec => []DataIntact
<1>1. Intact => DataIntact
  BY IntactData
<1> QED
  BY BeginsIntact, IntactStep, <1>1, PTL DEF CacheSpec

-----------------------------------------------------------------------------
(* Every nonempty set of natural numbers has a least element. *)
LEMMA LeastNatural ==
  ASSUME NEW T \in SUBSET Nat, T # {}
  PROVE  \E n \in T : \A m \in T : n <= m
<1>1. PICK n \in T : \A m \in T : <<m, n>> \notin OpToRel(<, Nat)
  BY NatLessThanWellFounded, WFMin
<1>2. \A m \in T : ~(m < n)
  BY <1>1 DEF OpToRel
<1> QED
  BY <1>2

-----------------------------------------------------------------------------
(* Sums.  The fold behind SumOf() is a recursive function on the subsets   *)
(* of the domain; g is that function on the sets T.                        *)
Chosen(s) == CHOOSE x \in s : TRUE
Adds(f, g, T) ==
  g = [s \in T |-> IF s = {} THEN 0 ELSE f[Chosen(s)] + g[s \ {Chosen(s)}]]
UpTo(D, n) == {s \in SUBSET D : Cardinality(s) <= n}

LEMMA Smaller ==
  ASSUME NEW D, IsFiniteSet(D), NEW s \in SUBSET D, NEW x \in s
  PROVE  /\ s \ {x} \in SUBSET D /\ Cardinality(s) \in Nat
         /\ Cardinality(s \ {x}) = Cardinality(s) - 1
         /\ Cardinality(s) > 0
<1>1. IsFiniteSet(s)
  BY FS_Subset
<1>2. Cardinality(s) \in Nat /\ Cardinality(s) # 0
  BY <1>1, FS_CardinalityType, FS_EmptySet
<1>3. Cardinality(s \ {x}) = Cardinality(s) - 1
  BY <1>1, FS_RemoveElement
<1> QED
  BY <1>2, <1>3

LEMMA SumStep ==
  ASSUME NEW f, IsFiniteSet(DOMAIN f), NEW n \in Nat,
         NEW g, Adds(f, g, UpTo(DOMAIN f, n))
  PROVE  \E h : Adds(f, h, UpTo(DOMAIN f, n + 1))
<1> DEFINE D == DOMAIN f
           h == [s \in UpTo(D, n + 1) |->
                   IF s = {} THEN 0 ELSE f[Chosen(s)] + g[s \ {Chosen(s)}]]
<1>1. ASSUME NEW s \in UpTo(D, n + 1), s # {}
      PROVE  s \ {Chosen(s)} \in UpTo(D, n)
  <2>1. Chosen(s) \in s
    BY <1>1 DEF Chosen
  <2>2. Cardinality(s) <= n + 1 /\ s \in SUBSET D
    BY DEF UpTo
  <2> QED
    BY <2>1, <2>2, Smaller DEF UpTo
<1>2. ASSUME NEW s \in UpTo(D, n)
      PROVE  s \in UpTo(D, n + 1) /\ g[s] = h[s]
  <2>1. s \in UpTo(D, n + 1)
    <3>1. Cardinality(s) \in Nat /\ Cardinality(s) <= n /\ s \in SUBSET D
      BY FS_Subset, FS_CardinalityType DEF UpTo
    <3> QED
      BY <3>1 DEF UpTo
  <2>2. g[s] = IF s = {} THEN 0 ELSE f[Chosen(s)] + g[s \ {Chosen(s)}]
    BY DEF Adds
  <2> QED
    BY <2>1, <2>2
<1>3. h = [s \in UpTo(D, n + 1) |->
             IF s = {} THEN 0 ELSE f[Chosen(s)] + h[s \ {Chosen(s)}]]
  <2>1. ASSUME NEW s \in UpTo(D, n + 1)
        PROVE  h[s] = IF s = {} THEN 0 ELSE f[Chosen(s)] + h[s \ {Chosen(s)}]
    <3>1. h[s] = IF s = {} THEN 0 ELSE f[Chosen(s)] + g[s \ {Chosen(s)}]
      OBVIOUS
    <3> HIDE DEF h
    <3> QED
      BY <1>1, <1>2, <3>1
  <2>2. h = [s \in UpTo(D, n + 1) |-> h[s]]
    OBVIOUS
  <2> HIDE DEF h
  <2> QED
    BY <2>1, <2>2
<1> HIDE DEF h
<1> QED
  BY <1>3 DEF Adds

LEMMA SumExists ==
  ASSUME NEW f, IsFiniteSet(DOMAIN f)
  PROVE  \E g : Adds(f, g, SUBSET DOMAIN f)
<1> DEFINE D == DOMAIN f
           Bad == {n \in Nat : ~\E g : Adds(f, g, UpTo(D, n))}
<1>1. \E g : Adds(f, g, UpTo(D, 0))
  <2>1. \A s \in UpTo(D, 0) : s = {}
    BY FS_Subset, FS_EmptySet, FS_CardinalityType DEF UpTo
  <2>2. Adds(f, [s \in UpTo(D, 0) |-> 0], UpTo(D, 0))
    BY <2>1 DEF Adds
  <2> QED
    BY <2>2
<1>2. Bad = {}
  <2> SUFFICES ASSUME Bad # {} PROVE FALSE
    OBVIOUS
  <2>1. PICK n \in Bad : \A m \in Bad : n <= m
    BY LeastNatural
  <2>2. n \in Nat /\ n # 0
    BY <1>1, <2>1
  <2>3. n - 1 \in Nat /\ n - 1 \notin Bad
    BY <2>1, <2>2
  <2>4. PICK g : Adds(f, g, UpTo(D, n - 1))
    BY <2>3
  <2>5. \E h : Adds(f, h, UpTo(D, (n - 1) + 1))
    BY <2>3, <2>4, SumStep
  <2> QED
    BY <2>1, <2>2, <2>5
<1>3. UpTo(D, Cardinality(D)) = SUBSET D /\ Cardinality(D) \in Nat
  BY FS_Subset, FS_CardinalityType DEF UpTo
<1> QED
  BY <1>2, <1>3

(* The order of a sum does not matter. *)
Sums(f, g) ==
  \A s \in SUBSET DOMAIN f : /\ g[s] \in Int
                             /\ s = {} => g[s] = 0
                             /\ \A x \in s : g[s] = f[x] + g[s \ {x}]
Numbers(f) == IsFiniteSet(DOMAIN f) /\ \A x \in DOMAIN f : f[x] \in Int
LEMMA SumOrder ==
  ASSUME NEW f, Numbers(f), NEW g, Adds(f, g, SUBSET DOMAIN f)
  PROVE  Sums(f, g)
<1> USE DEF Numbers
<1> DEFINE D == DOMAIN f
           Good(s) == /\ g[s] \in Int
                      /\ s = {} => g[s] = 0
                      /\ \A x \in s : g[s] = f[x] + g[s \ {x}]
           Bad == {n \in Nat : \E s \in SUBSET D : Cardinality(s) = n /\ ~Good(s)}
<1>1. \A s \in SUBSET D : g[s] = IF s = {} THEN 0 ELSE f[Chosen(s)] + g[s \ {Chosen(s)}]
  BY DEF Adds
<1>2. Bad = {}
  <2> SUFFICES ASSUME Bad # {} PROVE FALSE
    OBVIOUS
  <2>1. PICK n \in Bad : \A m \in Bad : n <= m
    BY LeastNatural
  <2>2. PICK s \in SUBSET D : Cardinality(s) = n /\ ~Good(s)
    BY <2>1
  <2>3. s # {}
    <3>1. g[{}] = 0
      BY <1>1
    <3>2. Good({})
      BY <3>1
    <3> HIDE DEF Good
    <3> QED
      BY <2>2, <3>2
  <2> DEFINE c == Chosen(s)
  <2>4. c \in s
    BY <2>3 DEF Chosen
  <2> HIDE DEF c
  <2>5. ASSUME NEW x \in s
        PROVE  s \ {x} \in SUBSET D /\ Good(s \ {x})
    <3>1. /\ s \ {x} \in SUBSET D /\ n \in Nat /\ n > 0
          /\ Cardinality(s \ {x}) = n - 1
      BY <2>2, Smaller
    <3>2. n - 1 \notin Bad
      BY <2>1, <3>1
    <3> HIDE DEF Good
    <3> QED
      BY <3>1, <3>2
  <2>6. g[s] = f[c] + g[s \ {c}] /\ f[c] \in Int /\ g[s \ {c}] \in Int
    BY <1>1, <2>3, <2>4, <2>5 DEF c
  <2>7. ASSUME NEW x \in s
        PROVE  g[s] = f[x] + g[s \ {x}]
    <3>1. CASE x = c
      BY <2>6, <3>1
    <3>2. CASE x # c
      <4> DEFINE r == (s \ {x}) \ {c}
      <4>1. x \in s \ {c} /\ c \in s \ {x} /\ (s \ {c}) \ {x} = r
        BY <2>4, <3>2
      <4>2. g[s \ {c}] = f[x] + g[r] /\ g[s \ {x}] = f[c] + g[r]
        <5>1. /\ g[s \ {c}] = f[x] + g[(s \ {c}) \ {x}]
              /\ g[s \ {x}] = f[c] + g[(s \ {x}) \ {c}]
          BY <2>4, <2>5, <4>1
        <5> QED
          BY <4>1, <5>1, Zenon
      <4>3. g[r] \in Int
        <5>1. Cardinality(s \ {x}) = n - 1 /\ n \in Nat /\ n > 0 /\ s \ {x} \in SUBSET D
          BY <2>2, Smaller
        <5>2. r \in SUBSET D /\ Cardinality(r) = n - 2 /\ n - 1 > 0
          BY <4>1, <5>1, Smaller
        <5>3. n - 2 \in Nat /\ n - 2 \notin Bad
          BY <2>1, <5>1, <5>2
        <5> HIDE DEF Good, r
        <5>4. Good(r)
          BY <5>2, <5>3
        <5> QED
          BY <5>2, <5>4 DEF Good
      <4>4. f[x] \in Int
        OBVIOUS
      <4> HIDE DEF r
      <4> QED
        BY <2>6, <4>2, <4>3, <4>4
    <3> QED
      BY <3>1, <3>2
  <2>8. g[s] \in Int
    BY <2>6
  <2>9. Good(s)
    BY <2>3, <2>7, <2>8
  <2> HIDE DEF Good
  <2> QED
    BY <2>2, <2>9
<1>3. ASSUME NEW s \in SUBSET D PROVE Good(s)
  <2>1. Cardinality(s) \in Nat
    BY FS_Subset, FS_CardinalityType
  <2> HIDE DEF Good
  <2> QED
    BY <1>2, <2>1
<1> QED
  BY <1>3 DEF Sums

LEMMA SumOfAdds ==
  ASSUME NEW f, IsFiniteSet(DOMAIN f)
  PROVE  \E g : Adds(f, g, SUBSET DOMAIN f) /\ SumOf(f) = g[DOMAIN f]
<1> DEFINE g == CHOOSE g : Adds(f, g, SUBSET DOMAIN f)
<1>1. Adds(f, g, SUBSET DOMAIN f)
  BY SumExists
<1>2. SumOf(f) = g[DOMAIN f]
  BY DEF SumOf, FoldFunction, FoldFunctionOnSet, MapThenFoldSet, Adds, Chosen
<1> QED
  BY <1>1, <1>2

LEMMA SumNone ==
  ASSUME NEW f, DOMAIN f = {}
  PROVE  SumOf(f) = 0
<1>1. IsFiniteSet(DOMAIN f)
  BY FS_EmptySet
<1>2. PICK g : Adds(f, g, SUBSET DOMAIN f) /\ SumOf(f) = g[DOMAIN f]
  BY <1>1, SumOfAdds
<1> QED
  BY <1>2 DEF Adds

LEMMA SumOne ==
  ASSUME NEW f, NEW x, DOMAIN f = {x}, f[x] \in Int
  PROVE  SumOf(f) = f[x]
<1>1. IsFiniteSet(DOMAIN f)
  BY FS_Singleton
<1>2. PICK g : Adds(f, g, SUBSET DOMAIN f) /\ SumOf(f) = g[DOMAIN f]
  BY <1>1, SumOfAdds
<1>3. Chosen({x}) = x /\ {x} \ {x} = {}
  BY DEF Chosen
<1>4. g[{}] = 0 /\ g[{x}] = f[x] + g[{}]
  BY <1>2, <1>3 DEF Adds
<1> QED
  BY <1>2, <1>4

LEMMA SumInt ==
  ASSUME NEW f, Numbers(f)
  PROVE  SumOf(f) \in Int /\ \E g : SumOf(f) = g[DOMAIN f] /\ Sums(f, g)
<1>1. PICK g : Adds(f, g, SUBSET DOMAIN f) /\ SumOf(f) = g[DOMAIN f]
  BY SumOfAdds DEF Numbers
<1>2. Sums(f, g)
  BY <1>1, SumOrder
<1>3. g[DOMAIN f] \in Int
  BY <1>2 DEF Sums
<1> QED
  BY <1>1, <1>2, <1>3

(* Sums of the same values are equal. *)
Image(b, s) == {b[x] : x \in s}
LEMMA SumSame ==
  ASSUME NEW f, NEW h, Numbers(f), Numbers(h),
         NEW b \in [DOMAIN f -> DOMAIN h],
         \A x, y \in DOMAIN f : b[x] = b[y] => x = y,
         \A y \in DOMAIN h : \E x \in DOMAIN f : b[x] = y,
         \A x \in DOMAIN f : f[x] = h[b[x]]
  PROVE  SumOf(f) = SumOf(h)
<1> DEFINE A == DOMAIN f
           B == DOMAIN h
<1>1. PICK g : SumOf(f) = g[A] /\ Sums(f, g)
  BY SumInt
<1>2. PICK e : SumOf(h) = e[B] /\ Sums(h, e)
  BY SumInt
<1>3. /\ \A s \in SUBSET A : (s = {} => g[s] = 0) /\ \A x \in s : g[s] = f[x] + g[s \ {x}]
      /\ \A s \in SUBSET B : (s = {} => e[s] = 0) /\ \A x \in s : e[s] = h[x] + e[s \ {x}]
  BY <1>1, <1>2 DEF Sums
<1>4. IsFiniteSet(A)
  BY DEF Numbers
<1> DEFINE Bad == {n \in Nat : \E s \in SUBSET A : Cardinality(s) = n /\ g[s] # e[Image(b, s)]}
<1>5. Bad = {}
  <2> SUFFICES ASSUME Bad # {} PROVE FALSE
    OBVIOUS
  <2>1. PICK n \in Bad : \A m \in Bad : n <= m
    BY LeastNatural
  <2>2. PICK s \in SUBSET A : Cardinality(s) = n /\ g[s] # e[Image(b, s)]
    BY <2>1
  <2>3. s # {}
    <3>1. Image(b, {}) = {}
      BY DEF Image
    <3> QED
      BY <1>3, <2>2, <3>1
  <2>4. PICK x \in s : TRUE
    BY <2>3
  <2>5. /\ s \ {x} \in SUBSET A /\ n \in Nat /\ n > 0
        /\ Cardinality(s \ {x}) = n - 1
    BY <1>4, <2>2, Smaller
  <2>6. g[s \ {x}] = e[Image(b, s \ {x})]
    <3>1. n - 1 \in Nat /\ n - 1 \notin Bad
      BY <2>1, <2>5
    <3> QED
      BY <2>5, <3>1
  <2>7. Image(b, s) \in SUBSET B /\ b[x] \in Image(b, s)
    BY DEF Image
  <2>8. Image(b, s) \ {b[x]} = Image(b, s \ {x})
    BY DEF Image
  <2>9. e[Image(b, s)] = h[b[x]] + e[Image(b, s \ {x})]
    <3>1. e[Image(b, s)] = h[b[x]] + e[Image(b, s) \ {b[x]}]
      BY <1>3, <2>7
    <3> QED
      BY <2>8, <3>1, Zenon
  <2>10. g[s] = f[x] + g[s \ {x}] /\ f[x] = h[b[x]]
    BY <1>3
  <2> QED
    BY <2>2, <2>6, <2>9, <2>10
<1>6. Image(b, A) = B
  BY DEF Image
<1>7. Cardinality(A) \in Nat
  BY <1>4, FS_CardinalityType
<1>8. g[A] = e[Image(b, A)]
  BY <1>5, <1>7
<1> QED
  BY <1>1, <1>2, <1>6, <1>8

-----------------------------------------------------------------------------
(* Whole turns of w do not change the remainder. *)
LEMMA TurnsVanish ==
  ASSUME NEW z \in Int, NEW w \in Nat \ {0}, NEW d \in Int
  PROVE  (z + w * d) % w = z % w
<1> DEFINE x == z + w * d
           p == z \div w
           r == z % w
           q == x \div w
           t == x % w
           e == p + d - q
<1>1. x \in Int
  OBVIOUS
<1>2. \A y \in Int : /\ y \div w \in Int /\ y % w \in Int /\ y = w * (y \div w) + (y % w)
                    /\ 0 <= (y % w) /\ (y % w) < w
  OBVIOUS
<1>3. p \in Int /\ r \in Int /\ z = w * p + r /\ 0 <= r /\ r < w
  BY <1>2
<1>4. q \in Int /\ t \in Int /\ z + w * d = w * q + t /\ 0 <= t /\ t < w
  <2> HIDE DEF x
  <2>1. q \in Int /\ t \in Int /\ x = w * q + t /\ 0 <= t /\ t < w
    BY <1>1, <1>2
  <2> QED
    BY <2>1 DEF x
<1> HIDE DEF x, p, r, q, t
<1>5. e \in Int /\ w * e = t - r
  BY <1>3, <1>4
<1> HIDE DEF e
<1>6. e >= 1 => w * e >= w
  BY <1>5
<1>7. e <= -1 => w * e <= -w
  BY <1>5
<1>8. e = 0 => t = r
  BY <1>3, <1>4, <1>5
<1> QED
  BY <1>3, <1>4, <1>5, <1>6, <1>7, <1>8 DEF t, r, x

(* Counts.  The int32 wraps, but adding up wrapped counts wraps as adding  *)
(* up the whole ones.                                                      *)
LEMMA WrappedSum ==
  ASSUME NEW x \in Int, NEW y \in Int
  PROVE  Wrapped(x) \in Int /\ Wrapped(Wrapped(x) + y) = Wrapped(x + y)
<1> DEFINE h == Word \div 2
           r == (x + h) % Word
           d == (x + h) \div Word
<1>1. Word \in Nat \ {0} /\ h \in Int
  BY CacheAssumption
<1> HIDE DEF h
<1>2. x + h \in Int /\ r \in Int /\ d \in Int /\ x + h = Word * d + r
  BY <1>1
<1>3. Wrapped(x) = r - h
  BY DEF Wrapped, h
<1> HIDE DEF r, d
<1>4. (r + y) % Word = (x + y + h) % Word
  <2>1. x + y + h = (r + y) + Word * d
    BY <1>1, <1>2
  <2>2. \A z \in Int : (z + Word * d) % Word = z % Word
    BY <1>1, <1>2, TurnsVanish
  <2> QED
    BY <1>2, <2>1, <2>2
<1>5. Wrapped(Wrapped(x) + y) = ((r + y) % Word) - h
  <2>1. r - h + y + h = r + y
    BY <1>1, <1>2
  <2> QED
    BY <1>3, <2>1 DEF Wrapped, h
<1> QED
  BY <1>1, <1>2, <1>3, <1>4, <1>5 DEF Wrapped, h

LEMMA WrappedNone == Wrapped(0) = 0
<1>1. Word \in Nat \ {0}
  BY CacheAssumption
<1>2. Word \div 2 \in Nat /\ Word \div 2 < Word
  BY <1>1
<1>3. \A h \in Nat : h < Word => h % Word = h
  BY <1>1
<1> QED
  BY <1>2, <1>3 DEF Wrapped

(* A key names its note, whatever its channel is shifted by. *)
LEMMA PressedOnce ==
  ASSUME NEW a \in Notes, NEW b \in Notes, NEW k \in {0, 1},
         (a + k) % NoteCount = (b + k) % NoteCount
  PROVE  a = b
<1>1. NoteCount \in Nat /\ a \in 0..NoteCount - 1 /\ b \in 0..NoteCount - 1
  BY CacheAssumption DEF Notes
<1>2. \A x \in 0..NoteCount : x % NoteCount = IF x < NoteCount THEN x ELSE 0
  <2>1. ASSUME NEW x \in 0..NoteCount - 1 PROVE x % NoteCount = x
    BY <1>1
  <2>2. NoteCount % NoteCount = 0
    BY <1>1
  <2> QED
    BY <1>1, <2>1, <2>2
<1> QED
  BY <1>1, <1>2

-----------------------------------------------------------------------------
(* What sounds, in the history of the prescan, is what the table of notes  *)
(* has on: one sound of a note, begun when the table says, by a key that   *)
(* is shifted to it.                                                       *)
Sounds == [ch: Channels, a: Notes, key: Keys, on: Nat]
Paired(S, f, shift, time) ==
  /\ S \subseteq Sounds /\ IsFiniteSet(S)
  /\ \A s \in S : /\ s.key.note = (s.a + shift[s.ch]) % NoteCount
                  /\ f[s.ch][s.key.note] = [key |-> s.key, on |-> s.on]
                  /\ s.on <= time
  /\ \A c \in Channels, n \in Notes :
       f[c][n] # Off => \E s \in S : s.ch = c /\ s.key.note = n
(* The counts of the table t are the times in h, wrapped. *)
CountsOf(t, h) ==
  /\ h \in [Keys -> Int]
  /\ \A k \in Keys : Wrapped(h[k]) = IF k \in DOMAIN t THEN t[k].cnt ELSE 0
ShiftOK(shift) == shift \in [Channels -> {0, 1}]

LEMMA ShiftedRight ==
  ASSUME CacheTyped
  PROVE  ShiftOK(Shift)
BY DEF CacheTyped, ChannelsTyped, ShiftOK, Shift

LEMMA KeyIsOn ==
  ASSUME NEW S, NEW f, NEW shift, NEW time, Paired(S, f, shift, time), NEW s \in S
  PROVE  /\ s.ch \in Channels /\ s.a \in Notes /\ s.key \in Keys /\ s.on \in Nat
         /\ s.key.note \in Notes /\ s.key.sp \in Samples /\ s.key # None
         /\ f[s.ch][s.key.note].key = s.key /\ f[s.ch][s.key.note].on = s.on
         /\ f[s.ch][s.key.note] # Off
<1>1. s \in Sounds /\ f[s.ch][s.key.note] = [key |-> s.key, on |-> s.on]
  BY DEF Paired
<1>2. s.ch \in Channels /\ s.a \in Notes /\ s.key \in Keys /\ s.on \in Nat
  BY <1>1 DEF Sounds
<1>3. None \notin Keys
  BY CacheAssumption DEF Keys
<1> QED
  BY <1>1, <1>2, <1>3 DEF Keys, Off

LEMMA OneSound ==
  ASSUME NEW S, NEW f, NEW shift, NEW time, Paired(S, f, shift, time), ShiftOK(shift),
         NEW s \in S, NEW t \in S, s.ch = t.ch, s.key.note = t.key.note
  PROVE  s = t
<1>1. /\ s \in Sounds /\ t \in Sounds
      /\ f[s.ch][s.key.note] = [key |-> s.key, on |-> s.on]
      /\ f[t.ch][t.key.note] = [key |-> t.key, on |-> t.on]
      /\ s.key.note = (s.a + shift[s.ch]) % NoteCount
      /\ t.key.note = (t.a + shift[t.ch]) % NoteCount
  BY DEF Paired
<1>2. s.key = t.key /\ s.on = t.on
  <2>1. [key |-> s.key, on |-> s.on] = [key |-> t.key, on |-> t.on]
    BY <1>1
  <2> QED
    BY <2>1
<1>3. s.a = t.a
  <2>1. s.a \in Notes /\ t.a \in Notes /\ shift[s.ch] \in {0, 1}
    BY <1>1 DEF Sounds, ShiftOK
  <2> QED
    <3>1. (s.a + shift[s.ch]) % NoteCount = (t.a + shift[s.ch]) % NoteCount
      BY <1>1
    <3> HIDE DEF Paired
    <3> QED
      BY <2>1, <3>1, PressedOnce
<1> QED
  BY <1>1, <1>2, <1>3 DEF Sounds

(* How long a sound was heard. *)
LEMMA LastedNumber ==
  ASSUME CacheTyped, NEW sp \in Samples, NEW note \in Notes, NEW len \in Int
  PROVE  Lasted(sp, note, len) \in Int
<1>1. sample[sp].dl \in Nat
  BY CacheAssumption DEF CacheTyped
<1>2. Step[note] \in Nat \ {0} /\ FRACTION \in Nat \ {0}
  BY CacheAssumption
<1>3. (sample[sp].dl \div FRACTION) * FRACTION \in Nat
  BY <1>1, <1>2, Quotient
<1>4. SoundLength(sp, note) \in Nat
  BY <1>2, <1>3, Quotient DEF SoundLength
<1> QED
  BY <1>4 DEF Lasted, Least

LEMMA HeardNone ==
  ASSUME NEW k, NEW ends, NEW time, \A s \in ends : s.key # k
  PROVE  Heard(k, ends, time) = 0
<1> DEFINE f == [s \in {s \in ends : s.key = k} |-> Lasted(k.sp, k.note, time - s.on)]
<1>1. DOMAIN f = {}
  OBVIOUS
<1>2. SumOf(f) = 0
  BY <1>1, SumNone
<1> QED
  BY <1>2 DEF Heard

LEMMA HeardOne ==
  ASSUME CacheTyped, NEW s \in Sounds, NEW time \in Int
  PROVE  Heard(s.key, {s}, time) = Lasted(s.key.sp, s.key.note, time - s.on)
<1> DEFINE k == s.key
           f == [t \in {t \in {s} : t.key = k} |-> Lasted(k.sp, k.note, time - t.on)]
<1>1. DOMAIN f = {s} /\ f[s] = Lasted(k.sp, k.note, time - s.on)
  OBVIOUS
<1>2. f[s] \in Int
  <2>1. k.sp \in Samples /\ k.note \in Notes /\ time - s.on \in Int
    BY DEF Sounds, Keys
  <2> HIDE DEF f, k
  <2> QED
    BY <1>1, <2>1, LastedNumber
<1> HIDE DEF f
<1>3. SumOf(f) = f[s]
  BY <1>1, <1>2, SumOne
<1> QED
  BY <1>1, <1>3 DEF Heard, f

(* What resamp_cache_refer_alloff() counts for an entry is what its sounds *)
(* on those channels were heard.                                           *)
LEMMA AllHeard ==
  ASSUME CacheTyped, Paired(sounding, channel_note_table, Shift, now),
         NEW chs \in SUBSET Channels, NEW k \in Keys, NEW time \in Int
  PROVE  /\ LastedAll(chs, k, time) = Heard(k, {s \in sounding : s.ch \in chs}, time)
         /\ LastedAll(chs, k, time) \in Int
<1> DEFINE ends == {s \in sounding : s.ch \in chs}
           B == {s \in ends : s.key = k}
           A == {x \in chs \X Notes : channel_note_table[x[1]][x[2]].key = k}
           f == [s \in B |-> Lasted(k.sp, k.note, time - s.on)]
           h == [x \in A |-> Lasted(k.sp, x[2], time - channel_note_table[x[1]][x[2]].on)]
           b == [s \in B |-> <<s.ch, s.key.note>>]
<1>1. k.sp \in Samples /\ k.note \in Notes /\ k # None
  BY CacheAssumption DEF Keys
<1>2. ASSUME NEW s \in B
      PROVE  /\ s \in sounding /\ s.key = k /\ s.ch \in chs /\ s.on \in Nat
             /\ channel_note_table[s.ch][k.note].key = k
             /\ channel_note_table[s.ch][k.note].on = s.on
             /\ b[s] = <<s.ch, k.note>> /\ b[s] \in A
  <2>1. s \in sounding /\ s.key = k /\ s.ch \in chs
    OBVIOUS
  <2>2. /\ s.on \in Nat /\ channel_note_table[s.ch][k.note].key = k
        /\ channel_note_table[s.ch][k.note].on = s.on
    BY <2>1, KeyIsOn
  <2>3. b[s] = <<s.ch, k.note>>
    BY <2>1
  <2> HIDE DEF b
  <2>4. b[s] \in A
    BY <1>1, <2>1, <2>2, <2>3
  <2> QED
    BY <2>1, <2>2, <2>3, <2>4
<1>3. IsFiniteSet(B)
  BY FS_Subset DEF Paired
<1>4. \A x, y \in B : b[x] = b[y] => x = y
  <2> SUFFICES ASSUME NEW x \in B, NEW y \in B, b[x] = b[y] PROVE x = y
    OBVIOUS
  <2>1. x \in sounding /\ y \in sounding /\ x.ch = y.ch /\ x.key.note = y.key.note
    BY <1>2
  <2>2. ShiftOK(Shift)
    BY ShiftedRight
  <2> HIDE DEF B, b
  <2> QED
    BY <2>1, <2>2, OneSound
<1>5. ASSUME NEW x \in A
      PROVE  \E s \in B : b[s] = x
  <2>1. /\ x = <<x[1], x[2]>> /\ x[1] \in chs /\ x[1] \in Channels /\ x[2] \in Notes
        /\ channel_note_table[x[1]][x[2]].key = k
    OBVIOUS
  <2>2. channel_note_table[x[1]][x[2]] # Off
    BY <1>1, <2>1 DEF Off
  <2>3. PICK s \in sounding : s.ch = x[1] /\ s.key.note = x[2]
    BY <2>1, <2>2 DEF Paired
  <2>4. s.key = k
    BY <2>1, <2>3, KeyIsOn
  <2>5. s \in B
    BY <2>1, <2>3, <2>4
  <2>6. b[s] = <<s.ch, s.key.note>>
    BY <2>5
  <2> HIDE DEF b, B
  <2> QED
    BY <2>1, <2>3, <2>5, <2>6
<1>6. Numbers(f) /\ DOMAIN f = B
  <2>1. ASSUME NEW s \in B PROVE f[s] \in Int
    <3>1. time - s.on \in Int
      <4>1. s.on \in Nat
        BY <1>2
      <4> QED
        BY <4>1
    <3>2. f[s] = Lasted(k.sp, k.note, time - s.on)
      OBVIOUS
    <3> HIDE DEF f
    <3> QED
      BY <1>1, <3>1, <3>2, LastedNumber
  <2>2. DOMAIN f = B
    OBVIOUS
  <2> HIDE DEF f, B
  <2> QED
    BY <1>3, <2>1, <2>2 DEF Numbers
<1>7. b \in [B -> A] /\ DOMAIN h = A
  BY <1>2
<1>8. ASSUME NEW s \in B PROVE f[s] = h[b[s]]
  <2>1. f[s] = Lasted(k.sp, k.note, time - s.on)
    OBVIOUS
  <2>2. b[s] \in A /\ b[s][1] = s.ch /\ b[s][2] = k.note
    BY <1>2
  <2>3. h[b[s]] = Lasted(k.sp, b[s][2], time - channel_note_table[b[s][1]][b[s][2]].on)
    BY <2>2
  <2>4. channel_note_table[s.ch][k.note].on = s.on
    BY <1>2
  <2> HIDE DEF b, h, f, A, B
  <2> QED
    BY <2>1, <2>2, <2>3, <2>4
<1> HIDE DEF f, h, b, A, B
<1>9. Numbers(h)
  <2>1. IsFiniteSet(A)
    <3>1. b \in Surjection(B, A)
      BY <1>5, <1>7 DEF Surjection
    <3> QED
      BY <1>3, <3>1, FS_Surjection
  <2>2. ASSUME NEW x \in A PROVE h[x] \in Int
    <3>1. PICK s \in B : b[s] = x
      BY <1>5
    <3> QED
      BY <1>6, <1>8, <3>1 DEF Numbers
  <2> QED
    BY <1>7, <2>1, <2>2 DEF Numbers
<1>10. SumOf(f) = SumOf(h) /\ SumOf(h) \in Int
  BY <1>4, <1>5, <1>6, <1>7, <1>8, <1>9, SumSame, SumInt
<1> QED
  BY <1>10 DEF LastedAll, Heard, f, h, A, B

-----------------------------------------------------------------------------
(* A step that ends sounds counts them.                                    *)
LEMMA SoundsInTable ==
  ASSUME Grounded, Paired(sounding, channel_note_table, Shift, now), NEW s \in sounding
  PROVE  s.key \in DOMAIN cache_hash_table
<1>1. /\ s.ch \in Channels /\ s.key.note \in Notes
      /\ channel_note_table[s.ch][s.key.note] # Off
      /\ channel_note_table[s.ch][s.key.note].key = s.key
  BY KeyIsOn
<1>2. NotesOn(channel_note_table, phase, DOMAIN cache_hash_table)
  BY DEF Grounded
<1> QED
  BY <1>1, <1>2 DEF NotesOn

LEMMA EntryCount ==
  ASSUME NEW e, NEW S, NEW n, Entry(e, S)
  PROVE  [e EXCEPT !.cnt = n].cnt = n
<1>1. e = [at |-> e.at, cnt |-> e.cnt, resampled |-> e.resampled]
  BY DEF Entry
<1>2. [e EXCEPT !.cnt = n] = [at |-> e.at, cnt |-> n, resampled |-> e.resampled]
  BY <1>1
<1> QED
  BY <1>2

Released(ends, time) == [k \in Keys |-> heard[k] + Heard(k, ends, time)]

LEMMA AllCounts ==
  ASSUME Grounded, CacheTyped, Paired(sounding, channel_note_table, Shift, now),
         CountsOf(cache_hash_table, heard), NEW chs \in SUBSET Channels, NEW time \in Int
  PROVE  CountsOf(AllCounted(cache_hash_table, chs, time),
                  Released({s \in sounding : s.ch \in chs}, time))
<1> DEFINE t == cache_hash_table
           u == AllCounted(t, chs, time)
           ends == {s \in sounding : s.ch \in chs}
           h == Released(ends, time)
<1>1. ASSUME NEW k \in Keys
      PROVE  h[k] \in Int /\ Wrapped(h[k]) = IF k \in DOMAIN u THEN u[k].cnt ELSE 0
  <2> DEFINE d == Heard(k, ends, time)
  <2>1. d = LastedAll(chs, k, time) /\ d \in Int
    BY AllHeard
  <2>2. h[k] = heard[k] + d /\ heard[k] \in Int
    BY DEF Released, CountsOf
  <2>3. DOMAIN u = DOMAIN t
    BY DEF AllCounted
  <2>4. CASE k \in DOMAIN t
    <3>1. u[k] = [t[k] EXCEPT !.cnt = Wrapped(t[k].cnt + LastedAll(chs, k, time))]
      BY <2>4 DEF AllCounted
    <3>2. Entry(t[k], segments)
      BY <2>4 DEF Grounded, Table
    <3>3. u[k].cnt = Wrapped(t[k].cnt + LastedAll(chs, k, time))
      BY <3>1, <3>2, EntryCount
    <3>4. t[k].cnt = Wrapped(heard[k])
      BY <2>4 DEF CountsOf
    <3> HIDE DEF t, u, h, d
    <3>5. u[k].cnt = Wrapped(Wrapped(heard[k]) + d)
      BY <2>1, <3>3, <3>4
    <3>6. u[k].cnt = Wrapped(h[k])
      BY <2>1, <2>2, <3>5, WrappedSum
    <3> QED
      BY <2>1, <2>2, <2>3, <2>4, <3>6
  <2>5. CASE k \notin DOMAIN t
    <3>1. \A s \in ends : s.key # k
      BY <2>5, SoundsInTable
    <3>2. d = 0
      BY <3>1, HeardNone
    <3>3. Wrapped(heard[k]) = 0
      BY <2>5 DEF CountsOf
    <3> HIDE DEF t, u, h, d
    <3> QED
      BY <2>2, <2>3, <2>5, <3>2, <3>3
  <2> QED
    BY <2>4, <2>5
<1>2. h = [k \in Keys |-> h[k]]
  BY DEF Released
<1> HIDE DEF h, u
<1>3. h \in [Keys -> Int]
  BY <1>1, <1>2
<1>4. CountsOf(u, h)
  BY <1>1, <1>3 DEF CountsOf
<1> QED
  BY <1>4 DEF u, h

(* The sounds of one key: none, or the one the table has on. *)
LEMMA KeySounds ==
  ASSUME Grounded, CacheTyped, Paired(sounding, channel_note_table, Shift, now),
         NEW ch \in Channels, NEW a \in Notes
  PROVE  \/ /\ channel_note_table[ch][Pressed(ch, a)] = Off
            /\ OnKey(ch, a) = {}
         \/ \E s \in sounding :
              /\ s.ch = ch /\ s.key.note = Pressed(ch, a)
              /\ OnKey(ch, a) = {s}
<1> DEFINE note == Pressed(ch, a)
<1>1. note \in Notes
  BY PressedNote
<1>2. ASSUME NEW s \in OnKey(ch, a)
      PROVE  s \in sounding /\ s.ch = ch /\ s.key.note = note
  <2>1. s \in sounding /\ s.ch = ch /\ s.a = a
    BY DEF OnKey
  <2> QED
    BY <2>1 DEF Paired, Pressed
<1>3. ShiftOK(Shift)
  BY ShiftedRight
<1>4. CASE channel_note_table[ch][note] = Off
  <2>1. OnKey(ch, a) = {}
    BY <1>2, <1>4, KeyIsOn
  <2> QED
    BY <1>4, <2>1
<1>5. CASE channel_note_table[ch][note] # Off
  <2>1. PICK s \in sounding : s.ch = ch /\ s.key.note = note
    BY <1>1, <1>5 DEF Paired
  <2>2. s.a = a
    <3>1. s.key.note = (s.a + Shift[ch]) % NoteCount
      BY <2>1 DEF Paired
    <3>2. (s.a + Shift[ch]) % NoteCount = (a + Shift[ch]) % NoteCount
      BY <2>1, <3>1 DEF Pressed
    <3>3. s.a \in Notes
      BY KeyIsOn
    <3>4. Shift[ch] \in {0, 1}
      BY <1>3 DEF ShiftOK
    <3> QED
      BY <3>2, <3>3, <3>4, PressedOnce
  <2>3. s \in OnKey(ch, a)
    BY <2>1, <2>2 DEF OnKey
  <2>4. \A t \in OnKey(ch, a) : t = s
    BY <1>2, <1>3, <2>1, OneSound
  <2> QED
    BY <2>1, <2>3, <2>4
<1> QED
  BY <1>4, <1>5

LEMMA OneCounts ==
  ASSUME Grounded, CacheTyped, Paired(sounding, channel_note_table, Shift, now),
         CountsOf(cache_hash_table, heard), NEW ch \in Channels, NEW a \in Notes,
         now \in Nat, NEW time \in Nat, now <= time
  PROVE  CountsOf(CountedTable(cache_hash_table, channel_note_table, ch, Pressed(ch, a), time),
                  Released(OnKey(ch, a), time))
<1> DEFINE t == cache_hash_table
           note == Pressed(ch, a)
           u == CountedTable(t, channel_note_table, ch, note, time)
           ends == OnKey(ch, a)
           h == Released(ends, time)
<1>1. h = [k \in Keys |-> heard[k] + Heard(k, ends, time)]
  BY DEF Released
<1>2. heard \in [Keys -> Int]
  BY DEF CountsOf
<1>3. CASE channel_note_table[ch][note] = Off /\ ends = {}
  <2>1. u = t
    BY <1>3 DEF CountedTable, Off
  <2>2. \A k \in Keys : h[k] = heard[k]
    <3>1. \A k \in Keys : Heard(k, ends, time) = 0
      BY <1>3, HeardNone
    <3> QED
      BY <1>1, <1>2, <3>1
  <2>3. h = heard
    BY <1>1, <1>2, <2>2
  <2> QED
    BY <2>1, <2>3
<1>4. ASSUME NEW s \in sounding, s.ch = ch, s.key.note = note, ends = {s}
      PROVE  CountsOf(u, h)
  <2> DEFINE K == s.key
             d == Lasted(K.sp, note, time - s.on)
  <2>1. /\ K \in Keys /\ K.sp \in Samples /\ note \in Notes /\ K # None /\ s.on \in Nat
        /\ channel_note_table[ch][note].key = K /\ channel_note_table[ch][note].on = s.on
    BY <1>4, KeyIsOn
  <2>2. s.on <= now /\ s \in Sounds
    BY DEF Paired
  <2>3. K \in DOMAIN t
    BY SoundsInTable
  <2>4. time - s.on \in Int /\ ~(time - s.on < 0)
    BY <2>1, <2>2
  <2>5. u = [t EXCEPT ![K].cnt = Wrapped(t[K].cnt + d)]
    <3> HIDE DEF t, note, K, d
    <3>1. u = [t EXCEPT ![K].cnt = Wrapped(t[K].cnt + Lasted(K.sp, note, time - s.on))]
      BY <2>1, <2>4 DEF CountedTable
    <3> QED
      BY <3>1 DEF d
  <2>6. d \in Int
    BY <2>1, <2>4, LastedNumber
  <2>7. Heard(K, ends, time) = d
    <3>1. Heard(s.key, {s}, time) = Lasted(s.key.sp, s.key.note, time - s.on)
      <4>1. time \in Int
        OBVIOUS
      <4> HIDE DEF K, d, ends, note
      <4> QED
        BY <2>2, <4>1, HeardOne
    <3> HIDE DEF note, ends
    <3> QED
      BY <1>4, <3>1
  <2>8. \A k \in Keys : k # K => Heard(k, ends, time) = 0
    BY <1>4, HeardNone
  <2>9. Table(t, segments)
    BY DEF Grounded
  <2>10. DOMAIN u = DOMAIN t /\ \A q \in DOMAIN t : q # K => u[q] = t[q]
    <3> HIDE DEF t, u, K, d, note
    <3> QED
      BY <2>5, <2>9 DEF Table
  <2>11. u[K].cnt = Wrapped(t[K].cnt + d)
    <3>1. Entry(t[K], segments)
      BY <2>3, <2>9 DEF Table
    <3> HIDE DEF t, u, K, d, note
    <3>2. u[K] = [t[K] EXCEPT !.cnt = Wrapped(t[K].cnt + d)]
      BY <2>3, <2>5, <2>9 DEF Table
    <3> QED
      BY <3>1, <3>2, EntryCount
  <2>12. \A k \in Keys : Wrapped(heard[k]) = IF k \in DOMAIN t THEN t[k].cnt ELSE 0
    BY DEF CountsOf
  <2> HIDE DEF t, u, K, d, note, ends, h
  <2>13. ASSUME NEW k \in Keys
         PROVE  h[k] \in Int /\ Wrapped(h[k]) = IF k \in DOMAIN u THEN u[k].cnt ELSE 0
    <3>1. CASE k = K
      <4>1. h[k] = heard[k] + d /\ heard[k] \in Int
        BY <1>1, <1>2, <2>7, <3>1
      <4>2. Wrapped(h[k]) = Wrapped(Wrapped(heard[k]) + d)
        BY <2>6, <4>1, WrappedSum
      <4> QED
        BY <2>3, <2>6, <2>10, <2>11, <2>12, <3>1, <4>1, <4>2
    <3>2. CASE k # K
      <4>1. h[k] = heard[k] /\ heard[k] \in Int
        BY <1>1, <1>2, <2>8, <3>2
      <4> QED
        BY <2>10, <2>12, <3>2, <4>1
    <3> QED
      BY <3>1, <3>2
  <2>14. h \in [Keys -> Int]
    BY <1>1, <2>13
  <2> QED
    BY <2>13, <2>14 DEF CountsOf
<1> HIDE DEF t, u, h
<1>5. CASE channel_note_table[ch][note] # Off
  <2>1. \E s \in sounding : s.ch = ch /\ s.key.note = note /\ ends = {s}
    BY <1>5, KeySounds
  <2> QED
    BY <1>4, <2>1 DEF t, u, h
<1>6. CASE channel_note_table[ch][note] = Off
  <2>1. ends = {} \/ \E s \in sounding : s.ch = ch /\ s.key.note = note
    BY KeySounds
  <2>2. \A s \in sounding : ~(s.ch = ch /\ s.key.note = note)
    BY <1>6, KeyIsOn
  <2>3. ends = {}
    BY <2>1, <2>2
  <2> QED
    BY <1>3, <1>6, <2>3 DEF t, u, h
<1> QED
  BY <1>5, <1>6

-----------------------------------------------------------------------------
(* Sounds and notes stay paired: the sounds of some channels end, *)
LEMMA ChannelsReleased ==
  ASSUME NEW S, NEW f, NEW shift, NEW shift2, NEW time \in Nat, NEW time2 \in Nat,
         Paired(S, f, shift, time), time <= time2, NEW chs,
         \A c \in Channels : c \notin chs => shift2[c] = shift[c]
  PROVE  Paired({s \in S : s.ch \notin chs}, NotesLeft(f, chs), shift2, time2)
<1> DEFINE T == {s \in S : s.ch \notin chs}
           g == NotesLeft(f, chs)
<1>1. T \subseteq Sounds /\ IsFiniteSet(T)
  BY FS_Subset DEF Paired
<1>2. ASSUME NEW s \in T
      PROVE  /\ s.key.note = (s.a + shift2[s.ch]) % NoteCount
             /\ g[s.ch][s.key.note] = [key |-> s.key, on |-> s.on]
             /\ s.on <= time2
  <2>1. /\ s \in S /\ s.ch \notin chs /\ s.ch \in Channels /\ s.on \in Nat
        /\ s.key.note = (s.a + shift[s.ch]) % NoteCount
        /\ f[s.ch][s.key.note] = [key |-> s.key, on |-> s.on] /\ s.on <= time
    <3>1. s \in S /\ s.ch \notin chs
      OBVIOUS
    <3>2. s.ch \in Channels /\ s.on \in Nat
      BY <3>1, KeyIsOn
    <3> HIDE DEF T, g
    <3> QED
      BY <3>1, <3>2 DEF Paired
  <2>2. shift2[s.ch] = shift[s.ch] /\ g[s.ch] = f[s.ch]
    BY <2>1 DEF NotesLeft
  <2> HIDE DEF g
  <2> QED
    BY <2>1, <2>2
<1>3. ASSUME NEW c \in Channels, NEW n \in Notes, g[c][n] # Off
      PROVE  \E s \in T : s.ch = c /\ s.key.note = n
  <2>1. c \notin chs /\ g[c] = f[c]
    BY <1>3 DEF NotesLeft
  <2>2. \E s \in S : s.ch = c /\ s.key.note = n
    BY <1>3, <2>1 DEF Paired
  <2> QED
    BY <2>1, <2>2
<1> HIDE DEF T, g
<1>4. Paired(T, g, shift2, time2)
  BY <1>1, <1>2, <1>3 DEF Paired
<1> QED
  BY <1>4 DEF T, g

NoteSet(g, f, ch, note, x) ==
  \A c \in Channels, n \in Notes : g[c][n] = IF c = ch /\ n = note THEN x ELSE f[c][n]
LEMMA NoteAt ==
  ASSUME NEW f, NEW ph, NEW D, NotesOn(f, ph, D), NEW ch, NEW note, NEW x
  PROVE  NoteSet([f EXCEPT ![ch][note] = x], f, ch, note, x)
<1> SUFFICES ASSUME NEW c \in Channels, NEW n \in Notes
             PROVE  [f EXCEPT ![ch][note] = x][c][n]
                      = IF c = ch /\ n = note THEN x ELSE f[c][n]
  BY DEF NoteSet
<1>1. f = [d \in Channels |-> f[d]] /\ f[c] = [m \in Notes |-> f[c][m]]
  BY DEF NotesOn
<1> DEFINE g == [f EXCEPT ![ch] = [f[ch] EXCEPT ![note] = x]]
<1>2. [f EXCEPT ![ch][note] = x] = g
  OBVIOUS
<1>3. g[c] = IF c = ch THEN [f[c] EXCEPT ![note] = x] ELSE f[c]
  BY <1>1
<1>4. [f[c] EXCEPT ![note] = x][n] = IF n = note THEN x ELSE f[c][n]
  BY <1>1
<1> HIDE DEF g
<1>5. CASE c = ch
  BY <1>2, <1>3, <1>4, <1>5
<1>6. CASE c # ch
  BY <1>2, <1>3, <1>6
<1> QED
  BY <1>5, <1>6

(* the sound of one key ends, *)
LEMMA OneReleased ==
  ASSUME Grounded, CacheTyped, Paired(sounding, channel_note_table, Shift, now),
         NEW ch \in Channels, NEW a \in Notes, now \in Nat, NEW time \in Nat, now <= time
  PROVE  Paired(sounding \ OnKey(ch, a),
                [channel_note_table EXCEPT ![ch][Pressed(ch, a)] = Off], Shift, time)
<1> DEFINE f == channel_note_table
           note == Pressed(ch, a)
           g == [f EXCEPT ![ch][note] = Off]
           T == sounding \ OnKey(ch, a)
<1>1. \A c \in Channels, n \in Notes : g[c][n] = IF c = ch /\ n = note THEN Off ELSE f[c][n]
  <2>1. NotesOn(f, phase, DOMAIN cache_hash_table)
    BY DEF Grounded
  <2> HIDE DEF f, note
  <2>2. NoteSet(g, f, ch, note, Off)
    BY <2>1, NoteAt
  <2> HIDE DEF g
  <2> QED
    BY <2>2 DEF NoteSet
<1>2. T \subseteq Sounds /\ IsFiniteSet(T)
  BY FS_Subset DEF Paired
<1>3. ShiftOK(Shift) /\ note \in Notes
  BY PressedNote, ShiftedRight
<1>4. ASSUME NEW s \in T
      PROVE  ~(s.ch = ch /\ s.key.note = note)
  <2> SUFFICES ASSUME s.ch = ch, s.key.note = note PROVE FALSE
    OBVIOUS
  <2>1. s \in sounding /\ f[ch][note] # Off
    BY KeyIsOn
  <2>2. PICK t \in sounding : t.ch = ch /\ t.key.note = note /\ OnKey(ch, a) = {t}
    BY <2>1, KeySounds
  <2>3. s = t
    BY <1>3, <2>1, <2>2, OneSound
  <2> QED
    BY <2>2, <2>3
<1> HIDE DEF g
<1>5. ASSUME NEW s \in T
      PROVE  /\ s.key.note = (s.a + Shift[s.ch]) % NoteCount
             /\ g[s.ch][s.key.note] = [key |-> s.key, on |-> s.on]
             /\ s.on <= time
  <2>1. s \in sounding /\ s.ch \in Channels /\ s.key.note \in Notes /\ s.on \in Nat
    BY KeyIsOn
  <2>2. g[s.ch][s.key.note] = f[s.ch][s.key.note]
    BY <1>1, <1>4, <2>1
  <2>3. /\ s.key.note = (s.a + Shift[s.ch]) % NoteCount
        /\ f[s.ch][s.key.note] = [key |-> s.key, on |-> s.on] /\ s.on <= now
    BY <2>1 DEF Paired
  <2> QED
    BY <2>1, <2>2, <2>3
<1>6. ASSUME NEW c \in Channels, NEW n \in Notes, g[c][n] # Off
      PROVE  \E s \in T : s.ch = c /\ s.key.note = n
  <2>1. ~(c = ch /\ n = note) /\ f[c][n] # Off
    BY <1>1, <1>6
  <2>2. PICK s \in sounding : s.ch = c /\ s.key.note = n
    BY <2>1 DEF Paired
  <2>3. s \notin OnKey(ch, a)
    <3>1. ASSUME s \in OnKey(ch, a) PROVE FALSE
      <4>1. s.ch = ch /\ s.a = a
        BY <3>1 DEF OnKey
      <4>2. s.key.note = note
        BY <4>1 DEF Paired, Pressed
      <4> QED
        BY <2>1, <2>2, <4>1, <4>2
    <3> QED
      BY <3>1
  <2> QED
    BY <2>2, <2>3
<1> HIDE DEF T
<1>7. Paired(T, g, Shift, time)
  BY <1>2, <1>5, <1>6 DEF Paired
<1> QED
  BY <1>7 DEF T, g

(* and another one begins instead. *)
LEMMA OneStarted ==
  ASSUME Grounded, CacheTyped, Paired(sounding, channel_note_table, Shift, now),
         NEW ch \in Channels, NEW a \in Notes, now \in Nat, NEW time \in Nat,
         now <= time, NEW sp \in Samples,
         NEW k, k = [sp |-> sp, note |-> Pressed(ch, a)]
  PROVE  Paired((sounding \ OnKey(ch, a)) \cup {[ch |-> ch, a |-> a, key |-> k, on |-> time]},
                [channel_note_table EXCEPT ![ch][Pressed(ch, a)] = [key |-> k, on |-> time]],
                Shift, time)
<1> DEFINE f == channel_note_table
           note == Pressed(ch, a)
           g0 == [f EXCEPT ![ch][note] = Off]
           x == [key |-> k, on |-> time]
           g == [f EXCEPT ![ch][note] = x]
           new == [ch |-> ch, a |-> a, key |-> k, on |-> time]
           T0 == sounding \ OnKey(ch, a)
           T == T0 \cup {new}
<1>1. Paired(T0, g0, Shift, time)
  BY OneReleased
<1>2. note \in Notes /\ note = (a + Shift[ch]) % NoteCount
  BY PressedNote DEF Pressed
<1>3. /\ \A c \in Channels, n \in Notes : g0[c][n] = IF c = ch /\ n = note THEN Off ELSE f[c][n]
      /\ \A c \in Channels, n \in Notes : g[c][n] = IF c = ch /\ n = note THEN x ELSE f[c][n]
  <2>1. NotesOn(f, phase, DOMAIN cache_hash_table)
    BY DEF Grounded
  <2> HIDE DEF f, note, x
  <2>2. NoteSet(g0, f, ch, note, Off) /\ NoteSet(g, f, ch, note, x)
    BY <2>1, NoteAt
  <2> HIDE DEF g, g0
  <2> QED
    BY <2>2 DEF NoteSet
<1>4. /\ new \in Sounds /\ new.ch = ch /\ new.a = a /\ new.key = k /\ new.on = time
      /\ k.note = note
  <2> HIDE DEF note
  <2> QED
    BY <1>2 DEF Sounds, Keys, note
<1>5. T \subseteq Sounds /\ IsFiniteSet(T)
  <2>1. T0 \subseteq Sounds /\ IsFiniteSet(T0)
    BY <1>1 DEF Paired
  <2> QED
    BY <1>4, <2>1, FS_AddElement
<1> HIDE DEF f, note, g0, g, T0
<1>6. ASSUME NEW s \in T0
      PROVE  /\ s.key.note = (s.a + Shift[s.ch]) % NoteCount
             /\ g[s.ch][s.key.note] = [key |-> s.key, on |-> s.on]
             /\ s.on <= time
  <2>1. s.ch \in Channels /\ s.key.note \in Notes /\ g0[s.ch][s.key.note] # Off
    BY <1>1, KeyIsOn
  <2>2. g[s.ch][s.key.note] = g0[s.ch][s.key.note]
    BY <1>3, <2>1
  <2>3. /\ s.key.note = (s.a + Shift[s.ch]) % NoteCount
        /\ g0[s.ch][s.key.note] = [key |-> s.key, on |-> s.on] /\ s.on <= time
    BY <1>1 DEF Paired
  <2> QED
    BY <2>2, <2>3
<1>7. /\ new.key.note = (new.a + Shift[new.ch]) % NoteCount
      /\ g[new.ch][new.key.note] = [key |-> new.key, on |-> new.on]
      /\ new.on <= time
  <2> HIDE DEF new
  <2> QED
    BY <1>2, <1>3, <1>4
<1>8. ASSUME NEW c \in Channels, NEW n \in Notes, g[c][n] # Off
      PROVE  \E s \in T : s.ch = c /\ s.key.note = n
  <2>1. CASE c = ch /\ n = note
    BY <1>4, <2>1
  <2>2. CASE ~(c = ch /\ n = note)
    <3>1. g0[c][n] # Off
      BY <1>3, <1>8, <2>2
    <3>2. \E s \in T0 : s.ch = c /\ s.key.note = n
      BY <1>1, <3>1 DEF Paired
    <3> QED
      BY <3>2
  <2> QED
    BY <2>1, <2>2
<1>9. Paired(T, g, Shift, time)
  <2>1. \A s \in T : /\ s.key.note = (s.a + Shift[s.ch]) % NoteCount
                     /\ g[s.ch][s.key.note] = [key |-> s.key, on |-> s.on]
                     /\ s.on <= time
    BY <1>6, <1>7
  <2> HIDE DEF T, new
  <2> QED
    BY <1>5, <1>8, <2>1 DEF Paired
<1> QED
  BY <1>9 DEF T, g, T0, f, note

-----------------------------------------------------------------------------
(* While a note's samples are referred to one by one, the sounds are       *)
(* paired with the notes, and the counts right, as they will be when the   *)
(* last of them that can be cached has been.                               *)
Cached(r, shape) == {i \in 1..Len(r) : shape[r[i].sp].cacheable}
LastOf(r, shape, x) ==
  \E i \in Cached(r, shape) : r[i] = x /\ \A j \in Cached(r, shape) : j <= i
OneNote(r) == \A i, j \in 1..Len(r) : r[i].ch = r[j].ch /\ r[i].a = r[j].a

KeyOf(x) == [sp |-> x.sp, note |-> Pressed(x.ch, x.a)]
NotesThen(x) ==
  [channel_note_table EXCEPT ![x.ch][Pressed(x.ch, x.a)] = [key |-> KeyOf(x), on |-> now]]
CountsThen(x) ==
  CountedTable(cache_hash_table, channel_note_table, x.ch, Pressed(x.ch, x.a), now)
Settled ==
  /\ Paired(sounding, channel_note_table, Shift, now)
  /\ CountsOf(cache_hash_table, heard)
Awaits(x) ==
  /\ Paired(sounding, NotesThen(x), Shift, now)
  /\ CountsOf(CountsThen(x), heard)
Followed ==
  \/ Cached(refer, sample) = {} /\ Settled
  \/ \E x \in References : LastOf(refer, sample, x) /\ Awaits(x)

Heeded ==
  /\ now \in Nat /\ OneNote(refer)
  /\ phase = "prescan" /\ ~muddled => Followed
  /\ phase = "count" /\ ~muddled => CountsOf(cache_hash_table, heard)

LEMMA HeededCounts == Heeded => CountsSounding
BY DEF Heeded, CountsOf, CountsSounding

LEMMA NoneLast ==
  ASSUME NEW shape
  PROVE  OneNote(<<>>) /\ Cached(<<>>, shape) = {} /\ \A x : ~LastOf(<<>>, shape, x)
BY DEF OneNote, Cached, LastOf

LEMMA TailLast ==
  ASSUME NEW r \in Seq(References), r # <<>>, OneNote(r), NEW shape
  PROVE  /\ OneNote(Tail(r)) /\ Head(r) \in References
         /\ Cached(r, shape) = {} => Cached(Tail(r), shape) = {}
         /\ shape[Head(r).sp].cacheable => Cached(r, shape) # {}
         /\ \A x : LastOf(r, shape, x) =>
              /\ x.ch = Head(r).ch /\ x.a = Head(r).a
              /\ \/ x = Head(r) /\ Cached(Tail(r), shape) = {}
                    /\ shape[Head(r).sp].cacheable
                 \/ LastOf(Tail(r), shape, x)
<1> DEFINE t == Tail(r)
<1>1. /\ Len(t) \in Nat /\ Len(r) = Len(t) + 1 /\ Head(r) = r[1] /\ r[1] \in References
      /\ \A i \in 1..Len(t) : i + 1 \in 1..Len(r) /\ t[i] = r[i + 1]
  OBVIOUS
<1> HIDE DEF t
<1>2. OneNote(t)
  <2>1. SUFFICES ASSUME NEW i \in 1..Len(t), NEW j \in 1..Len(t)
                 PROVE  t[i].ch = t[j].ch /\ t[i].a = t[j].a
    BY DEF OneNote
  <2>2. /\ i + 1 \in 1..Len(r) /\ j + 1 \in 1..Len(r)
        /\ t[i] = r[i + 1] /\ t[j] = r[j + 1]
    BY <1>1
  <2> QED
    BY <2>2 DEF OneNote
<1>3. \A i \in Cached(t, shape) : i \in Nat /\ i >= 1 /\ i + 1 \in Cached(r, shape)
  BY <1>1 DEF Cached
<1>4. Cached(r, shape) = {} => Cached(t, shape) = {}
  BY <1>3
<1>5. shape[Head(r).sp].cacheable => Cached(r, shape) # {}
  <2>1. 1 \in 1..Len(r)
    BY <1>1
  <2> QED
    BY <1>1, <2>1 DEF Cached
<1>6. ASSUME NEW x, LastOf(r, shape, x)
      PROVE  /\ x.ch = Head(r).ch /\ x.a = Head(r).a
             /\ \/ x = Head(r) /\ Cached(t, shape) = {} /\ shape[Head(r).sp].cacheable
                \/ LastOf(t, shape, x)
  <2>1. PICK i \in Cached(r, shape) : r[i] = x /\ \A j \in Cached(r, shape) : j <= i
    BY <1>6 DEF LastOf
  <2>2. i \in 1..Len(r) /\ 1 \in 1..Len(r) /\ shape[r[i].sp].cacheable
    BY <1>1 DEF Cached
  <2>3. x.ch = Head(r).ch /\ x.a = Head(r).a
    BY <1>1, <2>1, <2>2 DEF OneNote
  <2>4. CASE i = 1
    <3>1. ASSUME NEW j \in Cached(t, shape) PROVE FALSE
      <4>1. j \in Nat /\ j >= 1 /\ j + 1 <= 1
        BY <1>3, <2>1, <2>4
      <4> QED
        BY <4>1
    <3> QED
      BY <1>1, <2>1, <2>2, <2>3, <2>4, <3>1
  <2>5. CASE i # 1
    <3>1. i - 1 \in 1..Len(t) /\ i - 1 + 1 = i
      BY <1>1, <2>2, <2>5
    <3>2. t[i - 1] = r[i]
      BY <1>1, <3>1
    <3>3. i - 1 \in Cached(t, shape)
      BY <2>2, <3>1, <3>2 DEF Cached
    <3>4. ASSUME NEW j \in Cached(t, shape)
          PROVE  j <= i - 1
      <4>1. j \in Nat /\ j + 1 <= i
        BY <1>3, <2>1
      <4> QED
        BY <2>2, <4>1
    <3> QED
      BY <2>1, <2>3, <3>2, <3>3, <3>4 DEF LastOf
  <2> QED
    BY <2>4, <2>5
<1> QED
  BY <1>1, <1>2, <1>4, <1>5, <1>6 DEF t

(* Time passes, and a channel on which nothing sounds may be shifted. *)
LEMMA TimePasses ==
  ASSUME NEW S, NEW f, NEW shift, NEW shift2, NEW time \in Nat, NEW time2 \in Nat,
         Paired(S, f, shift, time), time <= time2,
         \A s \in S : shift2[s.ch] = shift[s.ch]
  PROVE  Paired(S, f, shift2, time2)
<1>1. \A s \in S : s.on \in Nat /\ s.on <= time
  <2>1. \A s \in S : s.on \in Nat
    BY KeyIsOn
  <2> QED
    BY <2>1 DEF Paired
<1>2. \A s \in S : s.on <= time2
  BY <1>1
<1> QED
  BY <1>2 DEF Paired

(* Only the places of the table matter. *)
LEMMA SamePlaces ==
  ASSUME NEW S, NEW f, NEW g, NEW shift, NEW time, Paired(S, f, shift, time),
         \A c \in Channels, n \in Notes : g[c][n] = f[c][n]
  PROVE  Paired(S, g, shift, time)
<1>1. \A s \in S : s.ch \in Channels /\ s.key.note \in Notes
  BY KeyIsOn
<1> QED
  BY <1>1 DEF Paired

LEMMA EventTime ==
  ASSUME Event, now \in Nat
  PROVE  phase = "prescan" /\ phase' = "prescan" /\ now' \in Nat /\ now <= now'
<1>1. PICK gap \in Gaps : now' = now + gap
  BY DEF Event
<1>2. gap \in Nat
  BY CacheAssumption
<1> QED
  BY <1>1, <1>2 DEF Event

(* Nothing is on, and nothing has been heard. *)
LEMMA NothingHeard ==
  ASSUME NEW shift, NEW time
  PROVE  /\ Paired({}, [c \in Channels |-> [n \in Notes |-> Off]], shift, time)
         /\ CountsOf(<<>>, [k \in Keys |-> 0])
<1>1. Paired({}, [c \in Channels |-> [n \in Notes |-> Off]], shift, time)
  BY FS_EmptySet DEF Paired
<1>2. DOMAIN <<>> = {}
  BY TableEmpty
<1>3. CountsOf(<<>>, [k \in Keys |-> 0])
  BY <1>2, WrappedNone DEF CountsOf
<1> QED
  BY <1>1, <1>3

LEMMA BeginsHeeded == CacheInit => Heeded
BY NoneLast DEF CacheInit, Heeded

(* All notes of some channels go off. *)
LEMMA AllReleased ==
  ASSUME Grounded, CacheTyped, Paired(sounding, channel_note_table, Shift, now),
         CountsOf(cache_hash_table, heard), NEW chs \in SUBSET Channels,
         now \in Nat, now' \in Nat, now <= now', ReferAllOff(chs),
         NEW ends, ends = {s \in sounding : s.ch \in chs}, Hear(ends, {}),
         \A c \in Channels : c \notin chs => Shift'[c] = Shift[c]
  PROVE  /\ Paired(sounding', channel_note_table', Shift', now')
         /\ CountsOf(cache_hash_table', heard')
<1>1. heard' = Released(ends, now') /\ sounding' = {s \in sounding : s.ch \notin chs}
  BY DEF Hear, Released
<1>2. /\ cache_hash_table' = AllCounted(cache_hash_table, chs, now')
      /\ channel_note_table' = NotesLeft(channel_note_table, chs)
  BY DEF ReferAllOff, AllCounted, NotesLeft
<1>3. now' \in Int
  OBVIOUS
<1>4. CountsOf(cache_hash_table', heard')
  BY <1>1, <1>2, <1>3, AllCounts
<1>5. Paired(sounding', channel_note_table', Shift', now')
  BY <1>1, <1>2, ChannelsReleased
<1> QED
  BY <1>4, <1>5

(* A sound is referred to: the one of the same key ends, and a new one     *)
(* begins, for which there may have been no entry.                         *)
LEMMA EntryBegins ==
  ASSUME NEW t, NEW h, CountsOf(t, h), NEW k \in Keys, k \notin DOMAIN t,
         NEW e, e.cnt = 0,
         NEW u, u = [q \in {k} \cup DOMAIN t |-> IF q = k THEN e ELSE t[q]]
  PROVE  CountsOf(u, h)
<1>1. DOMAIN u = {k} \cup DOMAIN t /\ u[k] = e /\ \A q \in DOMAIN t : u[q] = t[q]
  BY Zenon
<1>2. ASSUME NEW q \in Keys
      PROVE  Wrapped(h[q]) = IF q \in DOMAIN u THEN u[q].cnt ELSE 0
  <2>1. Wrapped(h[q]) = IF q \in DOMAIN t THEN t[q].cnt ELSE 0
    BY DEF CountsOf
  <2>2. CASE q = k
    BY <1>1, <2>1, <2>2
  <2>3. CASE q # k
    BY <1>1, <2>1, <2>3
  <2> QED
    BY <2>2, <2>3
<1> QED
  BY <1>2 DEF CountsOf

(* A sound that began just now adds nothing. *)
LEMMA NothingLasted ==
  ASSUME CacheTyped, NEW sp \in Samples, NEW note \in Notes
  PROVE  Lasted(sp, note, 0) = 0
<1>1. sample[sp].dl \in Nat
  BY CacheAssumption DEF CacheTyped
<1>2. Step[note] \in Nat \ {0} /\ FRACTION \in Nat \ {0}
  BY CacheAssumption
<1>3. (sample[sp].dl \div FRACTION) * FRACTION \in Nat
  BY <1>1, <1>2, Quotient
<1>4. SoundLength(sp, note) \in Nat
  BY <1>2, <1>3, Quotient DEF SoundLength
<1> QED
  BY <1>4 DEF Lasted, Least

LEMMA CountedJustNow ==
  ASSUME CacheTyped, NEW t, NEW S, Table(t, S), NEW h, CountsOf(t, h), NEW f,
         NEW ch, NEW note, NEW time \in Nat, NEW k \in Keys, k \in DOMAIN t, k.note = note,
         f[ch][note] = [key |-> k, on |-> time]
  PROVE  CountsOf(CountedTable(t, f, ch, note, time), h)
<1> DEFINE u == CountedTable(t, f, ch, note, time)
           n == Wrapped(t[k].cnt + Lasted(k.sp, note, time - time))
<1>1. k # None /\ k.sp \in Samples /\ note \in Notes
  BY CacheAssumption DEF Keys
<1>2. time - time = 0
  OBVIOUS
<1>3. Lasted(k.sp, note, time - time) = 0
  BY <1>1, <1>2, NothingLasted
<1>4. u = [t EXCEPT ![k].cnt = Wrapped(t[k].cnt + Lasted(k.sp, note, time - time))]
  BY <1>1, <1>2 DEF CountedTable
<1>5. h[k] \in Int /\ t[k].cnt = Wrapped(h[k])
  BY DEF CountsOf
<1>6. n = t[k].cnt
  <2>1. n = Wrapped(Wrapped(h[k]) + 0)
    BY <1>3, <1>5
  <2>2. Wrapped(Wrapped(h[k]) + 0) = Wrapped(h[k] + 0) /\ h[k] + 0 = h[k]
    <3>1. h[k] + 0 = h[k]
      BY <1>5
    <3>2. \A z \in Int : Wrapped(Wrapped(z) + 0) = Wrapped(z + 0)
      BY WrappedSum
    <3> QED
      BY <1>5, <3>1, <3>2
  <2> QED
    BY <1>5, <2>1, <2>2
<1>7. Entry(t[k], S) /\ t = [q \in DOMAIN t |-> t[q]]
  BY DEF Table
<1>8. [t[k] EXCEPT !.cnt = n].cnt = n
  BY <1>7, EntryCount
<1> HIDE DEF n, u
<1>9. u = [t EXCEPT ![k] = [t[k] EXCEPT !.cnt = n]]
  BY <1>4 DEF n
<1>10. DOMAIN u = DOMAIN t /\ u[k].cnt = t[k].cnt /\ \A q \in DOMAIN t : q # k => u[q] = t[q]
  BY <1>6, <1>7, <1>8, <1>9
<1>11. CountsOf(u, h)
  BY <1>10 DEF CountsOf
<1> QED
  BY <1>11 DEF u

LEMMA GreatestNatural ==
  ASSUME NEW T \in SUBSET Nat, T # {}, NEW n \in Nat, \A i \in T : i <= n
  PROVE  \E i \in T : \A j \in T : j <= i
<1> DEFINE D == {m \in Nat : \A i \in T : i <= m}
<1>1. PICK m \in D : \A d \in D : m <= d
  <2>1. D \in SUBSET Nat /\ n \in D
    OBVIOUS
  <2> QED
    BY <2>1, LeastNatural
<1>2. m \in T
  <2>1. SUFFICES ASSUME m \notin T PROVE FALSE
    OBVIOUS
  <2>2. \A i \in T : i <= m - 1 /\ i \in Nat
    BY <2>1
  <2>3. PICK i \in T : TRUE
    OBVIOUS
  <2>4. m - 1 \in Nat
    BY <2>2, <2>3
  <2>5. m - 1 \in D
    BY <2>2, <2>4
  <2> QED
    BY <1>1, <2>4, <2>5
<1> QED
  BY <1>2

LEMMA ReferOnHeeded ==
  ASSUME Grounded, Grounded', CacheTyped, Heeded, ReferOn
  PROVE  Heeded'
<1>1. /\ refer # <<>> /\ refer' = Tail(refer) /\ now' = now /\ phase' = phase
      /\ Shift' = Shift /\ muddled' = muddled /\ sample' = sample
      /\ sounding' = sounding /\ heard' = heard
      /\ sample[Head(refer).sp].cacheable
  BY DEF ReferOn, Referred, song_vars, channel_vars, heard_vars, Shift
<1>2. phase = "prescan" /\ now \in Nat /\ OneNote(refer) /\ refer \in Seq(References)
  BY <1>1 DEF Grounded, Heeded, CacheTyped
<1>3. OneNote(refer')
  BY <1>1, <1>2, TailLast
<1>4. SUFFICES ASSUME ~muddled
               PROVE  Followed'
  BY <1>1, <1>2, <1>3 DEF Heeded
<1>5. PICK x \in References : LastOf(refer, sample, x) /\ Awaits(x)
  <2>1. Cached(refer, sample) # {}
    BY <1>1, <1>2, TailLast
  <2> QED
    BY <1>2, <1>4, <2>1 DEF Heeded, Followed
<1>6. PICK y \in References : y = Head(refer)
  BY <1>1, <1>2, TailLast
<1> DEFINE ch == y.ch
           note == Pressed(y.ch, y.a)
           k == [sp |-> y.sp, note |-> note]
           counted == CountedTable(cache_hash_table, channel_note_table, ch, note, now)
           new == [at |-> NewOne, cnt |-> 0, resampled |-> None]
           f == channel_note_table
           g == [f EXCEPT ![ch][note] = [key |-> k, on |-> now]]
           l == [key |-> KeyOf(x), on |-> now]
<1>7. x.ch = y.ch /\ x.a = y.a
  BY <1>1, <1>2, <1>5, <1>6, TailLast
<1>8. \/ x = y /\ Cached(refer', sample') = {}
      \/ LastOf(refer', sample', x)
  BY <1>1, <1>2, <1>5, <1>6, TailLast
<1>9. ch \in Channels /\ y.a \in Notes /\ y.sp \in Samples
  BY DEF References
<1>10. note \in Notes
  BY <1>9, PressedNote
<1>11. k \in Keys /\ k.note = note
  BY <1>9, <1>10 DEF Keys
<1>12. /\ channel_note_table' = g
       /\ \/ k \in DOMAIN counted /\ cache_hash_table' = counted
          \/ /\ k \notin DOMAIN counted
             /\ cache_hash_table' =
                  [q \in {k} \cup DOMAIN counted |-> IF q = k THEN new ELSE counted[q]]
  BY <1>6 DEF ReferOn
<1>13. Paired(sounding, [f EXCEPT ![ch][note] = l], Shift, now) /\ CountsOf(counted, heard)
  BY <1>5, <1>7 DEF Awaits, NotesThen, CountsThen
<1>14. new.cnt = 0
  OBVIOUS
<1>15. Pressed(y.ch, y.a)' = note
  BY <1>1 DEF Pressed
<1> HIDE DEF counted, new, k, note
<1>16. CountsOf(cache_hash_table', heard) /\ k \in DOMAIN cache_hash_table'
  BY <1>11, <1>12, <1>13, <1>14, EntryBegins
<1>17. CASE x = y /\ Cached(refer', sample') = {}
  <2>1. KeyOf(x) = k
    BY <1>17 DEF KeyOf, k, note
  <2>2. Paired(sounding', channel_note_table', Shift', now')
    BY <1>1, <1>12, <1>13, <2>1
  <2> QED
    BY <1>1, <1>16, <1>17, <2>2 DEF Followed, Settled
<1>18. CASE LastOf(refer', sample', x)
  <2>1. KeyOf(x)' = KeyOf(x) /\ Pressed(x.ch, x.a)' = note
    BY <1>1, <1>7 DEF KeyOf, Pressed, note
  <2> DEFINE h == [g EXCEPT ![ch][note] = l]
  <2>2. NotesThen(x)' = h
    BY <1>1, <1>7, <1>12, <2>1 DEF NotesThen
  <2>3. \A c \in Channels, n \in Notes : h[c][n] = [f EXCEPT ![ch][note] = l][c][n]
    <3>1. NotesOn(f, phase, DOMAIN cache_hash_table)
      BY DEF Grounded
    <3>2. NotesOn(g, phase', DOMAIN cache_hash_table')
      BY <1>12 DEF Grounded
    <3> DEFINE e == [key |-> k, on |-> now]
    <3> HIDE DEF f, l, e
    <3>3. NoteSet(g, f, ch, note, e) /\ NoteSet([f EXCEPT ![ch][note] = l], f, ch, note, l)
      BY <3>1, NoteAt DEF e
    <3> HIDE DEF g
    <3>4. NoteSet(h, g, ch, note, l)
      BY <3>2, NoteAt
    <3> HIDE DEF h
    <3> QED
      BY <3>3, <3>4 DEF NoteSet
  <2>4. Paired(sounding', NotesThen(x)', Shift', now')
    <3> DEFINE e == [f EXCEPT ![ch][note] = l]
    <3>1. Paired(sounding, e, Shift, now) /\ \A c \in Channels, n \in Notes : h[c][n] = e[c][n]
      BY <1>13, <2>3
    <3> HIDE DEF e, h
    <3>2. Paired(sounding, h, Shift, now)
      BY <3>1, SamePlaces
    <3> QED
      BY <1>1, <2>2, <3>2
  <2>5. CountsOf(CountsThen(x)', heard')
    <3>1. CountsThen(x)' = CountedTable(cache_hash_table', channel_note_table', ch, note, now)
      BY <1>1, <1>7, <2>1 DEF CountsThen, CountedTable, Lasted, SoundLength
    <3>2. channel_note_table'[ch][note] = [key |-> k, on |-> now]
      <4>1. NotesOn(f, phase, DOMAIN cache_hash_table)
        BY DEF Grounded
      <4> DEFINE e == [key |-> k, on |-> now]
      <4> HIDE DEF f, e
      <4>2. NoteSet(g, f, ch, note, e)
        BY <4>1, NoteAt DEF e
      <4> HIDE DEF g
      <4> QED
        BY <1>9, <1>10, <1>12, <4>2 DEF NoteSet, e
    <3>3. Table(cache_hash_table', segments')
      BY DEF Grounded
    <3> QED
      BY <1>1, <1>2, <1>11, <1>16, <3>1, <3>2, <3>3, CountedJustNow
  <2> QED
    BY <1>18, <2>4, <2>5 DEF Followed, Awaits
<1> QED
  BY <1>8, <1>17, <1>18

(* A note begins: its sounds are paired, and those before it counted, once *)
(* its last sample that can be cached is referred to.                      *)
LEMMA NoteOnHeeded ==
  ASSUME Grounded, CacheTyped, Heeded, NEW ch \in Channels, NEW a \in Notes, NoteOn(ch, a)
  PROVE  Heeded'
<1> DEFINE s == Played(ch, a)
           note == Pressed(ch, a)
           refers == [i \in 1..Len(s) |-> [ch |-> ch, a |-> a, sp |-> s[i]]]
           cached == {i \in 1..Len(s) : sample[s[i]].cacheable}
<1>1. /\ Event /\ refer = <<>> /\ sample' = sample /\ refer' = refers /\ HearNote(ch, a)
      /\ Shift' = Shift /\ channel_note_table' = channel_note_table
      /\ cache_hash_table' = cache_hash_table
  BY DEF NoteOn, Event, channel_vars, table_vars, Shift
<1>2. phase = "prescan" /\ phase' = "prescan" /\ now \in Nat /\ now' \in Nat /\ now <= now'
  BY <1>1, EventTime DEF Heeded
<1>3. s \in Seq(Samples) /\ refers \in Seq(References)
  BY NotesReferred
<1>4. note \in Notes
  BY PressedNote
<1> HIDE DEF s
<1>5. Len(s) \in Nat /\ Len(refers) = Len(s) /\ \A i \in 1..Len(s) : s[i] \in Samples
  BY <1>3
<1>6. /\ OneNote(refers) /\ Cached(refers, sample) = cached
      /\ \A i \in 1..Len(s) : refers[i] = [ch |-> ch, a |-> a, sp |-> s[i]]
  BY <1>5 DEF OneNote, Cached
<1> SUFFICES ASSUME ~muddled'
             PROVE  Followed'
  BY <1>1, <1>2, <1>6 DEF Heeded
<1>7. Settled
  <2>1. ~muddled
    BY <1>1 DEF HearNote, heard_vars
  <2> QED
    BY <1>1, <1>2, <2>1, NoneLast DEF Heeded, Followed
<1>8. CASE cached = {}
  <2>1. /\ sounding' = sounding /\ heard' \in [Keys -> Int]
        /\ \A k \in Keys : heard'[k] = heard[k]
    <3>1. CASE s = <<>>
      BY <1>1, <1>7, <3>1 DEF HearNote, heard_vars, Settled, CountsOf, s
    <3>2. CASE s # <<>>
      <4>1. Begun(ch, a) = {}
        BY <1>8 DEF Begun, s
      <4>2. OnKey(ch, a) = {} /\ Hear({}, {})
        BY <1>1, <3>2, <4>1 DEF HearNote, s
      <4>3. \A k \in Keys : Heard(k, {}, now') = 0
        BY HeardNone
      <4> QED
        BY <1>7, <4>2, <4>3 DEF Hear, Settled, CountsOf
    <3> QED
      BY <3>1, <3>2
  <2>2. Paired(sounding', channel_note_table', Shift', now')
    BY <1>1, <1>2, <1>7, <2>1, TimePasses DEF Settled
  <2>3. CountsOf(cache_hash_table', heard')
    BY <1>1, <1>7, <2>1 DEF Settled, CountsOf
  <2> QED
    BY <1>1, <1>6, <1>8, <2>2, <2>3 DEF Followed, Settled
<1>9. CASE cached # {}
  <2>1. PICK i \in cached : \A j \in cached : j <= i
    <3>1. cached \in SUBSET Nat /\ \A j \in cached : j <= Len(s)
      BY <1>5
    <3> HIDE DEF cached
    <3> QED
      BY <1>5, <1>9, <3>1, GreatestNatural
  <2>11. PICK sp \in Samples : sp = s[i]
    BY <1>5, <2>1
  <2>12. PICK x \in References : x = [ch |-> ch, a |-> a, sp |-> sp]
    BY DEF References
  <2> DEFINE k == [sp |-> sp, note |-> note]
             new == [ch |-> ch, a |-> a, key |-> k, on |-> now']
  <2>2. i \in 1..Len(s) /\ s # <<>>
    BY <1>5, <2>1
  <2>3. LastOf(refer', sample', x)
    <3>1. refers[i] = x
      BY <1>6, <2>2, <2>11, <2>12
    <3> HIDE DEF refers, cached
    <3> QED
      BY <1>1, <1>6, <2>1, <3>1 DEF LastOf
  <2>4. Begun(ch, a) = {new}
    <3>1. {j \in cached : \A m \in cached : m <= j} = {i}
      <4>1. \A j \in cached : j \in Nat
        BY <1>5
      <4> HIDE DEF cached
      <4> QED
        BY <2>1, <4>1
    <3>2. Begun(ch, a) = {[ch |-> ch, a |-> a, key |-> [sp |-> s[j], note |-> note], on |-> now'] :
                            j \in {j \in cached : \A m \in cached : m <= j}}
      BY DEF Begun, s
    <3> HIDE DEF cached, note
    <3> QED
      BY <2>11, <3>1, <3>2
  <2>5. heard' = Released(OnKey(ch, a), now') /\ sounding' = (sounding \ OnKey(ch, a)) \cup {new}
    <3>1. Hear(OnKey(ch, a), {new})
      BY <1>1, <2>2, <2>4 DEF HearNote, s
    <3> HIDE DEF new
    <3> QED
      BY <3>1 DEF Hear, Released
  <2>6. /\ x.ch = ch /\ x.a = a /\ x.sp = sp
        /\ Pressed(x.ch, x.a)' = note /\ KeyOf(x)' = k
    BY <1>1, <2>12 DEF KeyOf, Pressed
  <2> HIDE DEF k, note
  <2>7. NotesThen(x)' = [channel_note_table EXCEPT ![ch][note] = [key |-> k, on |-> now']]
    BY <1>1, <2>6 DEF NotesThen
  <2>8. Paired(sounding', NotesThen(x)', Shift', now')
    <3>1. k = [sp |-> sp, note |-> Pressed(ch, a)]
      BY DEF k, note
    <3>2. Paired((sounding \ OnKey(ch, a)) \cup {[ch |-> ch, a |-> a, key |-> k, on |-> now']},
                 [channel_note_table EXCEPT ![ch][Pressed(ch, a)] = [key |-> k, on |-> now']],
                 Shift, now')
      BY <1>2, <1>7, <2>2, <3>1, OneStarted DEF Settled
    <3> QED
      BY <1>1, <2>5, <2>7, <3>2 DEF note
  <2>9. CountsThen(x)' = CountedTable(cache_hash_table, channel_note_table, ch, note, now')
    BY <1>1, <2>6 DEF CountsThen, CountedTable, Lasted, SoundLength
  <2>10. CountsOf(CountsThen(x)', heard')
    BY <1>2, <1>7, <2>5, <2>9, OneCounts DEF Settled, note
  <2> QED
    BY <2>3, <2>8, <2>10 DEF Followed, Awaits
<1> QED
  BY <1>8, <1>9

LEMMA HeededStep ==
  ASSUME Intact, Heeded, [CacheNext]_cache_vars
  PROVE  Heeded'
<1>1. Grounded /\ CacheTyped /\ now \in Nat
  BY SoundNow DEF Heeded
<1>2. ASSUME phase = "count", ~muddled
      PROVE  CountsOf(cache_hash_table, heard)
  BY <1>2 DEF Heeded
<1>3. ASSUME phase = "prescan", ~muddled, refer = <<>>
      PROVE  Settled
  BY <1>3, NoneLast DEF Heeded, Followed
<1>4. ASSUME now' \in Nat, phase' \notin {"prescan", "count"}, refer' = refer
      PROVE  Heeded'
  BY <1>4 DEF Heeded
<1>27. ASSUME now' \in Nat, phase' = "prescan", refer' = <<>>, ~muddled' => Settled'
       PROVE  Heeded'
  BY <1>27, NoneLast DEF Heeded, Followed
<1>5. CASE StartPrescan
  <2>1. /\ now' = 0 /\ sounding' = {} /\ heard' = [k \in Keys |-> 0] /\ phase' = "prescan"
        /\ cache_hash_table' = <<>> /\ refer' = refer /\ phase = "idle"
        /\ channel_note_table' = [c \in Channels |-> [n \in Notes |-> Off]]
    BY <1>5 DEF StartPrescan, ResampCacheReset, ClearTables
  <2>2. Settled'
    BY <2>1, NothingHeard DEF Settled
  <2>3. refer = <<>>
    BY <1>1, <2>1 DEF Grounded
  <2> QED
    BY <1>27, <2>1, <2>2, <2>3
<1>6. CASE ReferOnNothing
  <2>1. /\ refer # <<>> /\ refer' = Tail(refer) /\ ~sample[Head(refer).sp].cacheable
        /\ now' = now /\ phase' = phase /\ UNCHANGED <<table_vars, heard_vars, sample, Shift>>
    BY <1>6 DEF ReferOnNothing, Referred, song_vars, channel_vars, Shift
  <2>2. phase = "prescan" /\ OneNote(refer) /\ refer \in Seq(References)
    BY <1>1, <2>1 DEF Grounded, Heeded, CacheTyped
  <2>3. OneNote(refer')
    BY <2>1, <2>2, TailLast
  <2>4. ASSUME ~muddled
        PROVE  Followed'
    <3>1. CASE Cached(refer, sample) = {} /\ Settled
      <4>1. Settled'
        BY <2>1, <3>1 DEF Settled, table_vars, heard_vars
      <4>2. Cached(refer', sample') = {}
        BY <2>1, <2>2, <3>1, TailLast
      <4> QED
        BY <4>1, <4>2 DEF Followed
    <3>2. ASSUME NEW x \in References, LastOf(refer, sample, x), Awaits(x)
          PROVE  Followed'
      <4>1. LastOf(refer', sample', x)
        BY <2>1, <2>2, <3>2, TailLast
      <4>2. Awaits(x)'
        BY <2>1, <3>2 DEF Awaits, NotesThen, CountsThen, CountedTable, KeyOf, Pressed, Lasted,
                          SoundLength, table_vars, heard_vars
      <4> QED
        BY <4>1, <4>2 DEF Followed
    <3> QED
      BY <2>2, <2>4, <3>1, <3>2 DEF Heeded, Followed
  <2> QED
    BY <1>1, <2>1, <2>2, <2>3, <2>4 DEF Heeded, heard_vars
<1>7. CASE ReferOn
  <2>1. Grounded'
    BY IntactStep DEF Intact
  <2> QED
    BY <1>1, <1>7, <2>1, ReferOnHeeded
<1>8. CASE Reset
  <2>1. /\ Event /\ UNCHANGED <<refer, table_vars, sounding, heard>> /\ refer = <<>>
        /\ (~muddled' => ~muddled /\ sounding = {})
    BY <1>8 DEF Reset, Event
  <2>2. phase = "prescan" /\ phase' = "prescan" /\ now' \in Nat
    BY <1>1, <2>1, EventTime
  <2>3. ASSUME ~muddled'
        PROVE  Paired(sounding', channel_note_table', Shift', now')
    <3>1. sounding' = {} /\ channel_note_table' = channel_note_table /\ sounding = {}
      BY <2>1, <2>3 DEF table_vars
    <3>2. \A c \in Channels, n \in Notes : channel_note_table[c][n] = Off
      BY <1>3, <2>1, <2>2, <2>3, <3>1 DEF Paired, Settled
    <3> QED
      BY <3>1, <3>2, FS_EmptySet DEF Paired
  <2>4. ASSUME ~muddled'
        PROVE  CountsOf(cache_hash_table', heard')
    BY <1>3, <2>1, <2>2, <2>4 DEF table_vars, Settled
  <2> QED
    BY <1>27, <2>1, <2>2, <2>3, <2>4 DEF Settled
<1>10. ASSUME NEW ch \in Channels, NEW a \in Notes, NoteOn(ch, a)
       PROVE  Heeded'
  BY <1>1, <1>10, NoteOnHeeded
<1>11. ASSUME NEW ch \in Channels, NEW a \in Notes, NoteOff(ch, a)
       PROVE  Heeded'
  <2>1. /\ Event /\ ReferOff(ch, Pressed(ch, a)) /\ Hear(OnKey(ch, a), {})
        /\ Shift' = Shift /\ muddled' = muddled /\ refer = <<>> /\ refer' = refer
    BY <1>11 DEF NoteOff, Event, channel_vars, Shift
  <2>2. phase = "prescan" /\ phase' = "prescan" /\ now' \in Nat /\ now <= now'
    BY <1>1, <2>1, EventTime
  <2>3. /\ cache_hash_table' =
             CountedTable(cache_hash_table, channel_note_table, ch, Pressed(ch, a), now')
        /\ channel_note_table' = [channel_note_table EXCEPT ![ch][Pressed(ch, a)] = Off]
    BY <2>1 DEF ReferOff
  <2>4. heard' = Released(OnKey(ch, a), now') /\ sounding' = sounding \ OnKey(ch, a)
    BY <2>1 DEF Hear, Released
  <2>5. ASSUME ~muddled
        PROVE  /\ Paired(sounding', channel_note_table', Shift, now')
               /\ CountsOf(cache_hash_table', heard')
    <3>1. /\ Paired(sounding, channel_note_table, Shift, now)
          /\ CountsOf(cache_hash_table, heard)
      BY <1>3, <2>1, <2>2, <2>5 DEF Settled
    <3>2. Paired(sounding', channel_note_table', Shift, now')
      BY <1>1, <2>2, <2>3, <2>4, <3>1, OneReleased
    <3>3. CountsOf(cache_hash_table', heard')
      BY <1>1, <2>2, <2>3, <2>4, <3>1, OneCounts
    <3> QED
      BY <3>2, <3>3
  <2> QED
    BY <1>27, <2>1, <2>2, <2>5 DEF Settled
<1>12. ASSUME NEW ch \in Channels, Event, ReferAllOff({ch}), Hear(Sounding(ch), {}),
              muddled' = muddled, refer = <<>>, refer' = refer,
              \A c \in Channels : c # ch => Shift'[c] = Shift[c]
       PROVE  Heeded'
  <2>1. phase = "prescan" /\ phase' = "prescan" /\ now' \in Nat /\ now <= now'
    BY <1>1, <1>12, EventTime
  <2>2. {ch} \in SUBSET Channels /\ Sounding(ch) = {s \in sounding : s.ch \in {ch}}
    BY DEF Sounding
  <2>3. \A c \in Channels : c \notin {ch} => Shift'[c] = Shift[c]
    BY <1>12
  <2>4. ASSUME ~muddled
        PROVE  /\ Paired(sounding', channel_note_table', Shift', now')
               /\ CountsOf(cache_hash_table', heard')
    <3>1. /\ Paired(sounding, channel_note_table, Shift, now)
          /\ CountsOf(cache_hash_table, heard)
      BY <1>3, <1>12, <2>1, <2>4 DEF Settled
    <3> QED
      BY <1>1, <1>12, <2>1, <2>2, <2>3, <3>1, AllReleased
  <2> QED
    BY <1>12, <1>27, <2>1, <2>4 DEF Settled
<1>13. ASSUME NEW ch \in Channels, AllOff(ch)
       PROVE  Heeded'
  <2>1. /\ Event /\ ReferAllOff({ch}) /\ Hear(Sounding(ch), {})
        /\ muddled' = muddled /\ Shift' = Shift /\ refer = <<>> /\ refer' = refer
    BY <1>13 DEF AllOff, Event, channel_vars, Shift
  <2> QED
    BY <1>12, <2>1
<1>14. ASSUME NEW ch \in Channels, NEW b \in {0, 1}, KeyShift(ch, b)
       PROVE  Heeded'
  <2>1. /\ Event /\ ReferAllOff({ch}) /\ Hear(Sounding(ch), {})
        /\ muddled' = muddled /\ refer = <<>> /\ refer' = refer
        /\ key_shift' = [key_shift EXCEPT ![ch] = b] /\ drum' = drum
    BY <1>14 DEF KeyShift, Event
  <2>2. \A c \in Channels : c # ch => Shift'[c] = Shift[c]
    BY <1>1, <2>1 DEF CacheTyped, ChannelsTyped, Shift
  <2> QED
    BY <1>12, <2>1, <2>2
<1>15. ASSUME NEW ch \in Channels, NEW p \in DOMAIN Instrument, NEW part \in BOOLEAN,
              Program(ch, p, part)
       PROVE  Heeded'
  <2>1. /\ Event /\ UNCHANGED <<key_shift, refer, table_vars, sounding, heard>> /\ refer = <<>>
        /\ drum' = [drum EXCEPT ![ch] = part]
        /\ muddled' = (muddled \/ (key_shift[ch] # 0 /\ part # drum[ch] /\ Sounding(ch) # {}))
    BY <1>15 DEF Program, Event
  <2>2. phase = "prescan" /\ phase' = "prescan" /\ now' \in Nat /\ now <= now'
    BY <1>1, <2>1, EventTime
  <2>3. ASSUME ~muddled'
        PROVE  Settled'
    <3>1. Settled /\ (key_shift[ch] = 0 \/ part = drum[ch] \/ Sounding(ch) = {})
      BY <1>3, <2>1, <2>2, <2>3
    <3>2. ASSUME NEW s \in sounding
          PROVE  Shift'[s.ch] = Shift[s.ch]
      <4>1. s.ch \in Channels
        BY <3>1, KeyIsOn DEF Settled
      <4>2. CASE s.ch = ch
        <5>1. key_shift[ch] = 0 \/ part = drum[ch]
          BY <3>1, <4>2 DEF Sounding
        <5>2. drum'[ch] = part /\ drum[ch] \in BOOLEAN
          BY <1>1, <2>1 DEF CacheTyped, ChannelsTyped
        <5> QED
          BY <2>1, <4>1, <4>2, <5>1, <5>2 DEF Shift
      <4>3. CASE s.ch # ch
        <5>1. drum'[s.ch] = drum[s.ch]
          BY <1>1, <2>1, <4>1, <4>3 DEF CacheTyped, ChannelsTyped
        <5> QED
          BY <2>1, <4>1, <5>1 DEF Shift
      <4> QED
        BY <4>2, <4>3
    <3>3. Paired(sounding, channel_note_table, Shift', now')
      BY <1>1, <2>2, <3>1, <3>2, TimePasses DEF Settled
    <3> QED
      BY <2>1, <3>1, <3>3 DEF Settled, table_vars
  <2> QED
    BY <1>27, <2>1, <2>2, <2>3
<1>16. CASE EndOfTrack
  <2>1. /\ phase = "prescan" /\ phase' = "count" /\ ReferAllOff(Channels)
        /\ Hear(sounding, {}) /\ refer = <<>> /\ refer' = refer /\ muddled' = muddled
    BY <1>16 DEF EndOfTrack
  <2>2. now' \in Nat /\ now <= now'
    <3>1. PICK gap \in Gaps : now' = now + gap
      BY <1>16 DEF EndOfTrack
    <3>2. gap \in Nat
      BY CacheAssumption
    <3> QED
      BY <1>1, <3>1, <3>2
  <2>3. ASSUME ~muddled
        PROVE  CountsOf(cache_hash_table', heard')
    <3>1. /\ Paired(sounding, channel_note_table, Shift, now)
          /\ CountsOf(cache_hash_table, heard)
      BY <1>3, <2>1, <2>3 DEF Settled
    <3>2. sounding = {s \in sounding : s.ch \in Channels}
      BY <3>1 DEF Paired, Sounds
    <3>3. Channels \in SUBSET Channels
      OBVIOUS
    <3> QED
      BY <1>1, <2>1, <2>2, <3>1, <3>2, <3>3, AllReleased
  <2> QED
    BY <1>1, <2>1, <2>2, <2>3, NoneLast DEF Heeded
<1>17. CASE CreateBegin
  <2>1. phase' = "create" /\ now' = 0 /\ refer' = refer
    BY <1>17 DEF CreateBegin
  <2> QED
    BY <1>4, <2>1
<1>18. CASE CreateEnd
  <2>1. phase' = "play" /\ now' = now /\ refer' = refer
    BY <1>18 DEF CreateEnd
  <2> QED
    BY <1>1, <1>4, <2>1
<1>19. ASSUME phase \notin {"prescan", "count"}, phase' = phase, refer' = refer,
              UNCHANGED song_vars
       PROVE  Heeded'
  BY <1>1, <1>4, <1>19 DEF song_vars
<1>20. ASSUME NEW k \in array, NotResampled(k) \/ CacheResampling(k)
       PROVE  Heeded'
  <2>1. phase = "create" /\ phase' = phase /\ refer' = refer /\ UNCHANGED song_vars
    BY <1>20 DEF NotResampled, CacheResampling
  <2> QED
    BY <1>19, <2>1
<1>21. ASSUME NEW ch \in Channels, NEW a \in Notes, NEW v \in Voices, PlayNote(ch, a, v)
       PROVE  Heeded'
  <2>1. phase = "play" /\ phase' = phase /\ refer' = refer /\ UNCHANGED song_vars
    BY <1>21 DEF PlayNote
  <2> QED
    BY <1>19, <2>1
<1>22. ASSUME NEW v \in Voices, PlaySpecial(v) \/ VoiceChange(v)
       PROVE  Heeded'
  <2>1. phase = "play" /\ phase' = phase /\ refer' = refer /\ UNCHANGED song_vars
    BY <1>22 DEF PlaySpecial, VoiceChange
  <2> QED
    BY <1>19, <2>1
<1>23. ASSUME NEW ch \in Channels, PlayChange(ch)
       PROVE  Heeded'
  <2>1. phase = "play" /\ phase' = phase /\ now' = now /\ refer' = refer
    BY <1>23 DEF PlayChange
  <2> QED
    BY <1>1, <1>4, <2>1
<1>24. CASE EndSong
  <2>1. phase' = "idle" /\ now' = now /\ refer' = refer
    BY <1>24 DEF EndSong, song_vars
  <2> QED
    BY <1>1, <1>4, <2>1
<1>25. CASE OtherPools
  <2>1. phase = "idle" /\ phase' = phase /\ refer' = refer /\ UNCHANGED song_vars
    BY <1>25 DEF OtherPools
  <2> QED
    BY <1>19, <2>1
<1>26. CASE UNCHANGED cache_vars
  <2>1. UNCHANGED <<phase, refer, sample, song_vars, table_vars, heard_vars>>
    BY <1>26 DEF cache_vars
  <2>2. /\ phase' = phase /\ now' = now /\ refer' = refer /\ sample' = sample /\ Shift' = Shift
        /\ cache_hash_table' = cache_hash_table /\ channel_note_table' = channel_note_table
        /\ sounding' = sounding /\ heard' = heard /\ muddled' = muddled
    BY <2>1 DEF song_vars, channel_vars, table_vars, heard_vars, Shift
  <2>3. Followed => Followed'
    BY <2>2 DEF Followed, Settled, Awaits, NotesThen, CountsThen, CountedTable, KeyOf, Pressed,
                Lasted, SoundLength
  <2> QED
    BY <1>1, <2>2, <2>3 DEF Heeded
<1> QED
  BY <1>5, <1>6, <1>7, <1>8, <1>10, <1>11, <1>13, <1>14, <1>15, <1>16, <1>17, <1>18,
     <1>20, <1>21, <1>22, <1>23, <1>24, <1>25, <1>26 DEF CacheNext

(* What the prescan counts is right for every song, every instrument and   *)
(* every drum kit: when it is over, the count of each sample and note is   *)
(* the time for which the notes sound whose last cacheable sample it is,   *)
(* as far as an int32 holds it, in whatever order notes go on and off,     *)
(* keys are shifted, and programs and drum parts change; but for what may  *)
(* come between a note and its off: a reset of the song, a change of a     *)
(* shifted channel to a drum part or back, and a note of its key of which  *)
(* no sample can be cached.                                                *)
THEOREM CountsRight == CacheSpec => []CountsSounding
<1>1. Intact /\ Heeded /\ [CacheNext]_cache_vars => Intact' /\ Heeded'
  BY IntactStep, HeededStep
<1>2. CacheInit => Intact /\ Heeded
  BY BeginsIntact, BeginsHeeded
<1> QED
  BY <1>1, <1>2, HeededCounts, PTL DEF CacheSpec

=============================================================================
