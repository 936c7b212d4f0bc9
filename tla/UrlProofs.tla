------------------------------ MODULE UrlProofs ------------------------------
(***************************************************************************)
(* Proofs about Url and the two streams under it, for every size of the    *)
(* ring and of the nodes in memory, every opening, every set of requests   *)
(* and every order of them:                                                *)
(*  1. the ring of a buffered stream keeps its bytes in place;             *)
(*  2. the memory of a cached stream is the bytes of the source in a row; *)
(*  3. the invariant of a stream, and what each call comes to for a caller *)
(*     of ByteStream;                                                      *)
(*  4. each call of a buffered stream and 5. of a cached one keeps the     *)
(*     invariant and is a step of ByteStream;                              *)
(*  6. so a limit is kept and both streams implement ByteStream.           *)
(***************************************************************************)
EXTENDS Url, SequenceTheorems, WellFoundedInduction, TLAPS

-----------------------------------------------------------------------------
(* 1. The ring of a buffered stream: the indices of its pointers, and of   *)
(* its cells with the room behind it.                                      *)
Ring == 0..(BASESIZE - 1)
Cell == 0..(BASESIZE + URL_BUFF_SIZE - 1)

(* the bytes from place p on to the write pointer at w *)
Ahead(w, p) == IF w >= p THEN w - p ELSE w - p + BASESIZE
(* the cell k places behind w *)
Behind(w, k) == IF w < k THEN w - k + BASESIZE ELSE w - k

(* The last BASESIZE bytes that were given lie behind the write pointer,   *)
(* as far as the stream has been read.                                     *)
Contents(bytes, w, given, from) ==
  \A k \in 1..BASESIZE : k <= given - from => bytes[Behind(w, k)] = given - k

(* where the pointers and the locals of the loops may be *)
BuffTypeOK ==
  /\ buffer \in [Cell -> Int]
  /\ wp \in Ring /\ rp \in Ring /\ r \in Ring
  /\ pos \in Nat /\ posofs \in Nat /\ reader \in Nat
  /\ loop \in {"none", "gets", "ahead", "toEnd"}
  /\ loop = "gets" => out \in Seq(Int)
  /\ loop = "ahead" => moved \in Nat /\ left \in Nat

(* what a loop has passed and not yet added to the position *)
Passing == CASE loop = "gets" -> Len(out)
              [] loop = "ahead" -> moved
              [] OTHER -> 0

(* the inductive invariant of the ring *)
RingInv ==
  /\ BuffTypeOK
  /\ Contents(buffer, wp, reader, posofs)
  /\ pos + Passing + posofs = reader - Ahead(wp, Place)

-----------------------------------------------------------------------------
(* The size of the ring, as numbers that the provers take as given. *)
LEMMA Sizes == BASESIZE \in Nat /\ URL_BUFF_SIZE \in Nat
               /\ 0 < URL_BUFF_SIZE /\ BASESIZE = 2 * URL_BUFF_SIZE
BY SizeAssumption DEF BASESIZE

(* prefetch() keeps the last bytes in their places: those it overwrites    *)
(* are a turn behind, and those beyond the ring are copied to its start.   *)
LEMMA PrefetchKeeps ==
  ASSUME buffer \in [Cell -> Int], wp \in Ring, reader \in Nat, posofs \in Nat,
         Contents(buffer, wp, reader, posofs),
         NEW n \in Given(URL_BUFF_SIZE), Prefetch(n)
  PROVE  /\ buffer' \in [Cell -> Int] /\ wp' \in Ring /\ reader' \in Nat
         /\ n \in Nat /\ n <= URL_BUFF_SIZE
         /\ reader' = reader + n /\ wp' = Mask(wp + n)
         /\ Contents(buffer', wp', reader', posofs)
<1>1. n \in Nat /\ n <= URL_BUFF_SIZE
  BY SourceAssumption, Sizes DEF Given, Least
<1>2. reader' = reader + n /\ reader' \in Nat
  BY <1>1 DEF Prefetch
<1>3. wp' = Mask(wp + n) /\ wp' \in Ring
  BY <1>1, Sizes DEF Prefetch, Mask, Ring
<1> DEFINE read == [k \in DOMAIN buffer |->
                 IF wp <= k /\ k < wp + n THEN reader + k - wp ELSE buffer[k]]
           beyond == wp + n - BASESIZE
<1>4. /\ DOMAIN buffer = Cell
      /\ read \in [Cell -> Int]
      /\ buffer' = [k \in Cell |-> IF k < beyond THEN read[BASESIZE + k] ELSE read[k]]
  <2>1. \A k \in Cell : reader + k - wp \in Int
    BY Sizes DEF Cell, Ring
  <2> QED
    BY <2>1 DEF Prefetch
<1>5. \A k \in Ring : k < beyond => BASESIZE + k \in Cell /\ k \in Cell
  BY <1>1, Sizes DEF Cell, Ring
<1>6. buffer' \in [Cell -> Int]
  <2>1. \A k \in Cell : k < beyond => k \in Ring
    BY <1>1, Sizes DEF Cell, Ring
  <2> QED
    BY <1>4, <1>5, <2>1
<1>7. ASSUME NEW k \in 1..BASESIZE, k <= reader' - posofs
      PROVE  buffer'[Behind(wp', k)] = reader' - k
  <2> DEFINE c == Behind(wp', k)
  <2>1. c \in Ring /\ c \in Cell
    BY SMTT(60), <1>3, Sizes DEF Behind, Ring, Cell
  <2>2. CASE k <= n /\ wp + n - k < BASESIZE
    <3>1. c = wp + n - k /\ wp <= c /\ c < wp + n /\ ~(c < beyond)
      BY <1>1, <1>3, <2>2, Sizes DEF Behind, Mask, Ring
    <3>2. buffer'[c] = read[c] /\ read[c] = reader + c - wp
      BY <1>4, <2>1, <3>1
    <3> QED
      BY <1>1, <1>2, <3>1, <3>2 DEF Ring
  <2>3. CASE k <= n /\ wp + n - k >= BASESIZE
    <3>1. /\ BASESIZE + c = wp + n - k /\ wp <= BASESIZE + c
          /\ BASESIZE + c < wp + n /\ c < beyond
      BY <1>1, <1>3, <2>3, Sizes DEF Behind, Mask, Ring
    <3>2. BASESIZE + c \in Cell
      BY <1>5, <2>1, <3>1
    <3>3. buffer'[c] = read[BASESIZE + c]
          /\ read[BASESIZE + c] = reader + (BASESIZE + c) - wp
      BY <1>4, <2>1, <3>1, <3>2
    <3> QED
      BY <1>1, <1>2, <3>1, <3>3 DEF Ring
  <2>4. CASE k > n
    <3>1. /\ k - n \in 1..BASESIZE /\ k - n <= reader - posofs
          /\ c = Behind(wp, k - n) /\ ~(c < beyond) /\ ~(wp <= c /\ c < wp + n)
      BY <1>1, <1>2, <1>3, <1>7, <2>4, Sizes DEF Behind, Mask, Ring
    <3>2. buffer'[c] = read[c] /\ read[c] = buffer[c]
      BY <1>4, <2>1, <3>1
    <3>3. buffer[Behind(wp, k - n)] = reader - (k - n)
      BY <3>1 DEF Contents
    <3> QED
      BY <1>1, <1>2, <3>1, <3>2, <3>3
  <2> QED
    BY <1>1, <1>3, <2>2, <2>3, <2>4, Sizes DEF Ring
<1> QED
  BY <1>1, <1>2, <1>3, <1>6, <1>7 DEF Contents

(* A refill at the place that has nothing ahead leaves the position. *)
LEMMA RefillKeeps ==
  ASSUME buffer \in [Cell -> Int], wp \in Ring, reader \in Nat, posofs \in Nat,
         Contents(buffer, wp, reader, posofs),
         NEW p \in Ring, Refill(p)
  PROVE  /\ buffer' \in [Cell -> Int] /\ wp' \in Ring /\ reader' \in Nat
         /\ Contents(buffer', wp', reader', posofs)
         /\ reader' - Ahead(wp', p) = reader - Ahead(wp, p)
<1>1. CASE p = wp
  <2>1. PICK n \in Given(URL_BUFF_SIZE) : Prefetch(n)
    BY <1>1 DEF Refill
  <2>2. /\ buffer' \in [Cell -> Int] /\ wp' \in Ring /\ reader' \in Nat
        /\ n \in Nat /\ n <= URL_BUFF_SIZE
        /\ reader' = reader + n /\ wp' = Mask(wp + n)
        /\ Contents(buffer', wp', reader', posofs)
    BY <2>1, PrefetchKeeps
  <2>3. Ahead(wp', p) = n /\ Ahead(wp, p) = 0
    BY <1>1, <2>2, Sizes DEF Ahead, Mask, Ring
  <2> QED
    BY <2>2, <2>3
<1>2. CASE p # wp
  BY <1>2 DEF Refill
<1> QED
  BY <1>1, <1>2

LEMMA AheadThere ==
  ASSUME NEW w \in Ring, NEW p \in Ring
  PROVE  /\ Ahead(w, p) \in Nat /\ Ahead(w, p) < BASESIZE
         /\ w # p => 1 <= Ahead(w, p)
BY Sizes DEF Ahead, Ring

(* Moving ahead by no more than is there. *)
LEMMA MoveAhead ==
  ASSUME NEW w \in Ring, NEW p \in Ring, NEW i \in Nat, i <= Ahead(w, p)
  PROVE  Mask(p + i) \in Ring /\ Ahead(w, Mask(p + i)) = Ahead(w, p) - i
BY Sizes DEF Ahead, Mask, Ring

(* A fragment is no longer than what is there. *)
LEMMA FragmentThere ==
  ASSUME wp' \in Ring, NEW p \in Ring, NEW n \in Nat
  PROVE  Fragment(p, n) \in Nat /\ Fragment(p, n) <= n /\ Fragment(p, n) <= Ahead(wp', p)
<1>1. PICK w \in Ring : w = wp'
  OBVIOUS
<1> DEFINE there == IF w < p THEN BASESIZE - p ELSE w - p
<1>2. there \in Nat /\ there <= Ahead(w, p)
  BY Sizes DEF Ahead, Ring
<1>3. Least(n, there) \in Nat /\ Least(n, there) <= n /\ Least(n, there) <= there
  BY <1>2 DEF Least
<1>4. Fragment(p, n) = Least(n, there)
  BY <1>1 DEF Fragment
<1>5. Ahead(w, p) \in Nat
  BY Sizes DEF Ahead, Ring
<1> QED
  BY <1>1, <1>2, <1>3, <1>4, <1>5

(* Moving back by no more than `filled' keeps one cell free. *)
LEMMA MoveBack ==
  ASSUME wp \in Ring, rp \in Ring, pos \in Nat,
         NEW k \in Nat, k <= Filled
  PROVE  /\ Behind(rp, k) \in Ring
         /\ k <= pos
         /\ Ahead(wp, rp) + k < BASESIZE
         /\ Ahead(wp, Behind(rp, k)) = Ahead(wp, rp) + k
BY Sizes DEF Filled, Least, Behind, Ahead, Ring

(* So the two parts of RingHolds are the contents seen from the place. *)
LEMMA Reach ==
  ASSUME RingInv
  PROVE  RingHolds
<1> USE DEF RingInv, BuffTypeOK
<1>1. Place \in Ring
  BY DEF Place
<1>2. /\ Ahead(wp, Place) \in Nat /\ Ahead(wp, Place) < BASESIZE
      /\ Unread = Ahead(wp, Place)
  BY <1>1, Sizes DEF Ahead, Unread, Ring
<1>3. Passing \in Nat
  BY DEF Passing
<1>4. Ahead(wp, Place) <= reader - posofs
  BY <1>2, <1>3
<1>5. ASSUME NEW j \in 0..(Unread - 1)
      PROVE  buffer[Mask(Place + j)] = reader - Unread + j
  <2>1. /\ Unread - j \in 1..BASESIZE /\ Unread - j <= reader - posofs
        /\ Mask(Place + j) = Behind(wp, Unread - j)
    BY <1>1, <1>2, <1>4, Sizes DEF Mask, Behind, Ahead, Ring
  <2>2. buffer[Behind(wp, Unread - j)] = reader - (Unread - j)
    BY <2>1 DEF Contents
  <2> QED
    BY <1>2, <2>1, <2>2
<1>6. ASSUME loop \in {"none", "toEnd"}, NEW j \in 1..Filled
      PROVE  buffer[IF rp < j THEN rp - j + BASESIZE ELSE rp - j] = reader - Unread - j
  <2>1. Place = rp /\ Passing = 0
    BY <1>6 DEF Place, Passing
  <2>2. Filled \in Int
    BY Sizes DEF Filled, Least, Ring
  <2>3. j \in Nat /\ j <= Filled
    BY <2>2
  <2>4. j <= pos /\ Ahead(wp, rp) + j < BASESIZE
        /\ Ahead(wp, Behind(rp, j)) = Ahead(wp, rp) + j /\ Behind(rp, j) \in Ring
    BY <2>3, MoveBack
  <2>5. /\ Unread + j \in 1..BASESIZE /\ Unread + j <= reader - posofs
    <3>1. pos + posofs = reader - Unread
      BY <1>2, <2>1
    <3> QED
      BY <1>2, <2>1, <2>3, <2>4, <3>1, <1>6, Sizes
  <2>6. Behind(wp, Unread + j) = Behind(rp, j)
    BY <1>2, <2>1, <2>3, <2>4, Sizes DEF Behind, Ahead, Ring
  <2>7. buffer[Behind(wp, Unread + j)] = reader - (Unread + j)
    BY <2>5 DEF Contents
  <2> QED
    BY <1>2, <2>3, <2>6, <2>7 DEF Behind
<1> QED
  BY <1>5, <1>6 DEF RingHolds

-----------------------------------------------------------------------------
LEMMA InitHolds == BuffInit => RingInv
<1> SUFFICES ASSUME BuffInit PROVE RingInv
  OBVIOUS
<1> USE DEF BuffInit, BuffOpen
<1>1. BuffTypeOK
  <2>1. 0 \in Ring /\ Cell = 0..(BASESIZE + URL_BUFF_SIZE - 1)
    BY Sizes DEF Ring, Cell
  <2> QED
    BY <2>1 DEF BuffTypeOK, Unwritten
<1>2. Contents(buffer, wp, reader, posofs)
  BY Sizes DEF Contents
<1>3. pos + Passing + posofs = reader - Ahead(wp, Place)
  BY Sizes DEF Passing, Ahead, Place
<1> QED
  BY <1>1, <1>2, <1>3 DEF RingInv

(* What is left to show of a step that refills at the place, if at all,    *)
(* and then moves it: the type of what it assigns, and the new position.   *)
LEMMA FgetcKeeps ==
  ASSUME RingInv, loop \in {"none", "toEnd"}, Fgetc
  PROVE  /\ buffer' \in [Cell -> Int] /\ wp' \in Ring /\ reader' \in Nat
         /\ rp' \in Ring /\ pos' \in Nat
         /\ Contents(buffer', wp', reader', posofs)
         /\ pos' + posofs = reader' - Ahead(wp', rp')
<1> USE DEF RingInv, BuffTypeOK
<1>1. Place = rp /\ Passing = 0
  BY DEF Place, Passing
<1>2. CASE eof
  BY <1>1, <1>2 DEF Fgetc
<1>3. CASE ~eof
  <2>1. Refill(rp)
    BY <1>3 DEF Fgetc
  <2>2. /\ buffer' \in [Cell -> Int] /\ wp' \in Ring /\ reader' \in Nat
        /\ Contents(buffer', wp', reader', posofs)
        /\ reader' - Ahead(wp', rp) = reader - Ahead(wp, rp)
    BY <2>1, RefillKeeps
  <2>3. pos + posofs = reader' - Ahead(wp', rp)
    BY <1>1, <2>2
  <2>4. CASE rp = wp'
    BY <1>3, <2>2, <2>3, <2>4 DEF Fgetc
  <2>5. CASE rp # wp'
    <3>1. rp' = Mask(rp + 1) /\ pos' = pos + 1
      BY <1>3, <2>5 DEF Fgetc
    <3>2. Ahead(wp', rp) \in Nat /\ 1 <= Ahead(wp', rp)
      BY <2>2, <2>5, AheadThere
    <3>3. Mask(rp + 1) \in Ring /\ Ahead(wp', Mask(rp + 1)) = Ahead(wp', rp) - 1
      BY <2>2, <3>2, MoveAhead
    <3> QED
      BY <2>2, <2>3, <3>1, <3>2, <3>3
  <2> QED
    BY <2>4, <2>5
<1> QED
  BY <1>2, <1>3

LEMMA Unchanged ==
  ASSUME RingInv, buff' = buff, reader' = reader, out' = out \/ loop = "none"
  PROVE  RingInv'
<1>1. /\ buffer' = buffer /\ wp' = wp /\ rp' = rp /\ pos' = pos /\ posofs' = posofs
      /\ loop' = loop /\ r' = r /\ moved' = moved /\ left' = left
  BY DEF buff
<1>2. Place' = Place /\ Passing' = Passing
  BY <1>1 DEF Place, Passing
<1>3. BuffTypeOK'
  BY <1>1 DEF RingInv, BuffTypeOK
<1> QED
  BY <1>1, <1>2, <1>3 DEF RingInv

(* A step that ends outside the loops, or in the one that calls fgetc. *)
LEMMA Outside ==
  ASSUME buffer' \in [Cell -> Int], wp' \in Ring, reader' \in Nat,
         rp' \in Ring, r' \in Ring, pos' \in Nat, posofs' \in Nat,
         loop' \in {"none", "toEnd"},
         Contents(buffer', wp', reader', posofs'),
         pos' + posofs' = reader' - Ahead(wp', rp')
  PROVE  RingInv'
<1>1. Place' = rp' /\ Passing' = 0
  BY DEF Place, Passing
<1>2. BuffTypeOK'
  BY DEF BuffTypeOK
<1>3. pos' + Passing' + posofs' = reader' - Ahead(wp', Place')
  BY <1>1
<1> QED
  BY <1>2, <1>3 DEF RingInv

LEMMA FgetcStep ==
  ASSUME RingInv, loop = "none", BuffFgetc
  PROVE  RingInv'
<1>1. Fgetc /\ posofs' = posofs /\ loop' = loop /\ r' = r
  BY DEF BuffFgetc
<1>2. /\ buffer' \in [Cell -> Int] /\ wp' \in Ring /\ reader' \in Nat
      /\ rp' \in Ring /\ pos' \in Nat
      /\ Contents(buffer', wp', reader', posofs)
      /\ pos' + posofs = reader' - Ahead(wp', rp')
  BY <1>1, FgetcKeeps
<1>3. r \in Ring /\ posofs \in Nat
  BY DEF RingInv, BuffTypeOK
<1> QED
  BY <1>1, <1>2, <1>3, Outside

LEMMA ToEndStep ==
  ASSUME RingInv, ToEndRound
  PROVE  RingInv'
<1>1. Fgetc /\ posofs' = posofs /\ loop' = loop /\ r' = r /\ loop = "toEnd"
  BY DEF ToEndRound
<1>2. /\ buffer' \in [Cell -> Int] /\ wp' \in Ring /\ reader' \in Nat
      /\ rp' \in Ring /\ pos' \in Nat
      /\ Contents(buffer', wp', reader', posofs)
      /\ pos' + posofs = reader' - Ahead(wp', rp')
  BY <1>1, FgetcKeeps
<1>3. r \in Ring /\ posofs \in Nat
  BY DEF RingInv, BuffTypeOK
<1> QED
  BY <1>1, <1>2, <1>3, Outside

(* The first fragment ends at the write pointer or at the end of the ring, *)
(* and the second lies at its start.                                       *)
LEMMA ReadStep ==
  ASSUME RingInv, loop = "none", NEW n \in Nat, BuffRead(n)
  PROVE  RingInv'
<1> USE DEF RingInv, BuffTypeOK
<1>1. /\ posofs' = posofs /\ loop' = loop /\ r' = r
      /\ pos + posofs = reader - Ahead(wp, rp)
  <2>1. Place = rp /\ Passing = 0
    BY DEF Place, Passing
  <2> QED
    BY <2>1 DEF BuffRead
<1>2. CASE ReadNothing
  <2>1. rp' = rp /\ pos' = pos
    BY <1>2 DEF ReadNothing
  <2>2. CASE eof
    BY <1>1, <1>2, <2>1, <2>2, Outside DEF ReadNothing
  <2>3. CASE ~eof
    <3>1. Refill(rp)
      BY <1>2, <2>3 DEF ReadNothing
    <3>2. /\ buffer' \in [Cell -> Int] /\ wp' \in Ring /\ reader' \in Nat
          /\ Contents(buffer', wp', reader', posofs)
          /\ reader' - Ahead(wp', rp) = reader - Ahead(wp, rp)
      BY <3>1, RefillKeeps
    <3> QED
      BY <1>1, <2>1, <3>2, Outside
  <2> QED
    BY <2>2, <2>3
<1>3. CASE ReadFragments(n)
  <2> DEFINE i == Fragment(rp, n)
             to == Mask(rp + i)
             j == Least(wp', n - i)
  <2>1. Refill(rp)
    BY <1>3 DEF ReadFragments
  <2>2. /\ buffer' \in [Cell -> Int] /\ wp' \in Ring /\ reader' \in Nat
        /\ Contents(buffer', wp', reader', posofs)
        /\ reader' - Ahead(wp', rp) = reader - Ahead(wp, rp)
    BY <2>1, RefillKeeps
  <2>3. i \in Nat /\ i <= n /\ i <= Ahead(wp', rp)
    BY <2>2, FragmentThere
  <2>4. to \in Ring /\ Ahead(wp', to) = Ahead(wp', rp) - i
    BY <2>2, <2>3, MoveAhead
  <2>5. CASE i = n \/ to = wp' \/ to # 0
    <3>1. rp' = to /\ pos' = pos + i
      BY <1>3, <2>5 DEF ReadFragments
    <3>2. pos' + posofs = reader' - Ahead(wp', rp')
      <4>1. Ahead(wp', rp) \in Nat /\ Ahead(wp', to) \in Nat
        BY <2>2, <2>4, AheadThere
      <4> QED
        BY <1>1, <2>2, <2>3, <2>4, <3>1, <4>1
    <3> QED
      BY <1>1, <2>2, <2>3, <2>4, <3>1, <3>2, Outside
  <2>6. CASE ~(i = n \/ to = wp' \/ to # 0)
    <3>1. rp' = j /\ pos' = pos + i + j
      BY <1>3, <2>6 DEF ReadFragments
    <3>2. wp' \in Nat /\ j \in Nat /\ j <= wp' /\ j \in Ring
      <4>1. PICK w \in Ring : w = wp'
        BY <2>2
      <4>2. n - i \in Nat
        BY <2>3
      <4>3. Least(w, n - i) \in Nat /\ Least(w, n - i) <= w
        BY <4>2, Sizes DEF Least, Ring
      <4> QED
        BY <4>1, <4>3, Sizes DEF Ring
    <3>3. Ahead(wp', 0) = wp' /\ Ahead(wp', j) = wp' - j
      <4>1. \A w \in Ring, k \in Nat : k <= w => Ahead(w, k) = w - k
        BY Sizes DEF Ahead, Ring
      <4>2. \A k \in Nat : 0 <= k /\ k - 0 = k
        OBVIOUS
      <4> QED
        BY <2>2, <3>2, <4>1, <4>2, Sizes
    <3>4. pos' + posofs = reader' - Ahead(wp', rp')
      <4>1. Ahead(wp', rp) \in Nat
        BY <2>2, AheadThere
      <4>2. wp' = Ahead(wp', rp) - i
        BY <2>4, <2>6, <3>3
      <4>3. Ahead(wp', j) = Ahead(wp', rp) - (i + j)
        BY <2>3, <3>2, <3>3, <4>1, <4>2
      <4>4. pos + posofs = reader' - Ahead(wp', rp)
        BY <1>1, <2>2
      <4>5. pos \in Nat /\ posofs \in Nat /\ reader' \in Nat
        BY <2>2
      <4> HIDE DEF RingInv, BuffTypeOK
      <4> QED
        BY <2>3, <3>1, <3>2, <4>1, <4>3, <4>4, <4>5
    <3> QED
      BY <1>1, <2>2, <2>3, <3>1, <3>2, <3>4, Outside
  <2> QED
    BY <2>5, <2>6
<1> QED
  BY <1>2, <1>3 DEF BuffRead

LEMMA GetsStep ==
  ASSUME RingInv, loop \in {"none", "gets"}, NEW maxsiz \in Int, BuffGets(maxsiz)
  PROVE  RingInv'
<1> USE DEF RingInv, BuffTypeOK
<1>1. CASE GetsBegin(maxsiz)
  <2> USE DEF GetsBegin
  <2>1. Place = rp /\ Passing = 0
    BY <1>1 DEF Place, Passing
  <2>2. Place' = rp /\ Passing' = 0
    BY <1>1 DEF Place, Passing
  <2>3. BuffTypeOK'
    BY <1>1
  <2>4. Contents(buffer', wp', reader', posofs')
    BY <1>1
  <2> QED
    BY <1>1, <2>1, <2>2, <2>3, <2>4
<1>2. CASE GetsNothing(maxsiz)
  <2>1. buff' = buff /\ reader' = reader /\ out' = out
    BY <1>2 DEF GetsNothing
  <2> QED
    BY <2>1, Unchanged
<1>3. CASE GetsRound(maxsiz)
  <2>1. /\ Refill(r) /\ posofs' = posofs /\ loop = "gets"
        /\ out \in Seq(Int)
    BY <1>3 DEF GetsRound
  <2>2. /\ buffer' \in [Cell -> Int] /\ wp' \in Ring /\ reader' \in Nat
        /\ Contents(buffer', wp', reader', posofs)
        /\ reader' - Ahead(wp', r) = reader - Ahead(wp, r)
    BY <2>1, RefillKeeps
  <2>3. Len(out) \in Nat /\ pos + Len(out) + posofs = reader' - Ahead(wp', r)
    BY <2>1, <2>2 DEF Place, Passing
  <2>4. 0 \in Ring
    BY Sizes DEF Ring
  <2>5. CASE r = wp'
    <3>1. pos' = pos + Len(out) /\ rp' = r /\ loop' = "none" /\ r' = 0
      BY <1>3, <2>5 DEF GetsRound
    <3> QED
      BY <2>1, <2>2, <2>3, <2>4, <3>1, Outside
  <2>6. CASE r # wp'
    <3>1. out' = Append(out, buffer'[r]) /\ buffer'[r] \in Int
      <4>1. r \in Cell
        BY Sizes DEF Ring, Cell
      <4> QED
        BY <1>3, <2>2, <2>6, <4>1 DEF GetsRound
    <3>2. out' \in Seq(Int) /\ Len(out') = Len(out) + 1
      BY <2>1, <3>1
    <3>3. Ahead(wp', r) \in Nat /\ 1 <= Ahead(wp', r)
      BY <2>2, <2>6, AheadThere
    <3>4. Mask(r + 1) \in Ring /\ Ahead(wp', Mask(r + 1)) = Ahead(wp', r) - 1
      BY <2>2, <3>3, MoveAhead
    <3>5. pos + Len(out') + posofs = reader' - Ahead(wp', Mask(r + 1))
      <4>1. pos \in Nat /\ posofs \in Nat /\ reader' \in Nat
        BY <2>2
      <4> HIDE DEF RingInv, BuffTypeOK
      <4> QED
        BY SMTT(60), <2>3, <3>2, <3>3, <3>4, <4>1
    <3>6. CASE buffer'[r] \notin Newlines /\ Len(out') < maxsiz - 1
      <4>1. r' = Mask(r + 1) /\ pos' = pos /\ rp' = rp /\ loop' = loop
        BY <1>3, <2>6, <3>6 DEF GetsRound
      <4>2. Place' = r' /\ Passing' = Len(out')
        BY <2>1, <4>1 DEF Place, Passing
      <4>3. BuffTypeOK'
        BY <2>1, <2>2, <3>2, <3>4, <4>1
      <4> QED
        BY <2>1, <2>2, <3>5, <4>1, <4>2, <4>3
    <3>7. CASE ~(buffer'[r] \notin Newlines /\ Len(out') < maxsiz - 1)
      <4>1. rp' = Mask(r + 1) /\ pos' = pos + Len(out') /\ r' = 0 /\ loop' = "none"
        BY <1>3, <2>6, <3>7 DEF GetsRound
      <4> QED
        BY <2>1, <2>2, <2>3, <2>4, <3>2, <3>4, <3>5, <4>1, Outside
    <3> QED
      BY <3>6, <3>7
  <2> QED
    BY <2>5, <2>6
<1> QED
  BY <1>1, <1>2, <1>3 DEF BuffGets

(* After the switch of url_buff_seek(): nothing, or back if `filled' allows *)
(* it, or the loop.                                                         *)
LEMMA SeekByStep ==
  ASSUME RingInv, loop \in {"none", "toEnd"}, NEW diff \in Int, SeekBy(diff)
  PROVE  RingInv'
<1> USE DEF RingInv, BuffTypeOK
<1>1. /\ buffer' = buffer /\ wp' = wp /\ reader' = reader /\ posofs' = posofs
      /\ out' = out
      /\ pos + posofs = reader - Ahead(wp, rp)
  <2>1. Place = rp /\ Passing = 0
    BY DEF Place, Passing
  <2> QED
    BY <2>1 DEF SeekBy
<1>2. 0 \in Ring
  BY Sizes DEF Ring
<1>3. CASE diff = 0 /\ SeekStay
  BY <1>1, <1>2, <1>3, Outside DEF SeekStay, Finish
<1>4. CASE diff < 0 /\ SeekBack(-diff)
  <2>1. loop' = "none" /\ r' = 0
    BY <1>4 DEF SeekBack, Finish
  <2>2. CASE Filled < -diff
    BY <1>1, <1>2, <1>4, <2>1, <2>2, Outside DEF SeekBack
  <2>3. CASE ~(Filled < -diff)
    <3>1. -diff \in Nat /\ -diff <= Filled
      <4>1. Filled \in Int
        BY Sizes DEF Filled, Least, Ring
      <4> QED
        BY <1>4, <2>3, <4>1
    <3>2. /\ Behind(rp, -diff) \in Ring
          /\ -diff <= pos
          /\ Ahead(wp, Behind(rp, -diff)) = Ahead(wp, rp) + (-diff)
      BY <3>1, MoveBack
    <3>3. rp' = Behind(rp, -diff) /\ pos' = pos - (-diff)
      BY <1>4, <2>3 DEF SeekBack, Behind
    <3>4. Ahead(wp, rp) \in Nat
      BY AheadThere
    <3>5. pos' \in Nat /\ pos' + posofs = reader - Ahead(wp, rp')
      BY <1>1, <3>1, <3>2, <3>3, <3>4
    <3> QED
      BY <1>1, <1>2, <2>1, <3>2, <3>3, <3>5, Outside
  <2> QED
    BY <2>2, <2>3
<1>5. CASE diff > 0 /\ SeekAhead(diff)
  <2>1. /\ loop' = "ahead" /\ r' = rp /\ moved' = 0 /\ left' = diff
        /\ rp' = rp /\ pos' = pos
    BY <1>5 DEF SeekAhead
  <2>2. Place' = rp /\ Passing' = 0
    BY <2>1 DEF Place, Passing
  <2>3. BuffTypeOK'
    BY <1>1, <1>5, <2>1
  <2> QED
    BY <1>1, <2>1, <2>2, <2>3
<1> QED
  BY <1>3, <1>4, <1>5 DEF SeekBy

LEMMA AheadStep ==
  ASSUME RingInv, AheadRound
  PROVE  RingInv'
<1> USE DEF RingInv, BuffTypeOK
<1> DEFINE i == Fragment(r, left)
<1>1. /\ loop = "ahead" /\ Refill(r) /\ posofs' = posofs
      /\ moved \in Nat /\ left \in Nat
  BY DEF AheadRound
<1>2. /\ buffer' \in [Cell -> Int] /\ wp' \in Ring /\ reader' \in Nat
      /\ Contents(buffer', wp', reader', posofs)
      /\ reader' - Ahead(wp', r) = reader - Ahead(wp, r)
  BY <1>1, RefillKeeps
<1>3. pos + moved + posofs = reader' - Ahead(wp', r)
  BY <1>1, <1>2 DEF Place, Passing
<1>4. i \in Nat /\ i <= left /\ i <= Ahead(wp', r)
  BY <1>1, <1>2, FragmentThere
<1>5. Mask(r + i) \in Ring /\ Ahead(wp', Mask(r + i)) = Ahead(wp', r) - i
  BY <1>2, <1>4, MoveAhead
<1>6. pos + (moved + i) + posofs = reader' - Ahead(wp', Mask(r + i))
  <2>1. pos \in Nat /\ posofs \in Nat /\ reader' \in Nat /\ Ahead(wp', r) \in Nat
    BY <1>2, AheadThere
  <2> HIDE DEF RingInv, BuffTypeOK
  <2> QED
    BY <1>1, <1>3, <1>4, <1>5, <2>1
<1>7. 0 \in Ring
  BY Sizes DEF Ring
<1>8. CASE r = wp'
  <2>1. pos' = pos + moved /\ rp' = r /\ loop' = "none" /\ r' = 0
    BY <1>8 DEF AheadRound, Finish
  <2> QED
    BY <1>1, <1>2, <1>3, <1>7, <2>1, Outside
<1>9. CASE r # wp' /\ left > i
  <2>1. /\ moved' = moved + i /\ left' = left - i /\ r' = Mask(r + i)
        /\ pos' = pos /\ rp' = rp /\ loop' = loop
    BY <1>9 DEF AheadRound
  <2>2. Place' = r' /\ Passing' = moved'
    BY <1>1, <2>1 DEF Place, Passing
  <2>3. BuffTypeOK'
    BY <1>1, <1>2, <1>4, <1>5, <1>9, <2>1
  <2> QED
    BY <1>1, <1>2, <1>6, <2>1, <2>2, <2>3
<1>10. CASE r # wp' /\ ~(left > i)
  <2>1. /\ pos' = pos + moved + i /\ rp' = Mask(r + i) /\ loop' = "none" /\ r' = 0
    BY <1>10 DEF AheadRound, Finish
  <2>2. pos' = pos + (moved + i) /\ pos' \in Nat
    BY <1>1, <1>4, <2>1
  <2> QED
    BY <1>1, <1>2, <1>5, <1>6, <1>7, <2>1, <2>2, Outside
<1> QED
  BY <1>8, <1>9, <1>10

LEMMA SeekStep ==
  ASSUME RingInv, loop # "gets", NEW offset \in Int,
         NEW whence \in {"set", "cur", "end"}, BuffSeek(offset, whence)
  PROVE  RingInv'
<1>1. pos \in Int /\ posofs \in Int
  BY DEF RingInv, BuffTypeOK
<1>2. CASE loop = "none" /\ SeekBy(offset - (pos + posofs))
  <2>1. offset - (pos + posofs) \in Int
    BY <1>1
  <2> QED
    BY <1>2, <2>1, SeekByStep
<1>3. CASE loop \in {"none", "toEnd"} /\ SeekBy(offset)
  BY <1>3, SeekByStep
<1>4. CASE SeekToEnd
  <2>1. Place = rp /\ Place' = rp /\ Passing = 0 /\ Passing' = 0
    BY <1>4 DEF SeekToEnd, Place, Passing
  <2> QED
    BY <1>4, <2>1 DEF SeekToEnd, RingInv, BuffTypeOK
<1>5. CASE ToEndRound
  BY <1>5, ToEndStep
<1>6. CASE AheadRound
  BY <1>6, AheadStep
<1> QED
  BY <1>2, <1>3, <1>4, <1>5, <1>6 DEF BuffSeek

-----------------------------------------------------------------------------
(* The ring keeps the bytes behind its write pointer, and the position     *)
(* told is where the caller stands, through every call and every round of *)
(* its loops.                                                              *)
THEOREM InductiveInvariant == BuffSpec => []RingInv
<1>1. BuffInit => RingInv
  BY InitHolds
<1>2. RingInv /\ [BuffNext]_buff_vars => RingInv'
  <2> SUFFICES ASSUME RingInv, [BuffNext]_buff_vars PROVE RingInv'
    OBVIOUS
  <2>1. CASE loop = "none" /\ BuffFgetc
    BY <2>1, FgetcStep
  <2>2. ASSUME NEW n \in Nat \ {0}, loop = "none", BuffRead(n) PROVE RingInv'
    BY <2>2, ReadStep
  <2>3. ASSUME NEW maxsiz \in Int, loop \in {"none", "gets"}, BuffGets(maxsiz)
        PROVE  RingInv'
    BY <2>3, GetsStep
  <2>4. ASSUME NEW offset \in Int, NEW whence \in {"set", "cur", "end"},
               loop # "gets", BuffSeek(offset, whence)
        PROVE  RingInv'
    BY <2>4, SeekStep
  <2>5. CASE UNCHANGED buff_vars
    BY <2>5, Unchanged DEF buff_vars
  <2> QED
    BY <2>1, <2>2, <2>3, <2>4, <2>5 DEF BuffNext
<1> QED
  BY <1>1, <1>2, PTL DEF BuffSpec

(* Every byte that a caller may still read or go back to lies in its place *)
(* (url_buff.c:63).                                                        *)
THEOREM BytesInPlace == BuffSpec => []RingHolds
<1>1. RingInv => RingHolds
  BY Reach
<1> QED
  BY <1>1, InductiveInvariant, PTL

-----------------------------------------------------------------------------
(* 2. The memory of a cached stream.                                       *)

(* A set of numbers that is not empty has a least one: with it a recursive *)
(* function is shown to exist and a loop to keep what each round keeps.    *)
LEMMA LeastNatural ==
  ASSUME NEW T \in SUBSET Nat, T # {}
  PROVE  \E n \in T : \A m \in T : n <= m
<1>1. PICK n \in T : \A m \in T : <<m, n>> \notin OpToRel(<, Nat)
  BY NatLessThanWellFounded, WFMin
<1>2. \A m \in T : ~(m < n)
  BY <1>1 DEF OpToRel
<1> QED
  BY <1>2

(* The place of the first byte of node k, when those before it are full    *)
StartOf(k) == (k - 1) * MEMBASESIZE

(* The nodes hold the numbers of the source that follow `from'. *)
Nodes(nodes, from) ==
  /\ nodes \in Seq([base : Seq(Int), pos : Nat])
  /\ \A k \in 1..Len(nodes) :
       /\ Len(nodes[k].base) <= MEMBASESIZE
       /\ k > 1 => Len(nodes[k].base) >= 1
       /\ k < Len(nodes) => Len(nodes[k].base) = MEMBASESIZE
       /\ \A i \in 1..Len(nodes[k].base) :
            nodes[k].base[i] = from + StartOf(k) + i - 1
(* how many bytes all nodes hold *)
Extent(nodes) == StartOf(Len(nodes)) + Len(nodes[Len(nodes)].base)
(* a MemBuffer of the numbers that follow `from', whose cursor is in it *)
Memory(m, from) ==
  /\ m = [node |-> m.node, cur |-> m.cur, total_size |-> m.total_size]
  /\ Nodes(m.node, from)
  /\ IF m.node = <<>> THEN m.cur = 0 /\ m.total_size = 0
     ELSE /\ m.cur \in 1..Len(m.node) /\ m.total_size = Extent(m.node)
          /\ m.node[m.cur].pos <= Len(m.node[m.cur].base)
(* how many bytes lie before the cursor *)
Cursor(m) == IF m.node = <<>> THEN 0 ELSE StartOf(m.cur) + m.node[m.cur].pos

LEMMA StartFacts ==
  /\ StartOf(1) = 0
  /\ \A k \in Nat \ {0} : StartOf(k) \in Nat /\ StartOf(k + 1) = StartOf(k) + MEMBASESIZE
  /\ \A j, k \in Nat \ {0} : j <= k => StartOf(j) <= StartOf(k)
<1>1. MEMBASESIZE \in Nat
  BY NodeAssumption
<1>2. ASSUME NEW k \in Nat \ {0}
      PROVE  StartOf(k) \in Nat /\ StartOf(k + 1) = StartOf(k) + MEMBASESIZE
  <2>1. k - 1 \in Nat /\ (k - 1) * MEMBASESIZE \in Nat
    BY <1>1
  <2>2. k * MEMBASESIZE = (k - 1) * MEMBASESIZE + MEMBASESIZE
    BY <1>1
  <2> QED
    BY <2>1, <2>2 DEF StartOf
<1>3. ASSUME NEW j \in Nat \ {0}, NEW k \in Nat \ {0}, j <= k
      PROVE  StartOf(j) <= StartOf(k)
  <2>1. (k - j) * MEMBASESIZE \in Nat
    BY <1>1, <1>3
  <2>2. (k - 1) * MEMBASESIZE = (j - 1) * MEMBASESIZE + (k - j) * MEMBASESIZE
    BY <1>1
  <2>3. (j - 1) * MEMBASESIZE \in Nat
    BY <1>1
  <2> QED
    BY <2>1, <2>2, <2>3 DEF StartOf
<1>4. StartOf(1) = 0
  BY <1>1 DEF StartOf
<1> QED
  BY <1>2, <1>3, <1>4

(* What is known of the node k and of the cursor. *)
LEMMA NodeFacts ==
  ASSUME NEW m, NEW from \in Int, Memory(m, from), m.node # <<>>
  PROVE  /\ m = [node |-> m.node, cur |-> m.cur, total_size |-> m.total_size]
         /\ m.node \in Seq([base : Seq(Int), pos : Nat])
         /\ Len(m.node) \in Nat \ {0} /\ Len(m.node) \in 1..Len(m.node)
         /\ m.cur \in Nat \ {0} /\ m.cur <= Len(m.node) /\ m.cur \in 1..Len(m.node)
         /\ m.node[m.cur].pos <= Len(m.node[m.cur].base)
         /\ m.total_size = Extent(m.node)
         /\ \A k \in 1..Len(m.node) :
              /\ m.node[k] \in [base : Seq(Int), pos : Nat]
              /\ m.node[k].pos \in Nat /\ Len(m.node[k].base) \in Nat
              /\ Len(m.node[k].base) <= MEMBASESIZE
              /\ k > 1 => Len(m.node[k].base) >= 1
              /\ k < Len(m.node) => Len(m.node[k].base) = MEMBASESIZE
              /\ \A i \in 1..Len(m.node[k].base) :
                   m.node[k].base[i] = from + StartOf(k) + i - 1
<1>1. m.node \in Seq([base : Seq(Int), pos : Nat])
  BY DEF Memory, Nodes
<1>2. Len(m.node) \in Nat \ {0} /\ Len(m.node) \in 1..Len(m.node)
  <2>1. Len(m.node) \in Nat /\ Len(m.node) # 0
    BY <1>1, EmptySeq
  <2> QED
    BY <2>1
<1>3. m.cur \in 1..Len(m.node)
  BY DEF Memory
<1>4. \A k \in 1..Len(m.node) : m.node[k] \in [base : Seq(Int), pos : Nat]
  BY <1>1, ElementOfSeq
<1>5. \A k \in 1..Len(m.node) : m.node[k].pos \in Nat /\ m.node[k].base \in Seq(Int)
  BY <1>4
<1>6. \A k \in 1..Len(m.node) : Len(m.node[k].base) \in Nat
  BY <1>5
<1>7. m.cur \in Nat \ {0} /\ m.cur <= Len(m.node)
  BY <1>2, <1>3
<1> QED
  BY <1>1, <1>2, <1>3, <1>4, <1>5, <1>6, <1>7 DEF Memory, Nodes

(* The cursor is never behind the last byte, and at the end only there. *)
LEMMA CursorThere ==
  ASSUME NEW m, NEW from \in Int, Memory(m, from)
  PROVE  /\ Cursor(m) \in Nat /\ m.total_size \in Nat /\ Cursor(m) <= m.total_size
         /\ m.node # <<>> => (AtEnd(m) <=> Cursor(m) = m.total_size)
<1>1. CASE m.node = <<>>
  BY <1>1 DEF Memory, Cursor
<1>2. CASE m.node # <<>>
  <2> DEFINE c == m.cur
             l == Len(m.node)
             p == m.node[c].pos
             s == Len(m.node[c].base)
             t == Len(m.node[l].base)
  <2>1. /\ l \in Nat \ {0} /\ c \in Nat \ {0} /\ c <= l
        /\ p \in Nat /\ s \in Nat /\ t \in Nat /\ p <= s
        /\ s <= MEMBASESIZE
        /\ l > 1 => t >= 1
        /\ c < l => s = MEMBASESIZE
    BY <1>2, NodeFacts
  <2>2. c = l => s = t
    OBVIOUS
  <2>3. /\ Cursor(m) = StartOf(c) + p
        /\ m.total_size = StartOf(l) + t
    BY <1>2, NodeFacts DEF Extent, Cursor
  <2>5. AtEnd(m) <=> c = l /\ p = s
    BY DEF AtEnd
  <2> HIDE DEF c, l, p, s, t
  <2>4. /\ StartOf(c) \in Nat /\ StartOf(l) \in Nat
        /\ StartOf(c + 1) = StartOf(c) + MEMBASESIZE
    BY <2>1, StartFacts
  <2>6. MEMBASESIZE \in Nat
    BY NodeAssumption
  <2>9. Cursor(m) \in Nat /\ m.total_size \in Nat
    BY <2>1, <2>3, <2>4
  <2>7. CASE c = l
    BY <2>1, <2>2, <2>3, <2>4, <2>5, <2>7, <2>9
  <2>8. CASE c < l
    <3>0. c + 1 \in Nat \ {0} /\ c + 1 <= l
      BY <2>1, <2>8
    <3>1. StartOf(c + 1) <= StartOf(l) /\ t >= 1
      BY <2>1, <2>8, <3>0, StartFacts
    <3>2. Cursor(m) < m.total_size
      BY <2>1, <2>3, <2>4, <2>6, <3>1
    <3> QED
      BY <2>1, <2>5, <2>8, <2>9, <3>2
  <2> QED
    BY <2>1, <2>7, <2>8
<1> QED
  BY <1>1, <1>2

(* Moving the cursor to place p of node c changes no byte. *)
Moved(m, c, p) == [m EXCEPT !.cur = c, !.node[c].pos = p]

LEMMA MovedKeeps ==
  ASSUME NEW m, NEW from \in Int, Memory(m, from), m.node # <<>>,
         NEW c \in 1..Len(m.node), NEW p \in 0..Len(m.node[c].base),
         NEW n, n = Moved(m, c, p)
  PROVE  /\ Memory(n, from) /\ n.node # <<>> /\ n.total_size = m.total_size
         /\ n.cur = c /\ n.node[c].pos = p /\ n.node[c].base = m.node[c].base
         /\ Cursor(n) = StartOf(c) + p
<1> DEFINE l == Len(m.node)
           Node == [base : Seq(Int), pos : Nat]
           node == [m.node EXCEPT ![c] = [m.node[c] EXCEPT !.pos = p]]
<1>1. /\ m = [node |-> m.node, cur |-> m.cur, total_size |-> m.total_size]
      /\ m.node \in Seq(Node) /\ l \in Nat \ {0} /\ l \in 1..l
      /\ m.total_size = Extent(m.node)
      /\ m.node[c] \in Node /\ Len(m.node[c].base) \in Nat
  BY NodeFacts
<1>2. n = [node |-> node, cur |-> c, total_size |-> m.total_size]
  <2>1. n = [[m EXCEPT !.cur = c] EXCEPT !.node = node]
    BY DEF Moved
  <2> HIDE DEF node
  <2> QED
    BY <1>1, <2>1
<1>4. p \in Nat /\ p <= Len(m.node[c].base)
  BY <1>1
<1>5. [m.node[c] EXCEPT !.pos = p] = [base |-> m.node[c].base, pos |-> p]
  <2>1. \A e \in Node : [e EXCEPT !.pos = p] = [base |-> e.base, pos |-> p]
    OBVIOUS
  <2> QED
    BY <1>1, <2>1
<1>6. node \in Seq(Node) /\ Len(node) = l
  <2>1. [m.node[c] EXCEPT !.pos = p] \in Node
    BY <1>1, <1>4
  <2> QED
    BY <1>1, <2>1
<1>7. /\ \A k \in 1..l : node[k].base = m.node[k].base
      /\ node[c].pos = p
  <2>1. \A k \in 1..l : k # c => node[k] = m.node[k]
    BY <1>1
  <2>2. node[c] = [base |-> m.node[c].base, pos |-> p]
    BY <1>1, <1>5
  <2> HIDE DEF node
  <2> QED
    BY <2>1, <2>2
<1> HIDE DEF node
<1>3. n.node = node /\ n.cur = c /\ n.total_size = m.total_size
  BY <1>2
<1>8. Nodes(node, from)
  <2>1. Nodes(m.node, from)
    BY DEF Memory
  <2> QED
    BY <1>6, <1>7, <2>1 DEF Nodes
<1>9. node # <<>> /\ Extent(node) = Extent(m.node)
  <2>1. node # <<>>
    BY <1>1, <1>6
  <2>2. node[l].base = m.node[l].base
    BY <1>1, <1>7
  <2> QED
    BY <1>6, <2>1, <2>2 DEF Extent
<1>10. Memory(n, from)
  <2>1. n.cur \in 1..Len(n.node)
    BY <1>3, <1>6
  <2>2. n.node[n.cur].pos <= Len(n.node[n.cur].base)
    BY <1>3, <1>4, <1>7
  <2>3. n = [node |-> n.node, cur |-> n.cur, total_size |-> n.total_size]
    BY <1>2, <1>3
  <2> QED
    BY <1>1, <1>3, <1>8, <1>9, <2>1, <2>2, <2>3 DEF Memory
<1> QED
  BY <1>3, <1>7, <1>9, <1>10 DEF Cursor

LEMMA ForwardOne ==
  ASSUME NEW m, NEW from \in Int, Memory(m, from), m.node # <<>>, ~AtEnd(m)
  PROVE  /\ Memory(Forward(m), from) /\ Forward(m).node # <<>>
         /\ Forward(m).total_size = m.total_size
         /\ Cursor(Forward(m)) = Cursor(m) + 1
         /\ Passed(Forward(m)) = from + Cursor(m)
<1> DEFINE c == m.cur
           l == Len(m.node)
           p == m.node[c].pos
           s == Len(m.node[c].base)
<1>1. /\ l \in Nat \ {0} /\ c \in 1..l /\ c \in Nat \ {0} /\ c <= l
      /\ p \in Nat /\ s \in Nat /\ p <= s
      /\ m = [node |-> m.node, cur |-> m.cur, total_size |-> m.total_size]
  BY NodeFacts
<1>2. StartOf(c) \in Nat /\ StartOf(c + 1) = StartOf(c) + MEMBASESIZE
  BY <1>1, StartFacts
<1>3. MEMBASESIZE \in Nat
  BY NodeAssumption
<1>4. Cursor(m) = StartOf(c) + p
  BY DEF Cursor
<1>5. \A k \in 1..l : \A i \in 1..Len(m.node[k].base) :
        m.node[k].base[i] = from + StartOf(k) + i - 1
  BY NodeFacts
<1>6. CASE p < s
  <2>1. p + 1 \in 0..s /\ p + 1 \in 1..s
    BY <1>1, <1>6
  <2>2. Forward(m) = Moved(m, c, p + 1)
    <3>1. Forward(m) = [m EXCEPT !.node[c].pos = p + 1]
      BY <1>6 DEF Forward
    <3>2. [m EXCEPT !.cur = c] = m
      BY <1>1
    <3> QED
      BY <3>1, <3>2 DEF Moved
  <2>3. /\ Memory(Forward(m), from) /\ Forward(m).node # <<>>
        /\ Forward(m).total_size = m.total_size
        /\ Forward(m).cur = c /\ Forward(m).node[c].pos = p + 1
        /\ Forward(m).node[c].base = m.node[c].base
        /\ Cursor(Forward(m)) = StartOf(c) + (p + 1)
    <3> HIDE DEF p
    <3> QED
      BY <1>1, <2>1, <2>2, MovedKeeps DEF l, s
  <2>4. Passed(Forward(m)) = m.node[c].base[p + 1]
    BY <2>3 DEF Passed
  <2>5. m.node[c].base[p + 1] = from + StartOf(c) + (p + 1) - 1
    BY <1>1, <1>5, <2>1
  <2> HIDE DEF c, p, s, l
  <2>6. /\ Cursor(Forward(m)) = Cursor(m) + 1
        /\ Passed(Forward(m)) = from + Cursor(m)
    BY <1>1, <1>2, <1>4, <2>3, <2>4, <2>5
  <2> QED
    BY <2>3, <2>6
<1>7. CASE ~(p < s)
  <2>1. c < l /\ p = s
    BY <1>1, <1>7 DEF AtEnd
  <2>0. c + 1 \in 1..l /\ c + 1 > 1
    <3> HIDE DEF c, l
    <3> QED
      BY <1>1, <2>1
  <2>2. s = MEMBASESIZE /\ Len(m.node[c + 1].base) >= 1 /\ Len(m.node[c + 1].base) \in Nat
    BY <1>1, <2>0, <2>1, NodeFacts
  <2>3. 1 \in 0..Len(m.node[c + 1].base) /\ 1 \in 1..Len(m.node[c + 1].base)
    BY <2>2
  <2>4. Forward(m) = Moved(m, c + 1, 1)
    BY <1>1, <1>7 DEF Forward, Moved
  <2> DEFINE d == c + 1
  <2>5. /\ Memory(Forward(m), from) /\ Forward(m).node # <<>>
        /\ Forward(m).total_size = m.total_size
        /\ Forward(m).cur = d /\ Forward(m).node[d].pos = 1
        /\ Forward(m).node[d].base = m.node[d].base
        /\ Cursor(Forward(m)) = StartOf(d) + 1
    <3> HIDE DEF d
    <3>1. /\ d \in 1..Len(m.node) /\ 1 \in 0..Len(m.node[d].base)
          /\ Forward(m) = Moved(m, d, 1)
      BY <2>0, <2>3, <2>4 DEF d
    <3> QED
      BY <3>1, MovedKeeps
  <2>6. Passed(Forward(m)) = m.node[d].base[1]
    BY <2>5 DEF Passed
  <2>7. m.node[d].base[1] = from + StartOf(d) + 1 - 1
    BY <1>5, <2>0, <2>3
  <2>8. StartOf(d) = StartOf(c) + MEMBASESIZE
    BY <1>2
  <2> HIDE DEF c, p, s, l, d
  <2>9. /\ Cursor(Forward(m)) = Cursor(m) + 1
        /\ Passed(Forward(m)) = from + Cursor(m)
    BY <1>1, <1>2, <1>3, <1>4, <2>1, <2>2, <2>5, <2>6, <2>7, <2>8
  <2> QED
    BY <2>5, <2>9
<1> QED
  BY <1>6, <1>7

-----------------------------------------------------------------------------
(* The loop of read_memb(): its rounds are those of a function f. *)
IsTaken(f, m, n) ==
  f = [k \in 0..n |->
         IF k = 0 THEN [memb |-> m, bytes |-> <<>>]
         ELSE IF AtEnd(f[k - 1].memb) THEN f[k - 1]
         ELSE LET on == Forward(f[k - 1].memb)
              IN  [memb |-> on, bytes |-> Append(f[k - 1].bytes, Passed(on))]]

LEMMA TakenExists ==
  ASSUME NEW m, NEW n \in Nat
  PROVE  \E f : IsTaken(f, m, n)
<1> DEFINE T == {k \in Nat : ~ \E f : IsTaken(f, m, k)}
<1> SUFFICES ASSUME T # {} PROVE FALSE
  OBVIOUS
<1>1. PICK k \in T : \A j \in T : k <= j
  BY LeastNatural
<1>2. k \in Nat /\ ~ \E f : IsTaken(f, m, k)
  BY <1>1
<1>3. CASE k = 0
  <2> DEFINE f == [j \in 0..0 |-> [memb |-> m, bytes |-> <<>>]]
  <2>1. IsTaken(f, m, 0)
    BY DEF IsTaken
  <2> QED
    BY <1>2, <1>3, <2>1
<1>4. CASE k # 0
  <2>1. k - 1 \in Nat /\ ~(k <= k - 1)
    BY <1>2, <1>4
  <2>2. PICK g : IsTaken(g, m, k - 1)
    BY <1>1, <2>1
  <2> DEFINE
    Next(x) == IF AtEnd(x.memb) THEN x
               ELSE LET on == Forward(x.memb)
                    IN  [memb |-> on, bytes |-> Append(x.bytes, Passed(on))]
    f == [j \in 0..k |-> IF j = k THEN Next(g[k - 1]) ELSE g[j]]
  <2>3. \A j \in 0..k - 1 :
          g[j] = IF j = 0 THEN [memb |-> m, bytes |-> <<>>] ELSE Next(g[j - 1])
    BY <2>2 DEF IsTaken
  <2>4. \A j \in 0..k :
          f[j] = IF j = 0 THEN [memb |-> m, bytes |-> <<>>] ELSE Next(f[j - 1])
    <3> HIDE DEF Next
    <3> SUFFICES ASSUME NEW j \in 0..k
                 PROVE  f[j] = IF j = 0 THEN [memb |-> m, bytes |-> <<>>]
                               ELSE Next(f[j - 1])
      OBVIOUS
    <3>1. CASE j = k
      <4>1. f[j] = Next(g[k - 1]) /\ f[k - 1] = g[k - 1] /\ j # 0
        BY <1>2, <1>4, <2>1, <3>1
      <4> QED
        BY <3>1, <4>1
    <3>2. CASE j # k /\ j # 0
      <4>1. j \in 0..k - 1 /\ j - 1 \in 0..k /\ j - 1 # k
        BY <1>2, <3>2
      <4> QED
        BY <2>3, <3>2, <4>1
    <3>3. CASE j # k /\ j = 0
      BY <1>2, <1>4, <2>1, <2>3, <3>3
    <3> QED
      BY <3>1, <3>2, <3>3
  <2>5. f = [j \in 0..k |-> f[j]]
    OBVIOUS
  <2> HIDE DEF f
  <2>6. IsTaken(f, m, k)
    BY <2>4, <2>5 DEF IsTaken
  <2> QED
    BY <1>2, <2>6
<1> QED
  BY <1>3, <1>4

LEMMA TakenFunction ==
  ASSUME NEW m, NEW n \in Nat
  PROVE  \E f : IsTaken(f, m, n) /\ Taken(m, n) = f[n]
<1> DEFINE f == CHOOSE g : g = [k \in 0..n |->
         IF k = 0 THEN [memb |-> m, bytes |-> <<>>]
         ELSE IF AtEnd(g[k - 1].memb) THEN g[k - 1]
         ELSE LET on == Forward(g[k - 1].memb)
              IN  [memb |-> on, bytes |-> Append(g[k - 1].bytes, Passed(on))]]
<1>1. Taken(m, n) = f[n]
  BY DEF Taken
<1>2. \E g : g = [k \in 0..n |->
         IF k = 0 THEN [memb |-> m, bytes |-> <<>>]
         ELSE IF AtEnd(g[k - 1].memb) THEN g[k - 1]
         ELSE LET on == Forward(g[k - 1].memb)
              IN  [memb |-> on, bytes |-> Append(g[k - 1].bytes, Passed(on))]]
  BY TakenExists DEF IsTaken
<1>3. IsTaken(f, m, n)
  BY <1>2 DEF IsTaken
<1> QED
  BY <1>1, <1>3

(* The next n bytes, or as many as there are *)
Fewer(n, k) == IF n <= k THEN n ELSE k
Numbers(from, n) == [i \in 1..n |-> from + i - 1]
After(t, m, from, n) ==
  LET k == Fewer(n, m.total_size - Cursor(m))
  IN  /\ Memory(t.memb, from) /\ (t.memb.node = <<>> <=> m.node = <<>>)
      /\ t.memb.total_size = m.total_size
      /\ Cursor(t.memb) = Cursor(m) + k
      /\ t.bytes = Numbers(from + Cursor(m), k)

LEMMA TakenAfter ==
  ASSUME NEW m, NEW from \in Int, Memory(m, from), m.node # <<>>, NEW n \in Nat
  PROVE  After(Taken(m, n), m, from, n)
<1>1. PICK f : IsTaken(f, m, n) /\ Taken(m, n) = f[n]
  BY TakenFunction
<1> DEFINE T == {k \in Nat : k <= n /\ ~After(f[k], m, from, k)}
<1> SUFFICES ASSUME T # {} PROVE FALSE
  BY <1>1
<1>2. PICK k \in T : \A j \in T : k <= j
  BY LeastNatural
<1>3. k \in Nat /\ k <= n /\ ~After(f[k], m, from, k) /\ k \in 0..n
  BY <1>2
<1>4. Cursor(m) \in Nat /\ m.total_size \in Nat /\ Cursor(m) <= m.total_size
  BY CursorThere
<1>5. CASE k = 0
  <2>1. f[k] = [memb |-> m, bytes |-> <<>>]
    BY <1>1, <1>3, <1>5 DEF IsTaken
  <2>2. Fewer(k, m.total_size - Cursor(m)) = 0
    BY <1>4, <1>5 DEF Fewer
  <2>3. Numbers(from + Cursor(m), 0) = <<>>
    BY DEF Numbers
  <2>4. f[k].memb = m /\ f[k].bytes = <<>> /\ Cursor(m) + 0 = Cursor(m)
    BY <1>4, <2>1
  <2> QED
    BY <1>3, <2>2, <2>3, <2>4 DEF After
<1>6. CASE k # 0
  <2>1. k - 1 \in Nat /\ ~(k <= k - 1) /\ k - 1 <= n
    BY <1>3, <1>6
  <2>2. After(f[k - 1], m, from, k - 1)
    BY <1>2, <2>1
  <2> DEFINE g == f[k - 1]
             x == g.memb
             d == Fewer(k - 1, m.total_size - Cursor(m))
  <2>3. /\ Memory(x, from) /\ x.node # <<>>
        /\ x.total_size = m.total_size
        /\ Cursor(x) = Cursor(m) + d
        /\ g.bytes = Numbers(from + Cursor(m), d)
    BY <2>2 DEF After
  <2>4. d \in Nat /\ d <= k - 1 /\ d <= m.total_size - Cursor(m)
        /\ (d = k - 1 \/ d = m.total_size - Cursor(m))
    BY <1>4, <2>1 DEF Fewer
  <2>5. AtEnd(x) <=> Cursor(x) = x.total_size
    BY <2>3, CursorThere
  <2>6. f[k] = IF AtEnd(x) THEN g
               ELSE [memb |-> Forward(x), bytes |-> Append(g.bytes, Passed(Forward(x)))]
    BY <1>1, <1>3, <1>6 DEF IsTaken
  <2> HIDE DEF g, x, d
  <2>7. CASE AtEnd(x)
    <3>1. d = m.total_size - Cursor(m)
      BY <1>4, <2>3, <2>4, <2>5, <2>7
    <3>2. Fewer(k, m.total_size - Cursor(m)) = d
      BY <1>3, <2>1, <2>4, <3>1 DEF Fewer
    <3>3. f[k] = g
      BY <2>6, <2>7
    <3> QED
      BY <1>3, <2>3, <3>2, <3>3 DEF After, x
  <2>8. CASE ~AtEnd(x)
    <3>1. d # m.total_size - Cursor(m)
      BY <1>4, <2>3, <2>4, <2>5, <2>8
    <3>2. Fewer(k, m.total_size - Cursor(m)) = d + 1
      BY <1>3, <1>4, <2>1, <2>4, <3>1 DEF Fewer
    <3>3. /\ Memory(Forward(x), from) /\ Forward(x).node # <<>>
          /\ Forward(x).total_size = x.total_size
          /\ Cursor(Forward(x)) = Cursor(x) + 1
          /\ Passed(Forward(x)) = from + Cursor(x)
      BY <2>3, <2>8, ForwardOne
    <3>4. /\ f[k].memb = Forward(x)
          /\ f[k].bytes = Append(g.bytes, Passed(Forward(x)))
      BY <2>6, <2>8
    <3>5. Append(Numbers(from + Cursor(m), d), from + Cursor(x))
            = Numbers(from + Cursor(m), d + 1)
      <4>1. from + Cursor(m) \in Int /\ from + Cursor(x) = from + Cursor(m) + (d + 1) - 1
        BY <1>4, <2>3, <2>4
      <4>2. \A a, y \in Int : y = a + (d + 1) - 1 =>
              Append(Numbers(a, d), y) = Numbers(a, d + 1)
        BY <2>4 DEF Numbers
      <4>3. from + Cursor(x) \in Int
        BY <1>4, <2>3, <2>4
      <4> QED
        BY <4>1, <4>2, <4>3
    <3>6. Cursor(f[k].memb) = Cursor(m) + (d + 1)
      BY <1>4, <2>3, <2>4, <3>3, <3>4
    <3> QED
      BY <1>3, <2>3, <3>2, <3>3, <3>4, <3>5, <3>6 DEF After
  <2> QED
    BY <2>7, <2>8
<1> QED
  BY <1>5, <1>6

LEMMA ReadAfter ==
  ASSUME NEW m, NEW from \in Int, Memory(m, from), NEW n \in Nat
  PROVE  After(read_memb(m, n), m, from, n)
<1>1. CASE m.node = <<>>
  <2>1. m.total_size = 0 /\ Cursor(m) = 0
    BY <1>1 DEF Memory, Cursor
  <2>2. Fewer(n, m.total_size - Cursor(m)) = 0
    BY <2>1 DEF Fewer
  <2>3. Numbers(from + Cursor(m), 0) = <<>>
    BY DEF Numbers
  <2>4. read_memb(m, n).memb = m /\ read_memb(m, n).bytes = <<>>
    BY <1>1 DEF read_memb
  <2> QED
    BY <1>1, <2>1, <2>2, <2>3, <2>4 DEF After
<1>2. CASE m.node # <<>>
  <2>1. ReadyToRead(m) = m
    BY <1>2, NodeFacts DEF ReadyToRead
  <2>2. read_memb(m, n) = Taken(m, n)
    BY <1>2, <2>1 DEF read_memb
  <2> QED
    BY <1>2, <2>2, TakenAfter
<1> QED
  BY <1>1, <1>2

LEMMA SkipAfter ==
  ASSUME NEW m, NEW from \in Int, Memory(m, from), NEW n \in Int
  PROVE  LET t == skip_read_memb(m, n)
             k == IF n <= 0 THEN 0 ELSE Fewer(n, m.total_size - Cursor(m))
         IN  /\ Memory(t.memb, from) /\ t.memb.total_size = m.total_size
             /\ t.n = k /\ Cursor(t.memb) = Cursor(m) + k
<1>1. Cursor(m) \in Nat /\ m.total_size \in Nat /\ Cursor(m) <= m.total_size
  BY CursorThere
<1>2. CASE n <= 0
  BY <1>1, <1>2 DEF skip_read_memb
<1>3. CASE ~(n <= 0)
  <2> DEFINE k == Fewer(n, m.total_size - Cursor(m))
             t == read_memb(m, n)
  <2>1. n \in Nat
    BY <1>3
  <2>2. After(t, m, from, n)
    BY <2>1, ReadAfter
  <2>3. k \in Nat
    BY <1>1, <2>1 DEF Fewer
  <2>4. Len(Numbers(from + Cursor(m), k)) = k
    BY <2>3 DEF Numbers
  <2>5. skip_read_memb(m, n).memb = t.memb /\ skip_read_memb(m, n).n = Len(t.bytes)
    BY <1>3 DEF skip_read_memb
  <2> QED
    BY <1>3, <2>2, <2>4, <2>5 DEF After
<1> QED
  BY <1>2, <1>3

LEMMA RewoundAtStart ==
  ASSUME NEW m, NEW from \in Int, Memory(m, from)
  PROVE  /\ Memory(rewind_memb(m), from) /\ Cursor(rewind_memb(m)) = 0
         /\ rewind_memb(m).total_size = m.total_size
<1>1. CASE m.node = <<>>
  BY <1>1 DEF rewind_memb, Cursor
<1>2. CASE m.node # <<>>
  <2>1. rewind_memb(m) = Moved(m, 1, 0)
    BY <1>2 DEF rewind_memb, Moved
  <2>2. 1 \in 1..Len(m.node) /\ 0 \in 0..Len(m.node[1].base)
    <3>1. 1 \in 1..Len(m.node)
      BY <1>2, NodeFacts
    <3>2. Len(m.node[1].base) \in Nat
      BY <1>2, <3>1, NodeFacts
    <3> QED
      BY <3>1, <3>2
  <2>3. /\ Memory(rewind_memb(m), from) /\ rewind_memb(m).total_size = m.total_size
        /\ Cursor(rewind_memb(m)) = StartOf(1) + 0
    BY <1>2, <2>1, <2>2, MovedKeeps
  <2> QED
    BY <2>3, StartFacts
<1> QED
  BY <1>1, <1>2

LEMMA TailAtEnd ==
  ASSUME NEW m, NEW from \in Int, Memory(m, from), m.node # <<>>
  PROVE  /\ Memory(AtTail(m), from) /\ Cursor(AtTail(m)) = m.total_size
         /\ AtTail(m).total_size = m.total_size
<1> DEFINE l == Len(m.node)
           s == Len(m.node[l].base)
<1>1. l \in 1..Len(m.node) /\ s \in Nat /\ m.total_size = StartOf(l) + s
  BY NodeFacts DEF Extent
<1>2. AtTail(m) = Moved(m, l, s)
  BY DEF AtTail, Moved
<1>3. s \in 0..Len(m.node[l].base)
  BY <1>1
<1> HIDE DEF s, l
<1>4. s \in 0..Len(m.node[l].base) /\ l \in 1..Len(m.node)
  BY <1>1, <1>3
<1> QED
  BY <1>1, <1>2, <1>4, MovedKeeps

-----------------------------------------------------------------------------
(* Nodes whose last may be new, and has room *)
Filling(nodes, from, l) ==
  /\ nodes \in Seq([base : Seq(Int), pos : Nat]) /\ l = Len(nodes)
  /\ Len(nodes[l].base) < MEMBASESIZE
  /\ \A k \in 1..l :
       /\ Len(nodes[k].base) <= MEMBASESIZE
       /\ k > 1 /\ k < l => Len(nodes[k].base) >= 1
       /\ k < l => Len(nodes[k].base) = MEMBASESIZE
       /\ \A i \in 1..Len(nodes[k].base) :
            nodes[k].base[i] = from + StartOf(k) + i - 1
(* The byte x goes into node k. *)
WithByte(nodes, k, x) ==
  [nodes EXCEPT ![k] = [nodes[k] EXCEPT !.base = Append(nodes[k].base, x)]]

LEMMA WithByteKeeps ==
  ASSUME NEW from \in Int, NEW nodes, NEW l \in Nat \ {0}, Filling(nodes, from, l),
         NEW x \in Int, x = from + Extent(nodes)
  PROVE  LET n == WithByte(nodes, l, x)
         IN  /\ Nodes(n, from) /\ Len(n) = l /\ n # <<>>
             /\ Extent(n) = Extent(nodes) + 1
             /\ \A k \in 1..l : n[k].pos = nodes[k].pos
             /\ \A k \in 1..l : Len(nodes[k].base) <= Len(n[k].base)
<1> DEFINE Node == [base : Seq(Int), pos : Nat]
           n == WithByte(nodes, l, x)
           e == nodes[l]
           s == Len(e.base)
           f == [base |-> Append(e.base, x), pos |-> e.pos]
<1>0. nodes \in Seq(Node) /\ l = Len(nodes) /\ s < MEMBASESIZE
  BY DEF Filling
<1>1. \A k \in 1..l : nodes[k] \in Node
  BY <1>0, ElementOfSeq
<1>2. l \in 1..l
  OBVIOUS
<1>3. e \in Node /\ e.base \in Seq(Int) /\ s \in Nat /\ e.pos \in Nat
  BY <1>1, <1>2
<1>4. f \in Node
  BY <1>3
<1>5. [e EXCEPT !.base = Append(e.base, x)] = f
  <2>1. \A y : \A g \in Node : [g EXCEPT !.base = y] = [base |-> y, pos |-> g.pos]
    OBVIOUS
  <2> HIDE DEF Node
  <2> QED
    BY <1>3, <2>1
<1>6. n = [nodes EXCEPT ![l] = f]
  BY <1>5 DEF WithByte
<1>7. n \in Seq(Node) /\ Len(n) = l /\ n[l] = f /\ \A k \in 1..l : k # l => n[k] = nodes[k]
  <2> HIDE DEF f, n, Node
  <2>1. \A g \in Node : LET u == [nodes EXCEPT ![l] = g]
                        IN  /\ u \in Seq(Node) /\ Len(u) = l /\ u[l] = g
                            /\ \A k \in 1..l : k # l => u[k] = nodes[k]
    BY <1>0, <1>2
  <2> QED
    BY <1>4, <1>6, <2>1
<1>8. Len(f.base) = s + 1 /\ f.base[s + 1] = x /\ \A i \in 1..s : f.base[i] = e.base[i]
  BY <1>3
<1>9. n # <<>>
  BY <1>7
<1>10. x = from + StartOf(l) + s /\ StartOf(l) \in Nat
  <2> HIDE DEF s
  <2>1. StartOf(l) \in Nat
    BY StartFacts
  <2>2. Extent(nodes) = StartOf(l) + s
    BY <1>0 DEF Extent, s
  <2> QED
    BY <1>3, <2>1, <2>2
<1> HIDE DEF n
<1>11. ASSUME NEW k \in 1..l
       PROVE  /\ Len(n[k].base) <= MEMBASESIZE
              /\ k > 1 => Len(n[k].base) >= 1
              /\ k < l => Len(n[k].base) = MEMBASESIZE
              /\ n[k].pos = nodes[k].pos /\ Len(nodes[k].base) <= Len(n[k].base)
              /\ \A i \in 1..Len(n[k].base) : n[k].base[i] = from + StartOf(k) + i - 1
  <2>1. CASE k # l
    <3>1. n[k] = nodes[k] /\ k < l
      BY <1>7, <2>1
    <3>2. Len(nodes[k].base) \in Nat
      BY <1>1
    <3> QED
      BY <3>1, <3>2 DEF Filling
  <2>2. CASE k = l
    <3>1. n[k] = f /\ Len(n[k].base) = s + 1 /\ n[k].pos = e.pos
      BY <1>7, <1>8, <2>2
    <3>2. s + 1 <= MEMBASESIZE /\ MEMBASESIZE \in Nat
      BY <1>0, <1>3, NodeAssumption
    <3>3. ASSUME NEW i \in 1..s + 1
          PROVE  f.base[i] = from + StartOf(l) + i - 1
      <4>1. CASE i = s + 1
        BY <1>3, <1>8, <1>10, <4>1
      <4>2. CASE i # s + 1
        <5>1. i \in 1..s
          BY <1>3, <4>2
        <5>2. e.base[i] = from + StartOf(l) + i - 1
          BY <1>2, <5>1 DEF Filling
        <5> QED
          BY <1>8, <5>1, <5>2
      <4> QED
        BY <4>1, <4>2
    <3> HIDE DEF f, s
    <3>4. \A i \in 1..Len(n[k].base) : n[k].base[i] = from + StartOf(k) + i - 1
      BY <2>2, <3>1, <3>3
    <3>5. Len(nodes[k].base) = s
      BY <2>2 DEF s
    <3>6. nodes[k].pos = e.pos
      BY <2>2
    <3> QED
      BY <1>3, <2>2, <3>1, <3>2, <3>4, <3>5, <3>6 DEF s
  <2> QED
    BY <2>1, <2>2
<1>12. Nodes(n, from)
  BY <1>7, <1>11 DEF Nodes
<1>13. Extent(n) = Extent(nodes) + 1
  <2>1. Extent(n) = StartOf(l) + (s + 1) /\ Extent(nodes) = StartOf(l) + s
    BY <1>0, <1>7, <1>8 DEF Extent
  <2> HIDE DEF s
  <2> QED
    BY <1>3, <1>10, <2>1
<1> QED
  BY <1>7, <1>9, <1>11, <1>12, <1>13 DEF n

LEMMA PutOne ==
  ASSUME NEW m, NEW from \in Int, Memory(m, from), m.node # <<>>,
         NEW x, x = from + m.total_size
  PROVE  /\ Memory(Put(m, x), from) /\ Put(m, x).node # <<>>
         /\ Put(m, x).total_size = m.total_size + 1
<1> DEFINE Node == [base : Seq(Int), pos : Nat]
           l == Len(m.node)
           fresh == [base |-> <<>>, pos |-> 0]
           c == IF Room(m) = 0 THEN WithNode(m) ELSE m
           n == Len(c.node)
<1>1. /\ m = [node |-> m.node, cur |-> m.cur, total_size |-> m.total_size]
      /\ m.node \in Seq(Node) /\ l \in Nat \ {0} /\ l \in 1..l
      /\ m.cur \in 1..l /\ m.node[m.cur].pos <= Len(m.node[m.cur].base)
      /\ m.total_size = Extent(m.node)
  BY NodeFacts
<1>2. \A k \in 1..l :
        /\ m.node[k] \in Node
        /\ m.node[k].pos \in Nat /\ Len(m.node[k].base) \in Nat
        /\ Len(m.node[k].base) <= MEMBASESIZE
        /\ k > 1 => Len(m.node[k].base) >= 1
        /\ k < l => Len(m.node[k].base) = MEMBASESIZE
        /\ \A i \in 1..Len(m.node[k].base) :
             m.node[k].base[i] = from + StartOf(k) + i - 1
  BY NodeFacts
<1>3. m.total_size \in Nat /\ x \in Int
  <2>1. m.total_size \in Nat
    BY CursorThere
  <2> QED
    BY <2>1
<1>4. MEMBASESIZE \in Nat /\ MEMBASESIZE > 0
  BY NodeAssumption
<1>5. /\ c = [node |-> c.node, cur |-> m.cur, total_size |-> m.total_size]
      /\ n \in Nat \ {0} /\ l <= n
      /\ Filling(c.node, from, n) /\ Extent(c.node) = m.total_size
      /\ \A k \in 1..l : c.node[k] = m.node[k]
  <2>1. CASE Room(m) = 0
    <3>1. c.node = Append(m.node, fresh) /\ c = [node |-> c.node, cur |-> m.cur, total_size |-> m.total_size]
      <4>1. c = [m EXCEPT !.node = Append(m.node, fresh)]
        BY <2>1 DEF WithNode
      <4> QED
        BY <1>1, <4>1
    <3>2. fresh \in Node
      <4>1. <<>> \in Seq(Int)
        OBVIOUS
      <4> QED
        BY <4>1
    <3> HIDE DEF fresh, Node, c
    <3>3. /\ c.node \in Seq(Node) /\ n = l + 1 /\ c.node[l + 1] = fresh
          /\ \A k \in 1..l : c.node[k] = m.node[k]
      BY <1>1, <3>1, <3>2
    <3>4. Len(fresh.base) = 0
      BY DEF fresh
    <3>5. Len(m.node[l].base) = MEMBASESIZE
      BY <1>1, <1>2, <1>4, <2>1 DEF Room
    <3>6. /\ StartOf(l) \in Nat /\ StartOf(l + 1) = StartOf(l) + MEMBASESIZE
      BY <1>1, StartFacts
    <3>7. Extent(c.node) = StartOf(l + 1) + 0
      BY <3>3, <3>4 DEF Extent
    <3>8. Extent(m.node) = StartOf(l) + MEMBASESIZE
      BY <3>5 DEF Extent
    <3>9. Filling(c.node, from, n)
      <4>0. n \in Nat /\ l \in Nat /\ l # 0
        BY <1>1, <3>3
      <4>1. Len(c.node[n].base) < MEMBASESIZE
        BY <1>4, <3>3, <3>4
      <4>2. ASSUME NEW k \in 1..n
            PROVE  /\ Len(c.node[k].base) <= MEMBASESIZE
                   /\ k > 1 /\ k < n => Len(c.node[k].base) >= 1
                   /\ k < n => Len(c.node[k].base) = MEMBASESIZE
                   /\ \A i \in 1..Len(c.node[k].base) :
                        c.node[k].base[i] = from + StartOf(k) + i - 1
        <5>1. CASE k = n
          BY <1>4, <3>3, <3>4, <4>0, <5>1
        <5>2. CASE k # n
          <6>1. k \in 1..l /\ c.node[k] = m.node[k]
            BY <3>3, <4>0, <5>2
          <6>2. k = l => Len(m.node[k].base) = MEMBASESIZE
            BY <3>5
          <6>3. k # l => k < l
            BY <4>0, <6>1
          <6>4. /\ Len(m.node[k].base) <= MEMBASESIZE
                /\ k > 1 => Len(m.node[k].base) >= 1
                /\ k < l => Len(m.node[k].base) = MEMBASESIZE
                /\ \A i \in 1..Len(m.node[k].base) :
                     m.node[k].base[i] = from + StartOf(k) + i - 1
            BY <1>2, <6>1
          <6> QED
            BY <6>1, <6>2, <6>3, <6>4
        <5> QED
          BY <5>1, <5>2
      <4> QED
        BY <3>3, <4>1, <4>2 DEF Filling, Node
    <3>10. Extent(c.node) = m.total_size
      <4> HIDE DEF l
      <4> QED
        BY <1>1, <1>4, <3>6, <3>7, <3>8
    <3>11. n \in Nat \ {0} /\ l <= n
      <4> HIDE DEF l
      <4> QED
        BY <1>1, <3>3
    <3> QED
      BY <3>1, <3>3, <3>9, <3>10, <3>11
  <2>2. CASE Room(m) # 0
    <3>1. c = m
      BY <2>2
    <3>2. Len(m.node[l].base) < MEMBASESIZE
      <4> DEFINE s == Len(m.node[l].base)
      <4>1. s \in Nat /\ s <= MEMBASESIZE
        BY <1>1, <1>2
      <4>2. MEMBASESIZE - s # 0
        BY <2>2 DEF Room
      <4> HIDE DEF s
      <4>3. s < MEMBASESIZE
        BY <1>4, <4>1, <4>2
      <4> QED
        BY <4>3 DEF s
    <3>3. Filling(m.node, from, l)
      BY <1>1, <1>2, <3>2 DEF Filling
    <3> HIDE DEF c, Node
    <3> QED
      BY <1>1, <3>1, <3>3
  <2> QED
    BY <2>1, <2>2
<1> DEFINE w == WithByte(c.node, n, x)
<1>6. Put(m, x) = [node |-> w, cur |-> m.cur, total_size |-> m.total_size + 1]
  <2>1. Put(m, x) = [[c EXCEPT !.node = w] EXCEPT !.total_size = c.total_size + 1]
    BY DEF Put, WithByte
  <2> HIDE DEF w, c
  <2>2. c.total_size = m.total_size
    BY <1>5
  <2>3. c = [node |-> c.node, cur |-> m.cur, total_size |-> m.total_size]
    BY <1>5
  <2>4. [c EXCEPT !.node = w] = [node |-> w, cur |-> m.cur, total_size |-> m.total_size]
    BY <2>3
  <2> QED
    BY <2>1, <2>2, <2>4
<1>7. /\ Nodes(w, from) /\ Len(w) = n /\ w # <<>>
      /\ Extent(w) = m.total_size + 1
      /\ \A k \in 1..n : w[k].pos = c.node[k].pos
      /\ \A k \in 1..n : Len(c.node[k].base) <= Len(w[k].base)
  <2> HIDE DEF w, c, n
  <2>1. x = from + Extent(c.node)
    BY <1>5
  <2> QED
    BY <1>3, <1>5, <2>1, WithByteKeeps DEF w
<1>8. m.cur \in 1..n
  <2> HIDE DEF n, l
  <2> QED
    BY <1>1, <1>5
<1>9. w[m.cur].pos <= Len(w[m.cur].base)
  <2>1. /\ w[m.cur].pos = m.node[m.cur].pos
        /\ Len(m.node[m.cur].base) <= Len(w[m.cur].base)
    <3> HIDE DEF w, c, n
    <3> QED
      BY <1>1, <1>5, <1>7, <1>8
  <2>2. /\ m.node[m.cur].pos \in Nat /\ Len(m.node[m.cur].base) \in Nat
    BY <1>1, <1>2
  <2>3. Len(w[m.cur].base) \in Nat
    <3>1. w \in Seq(Node)
      BY <1>7 DEF Nodes
    <3>2. w[m.cur] \in Node
      BY <1>7, <1>8, <3>1, ElementOfSeq
    <3> HIDE DEF w
    <3>3. w[m.cur].base \in Seq(Int)
      BY <3>2
    <3> QED
      BY <3>3
  <2> HIDE DEF w
  <2> QED
    BY <1>1, <2>1, <2>2, <2>3
<1> HIDE DEF w, c, n
<1> QED
  BY <1>6, <1>7, <1>8, <1>9 DEF Memory

(* The loop of push_memb(), as a function of the bytes stored *)
IsPushed(f, m, s, n) ==
  f = [k \in 0..n |-> IF k = 0 THEN WithHead(m) ELSE Put(f[k - 1], s[k])]

LEMMA PushedExists ==
  ASSUME NEW m, NEW s, NEW n \in Nat
  PROVE  \E f : IsPushed(f, m, s, n)
<1> DEFINE T == {k \in Nat : ~ \E f : IsPushed(f, m, s, k)}
<1> SUFFICES ASSUME T # {} PROVE FALSE
  OBVIOUS
<1>1. PICK k \in T : \A j \in T : k <= j
  BY LeastNatural
<1>2. k \in Nat /\ ~ \E f : IsPushed(f, m, s, k)
  BY <1>1
<1>3. CASE k = 0
  <2> DEFINE f == [j \in 0..0 |-> WithHead(m)]
  <2>1. IsPushed(f, m, s, 0)
    BY DEF IsPushed
  <2> QED
    BY <1>2, <1>3, <2>1
<1>4. CASE k # 0
  <2>1. k - 1 \in Nat /\ ~(k <= k - 1)
    BY <1>2, <1>4
  <2>2. PICK g : IsPushed(g, m, s, k - 1)
    BY <1>1, <2>1
  <2> DEFINE f == [j \in 0..k |-> IF j = k THEN Put(g[k - 1], s[k]) ELSE g[j]]
  <2>3. \A j \in 0..k - 1 : g[j] = IF j = 0 THEN WithHead(m) ELSE Put(g[j - 1], s[j])
    BY <2>2 DEF IsPushed
  <2>4. \A j \in 0..k : f[j] = IF j = 0 THEN WithHead(m) ELSE Put(f[j - 1], s[j])
    <3> SUFFICES ASSUME NEW j \in 0..k
                 PROVE  f[j] = IF j = 0 THEN WithHead(m) ELSE Put(f[j - 1], s[j])
      OBVIOUS
    <3>1. CASE j = k
      <4>1. f[j] = Put(g[k - 1], s[k]) /\ f[k - 1] = g[k - 1] /\ j # 0
        BY <1>2, <1>4, <2>1, <3>1
      <4> QED
        BY <3>1, <4>1
    <3>2. CASE j # k /\ j # 0
      <4>1. j \in 0..k - 1 /\ j - 1 \in 0..k /\ j - 1 # k
        BY <1>2, <3>2
      <4> QED
        BY <2>3, <3>2, <4>1
    <3>3. CASE j # k /\ j = 0
      BY <1>2, <1>4, <2>1, <2>3, <3>3
    <3> QED
      BY <3>1, <3>2, <3>3
  <2>5. f = [j \in 0..k |-> f[j]]
    OBVIOUS
  <2> HIDE DEF f
  <2>6. IsPushed(f, m, s, k)
    BY <2>4, <2>5 DEF IsPushed
  <2> QED
    BY <1>2, <2>6
<1> QED
  BY <1>3, <1>4

LEMMA PushedFunction ==
  ASSUME NEW m, NEW s, Len(s) \in Nat
  PROVE  \E f : IsPushed(f, m, s, Len(s)) /\ push_memb(m, s) = f[Len(s)]
<1> DEFINE f == CHOOSE g : g = [k \in 0..Len(s) |->
                  IF k = 0 THEN WithHead(m) ELSE Put(g[k - 1], s[k])]
<1>1. push_memb(m, s) = f[Len(s)]
  BY DEF push_memb
<1>2. \E g : g = [k \in 0..Len(s) |->
                  IF k = 0 THEN WithHead(m) ELSE Put(g[k - 1], s[k])]
  <2>1. \E g : IsPushed(g, m, s, Len(s))
    BY PushedExists
  <2> QED
    BY <2>1 DEF IsPushed
<1>3. IsPushed(f, m, s, Len(s))
  BY <1>2 DEF IsPushed
<1> QED
  BY <1>1, <1>3

LEMMA HeadKeeps ==
  ASSUME NEW m, NEW from \in Int, Memory(m, from)
  PROVE  Memory(WithHead(m), from) /\ WithHead(m).node # <<>> /\ WithHead(m).total_size = m.total_size
<1>1. CASE m.node # <<>>
  BY <1>1 DEF WithHead
<1>2. CASE m.node = <<>>
  <2> DEFINE Node == [base : Seq(Int), pos : Nat]
             fresh == [base |-> <<>>, pos |-> 0]
  <2>1. m = [node |-> <<>>, cur |-> 0, total_size |-> 0]
    BY <1>2 DEF Memory
  <2>2. WithHead(m) = [node |-> <<fresh>>, cur |-> 1, total_size |-> 0]
    <3>1. [m EXCEPT !.node = Append(m.node, fresh)]
            = [node |-> Append(m.node, fresh), cur |-> 0, total_size |-> 0]
      BY <2>1
    <3>2. Append(m.node, fresh) = <<fresh>>
      BY <1>2
    <3>3. WithHead(m) = [WithNode(m) EXCEPT !.cur = 1]
      BY <1>2 DEF WithHead
    <3>4. WithNode(m) = [node |-> <<fresh>>, cur |-> 0, total_size |-> 0]
      BY <3>1, <3>2 DEF WithNode
    <3> QED
      BY <3>3, <3>4
  <2>3. fresh \in Node /\ Len(fresh.base) = 0 /\ fresh.pos = 0
    <3>1. <<>> \in Seq(Int)
      OBVIOUS
    <3> QED
      BY <3>1
  <2> HIDE DEF fresh, Node
  <2>4. /\ <<fresh>> \in Seq(Node) /\ Len(<<fresh>>) = 1 /\ <<fresh>>[1] = fresh
        /\ <<fresh>> # <<>>
    BY <2>3
  <2>5. MEMBASESIZE \in Nat
    BY NodeAssumption
  <2>6. Nodes(<<fresh>>, from)
    BY <2>3, <2>4, <2>5 DEF Nodes, Node
  <2>7. Extent(<<fresh>>) = 0
    BY <2>3, <2>4, StartFacts DEF Extent
  <2>8. /\ WithHead(m).node = <<fresh>> /\ WithHead(m).cur = 1 /\ WithHead(m).total_size = 0
    BY <2>2
  <2>9. Memory(WithHead(m), from)
    BY <2>2, <2>3, <2>4, <2>6, <2>7, <2>8 DEF Memory
  <2> QED
    BY <2>1, <2>4, <2>8, <2>9
<1> QED
  BY <1>1, <1>2

(* The bytes that follow those in memory are stored behind them. *)
LEMMA PushAfter ==
  ASSUME NEW m, NEW from \in Int, Memory(m, from), NEW n \in Nat, NEW at,
         at = from + m.total_size
  PROVE  LET t == push_memb(m, Numbers(at, n))
         IN  Memory(t, from) /\ t.node # <<>> /\ t.total_size = m.total_size + n
<1> DEFINE s == Numbers(at, n)
<1>1. Len(s) = n /\ \A i \in 1..n : s[i] = at + i - 1
  BY DEF Numbers
<1> HIDE DEF s
<1>2. PICK f : IsPushed(f, m, s, n) /\ push_memb(m, s) = f[n]
  BY <1>1, PushedFunction
<1> DEFINE Good(k) == Memory(f[k], from) /\ f[k].node # <<>>
                      /\ f[k].total_size = m.total_size + k
           T == {k \in Nat : k <= n /\ ~Good(k)}
<1>3. m.total_size \in Nat
  BY CursorThere
<1>4. T = {}
  <2> SUFFICES ASSUME T # {} PROVE FALSE
    OBVIOUS
  <2>1. PICK k \in T : \A j \in T : k <= j
    BY LeastNatural
  <2>2. k \in Nat /\ k <= n /\ ~Good(k) /\ k \in 0..n
    BY <2>1
  <2>3. CASE k = 0
    <3>1. f[k] = WithHead(m)
      BY <1>2, <2>2, <2>3 DEF IsPushed
    <3> QED
      BY <1>3, <2>2, <2>3, <3>1, HeadKeeps
  <2>4. CASE k # 0
    <3>1. k - 1 \in Nat /\ ~(k <= k - 1) /\ k - 1 <= n /\ k \in 1..n
      BY <2>2, <2>4
    <3>2. Good(k - 1)
      BY <2>1, <3>1
    <3> DEFINE g == f[k - 1]
    <3>3. f[k] = Put(g, s[k])
      BY <1>2, <2>2, <2>4 DEF IsPushed
    <3>4. Memory(g, from) /\ g.node # <<>> /\ g.total_size = m.total_size + (k - 1)
      BY <3>2
    <3> HIDE DEF g
    <3>5. s[k] = from + g.total_size
      BY <1>1, <1>3, <3>1, <3>4
    <3>6. /\ Memory(f[k], from) /\ f[k].node # <<>> /\ f[k].total_size = g.total_size + 1
      BY <3>3, <3>4, <3>5, PutOne
    <3>7. g.total_size + 1 = m.total_size + k
      BY <1>3, <3>1, <3>4
    <3> QED
      BY <2>2, <3>6, <3>7
  <2> QED
    BY <2>3, <2>4
<1>5. Good(n)
  BY <1>4
<1> QED
  BY <1>2, <1>5 DEF s
-----------------------------------------------------------------------------
(* 3. The invariant of a stream.                                           *)

(* the position told between the calls, and inside one where it began *)
At == url_tell - Underway
(* the size that url_gets() asks of a buffered stream, cut by the limit *)
GetsSize == IF readlimit # NoLimit /\ nread + call.n > readlimit
            THEN readlimit - nread + 1 ELSE call.n

(* what both kinds of streams have in common *)
UrlTypes ==
  /\ kind \in {"buff", "cache"} /\ reader \in Nat /\ posofs \in Nat
  /\ nread \in Nat /\ readlimit \in Nat \union {NoLimit}
  /\ rest \in Int /\ far \in Nat /\ lost \in Nat /\ counted \in Nat
  /\ out \in Seq(Int)
  /\ call # NoCall =>
       /\ call \in Calls
       /\ call.op = "reopen" => kind = "cache"
       /\ call.op # "gets" => out = <<>>
  /\ At <= far

(* A request is counted before it is answered, but for a seek by reading, *)
(* which starts the count anew when it ends.                               *)
Owed == IF call # NoCall /\ call.op = "gets" /\ kind = "cache" THEN Len(out) ELSE 0
ToGo == IF call.whence = "set" THEN call.n - cpos ELSE rest
SeekingByReading ==
  /\ call # NoCall /\ call.op = "seek" /\ ~HasSeek /\ call.whence # "end"
  /\ ToGo > 0 /\ counted = 0
LimitInv ==
  readlimit # NoLimit => /\ counted + Owed <= nread
                         /\ nread <= readlimit \/ SeekingByReading

(* inside a loop of a buffered stream, what is known of the request *)
SeekGoal ==
  CASE call.op = "skip" -> pos + posofs + Allowed(call.n)
    [] call.op = "seek" /\ call.whence = "set" -> call.n
    [] OTHER -> pos + posofs + call.n
(* no more was read than a buffer ahead of the furthest position or of the *)
(* place, so that a seek back of nearly a buffer is never refused          *)
Bound == reader <= far + URL_BUFF_SIZE \/ Ahead(wp, Place) <= URL_BUFF_SIZE
(* what each loop has done of its request *)
InLoop ==
  /\ loop # "none" => call # NoCall
  /\ loop = "none" /\ call # NoCall => out = <<>>
  /\ loop = "gets" =>
       /\ call.op = "gets" /\ ~AtLimit /\ Len(out) < GetsSize - 1
       /\ out = Numbers(At, Len(out))
       /\ \A i \in 1..Len(out) : out[i] \notin Newlines
  /\ loop = "ahead" =>
       /\ call.op \in {"seek", "skip"} /\ left > 0
       /\ call.op = "skip" => ~AtLimit
       /\ pos + posofs + moved + left = SeekGoal
  /\ loop = "toEnd" => call.op = "seek" /\ call.whence = "end"
BuffInv ==
  /\ RingInv /\ lost = 0 /\ far <= reader /\ Bound /\ InLoop
  /\ call.op \in {"skip", "seek"} => rest = call.n

(* what is kept is what follows the byte where the stream was opened, and *)
(* the position told is its cursor; or nothing is kept any longer          *)
Holds ==
  IF memb_ok THEN Memory(b, lost) /\ cpos = Cursor(b) /\ b.total_size = reader - lost
  ELSE ~url_seek /\ cpos = reader - lost
(* what the rounds of a call of a cached stream have done of its request *)
InCall ==
  /\ call.op = "gets" =>
       /\ Len(out) = 0 \/ Len(out) < call.n - 1
       /\ out = Numbers(At + lost, Len(out))
       /\ \A i \in 1..Len(out) : out[i] \notin Newlines
  /\ call.op = "skip" => 0 <= rest /\ rest <= call.n /\ (url_seek => rest = call.n)
  /\ call.op = "seek" /\ call.whence = "cur" => rest = call.n \/ (0 < rest /\ ~url_seek)
CacheInv ==
  /\ loop = "none" /\ wp = 0 /\ rp = 0 /\ pos = 0 /\ posofs = 0
  /\ url_seek \in BOOLEAN /\ memb_ok \in BOOLEAN /\ cpos \in Nat
  /\ Holds /\ InCall
  /\ far <= reader - lost

(* The inductive invariant: the count stays within the limit, and what is *)
(* kept is what lies around the position told.                             *)
StreamInv == UrlTypes /\ LimitInv /\ (kind = "buff" => BuffInv) /\ (kind = "cache" => CacheInv)

(* the mode of ByteStream, and what a step is to its caller *)
Mode == IF kind = "buff" THEN "window" ELSE IF url_seek THEN "kept" ELSE "forward"
Says == Stream!Next \/ UNCHANGED Stream!stream

(* a step that moves the position told, if anything, and nothing else of   *)
(* the stream                                                              *)
Goes ==
  /\ far' = Max({far, At'}) /\ lost' = lost /\ posofs' = posofs /\ Mode' = Mode

LEMMA LargerOf ==
  /\ \A S : Stream!Max(S) = Max(S)
  /\ \A x, y \in Int : Max({x, y}) = IF x < y THEN y ELSE x
<1>1. \A S : Stream!Max(S) = Max(S)
  BY DEF Stream!Max, Max
<1>2. ASSUME NEW x \in Int, NEW y \in Int
      PROVE  Max({x, y}) = IF x < y THEN y ELSE x
  <2>1. \E z \in {x, y} : \A w \in {x, y} : z >= w
    <3>1. CASE x < y
      BY <3>1
    <3>2. CASE ~(x < y)
      BY <3>2
    <3> QED
      BY <3>1, <3>2
  <2>2. Max({x, y}) \in {x, y} /\ \A w \in {x, y} : Max({x, y}) >= w
    BY <2>1 DEF Max
  <2> QED
    BY <2>2
<1> QED
  BY <1>1, <1>2

(* Each way a call goes on or ends is a step of ByteStream.                *)
LEMMA SayDeliver ==
  ASSUME call # NoCall, call' = NoCall, call.op \in {"read", "getc", "gets"}, Goes,
         At' = At + Len(out'), Len(out') <= call.n,
         out' = Numbers(At + lost, Len(out')),
         call.op = "gets" => \A i \in 1..(Len(out') - 1) : out'[i] \notin Newlines
  PROVE  Says
<1>1. Stream!Goes(At')
  BY LargerOf DEF Stream!Goes, Goes, At, Mode
<1>2. Stream!Deliver
  BY <1>1 DEF Stream!Deliver, At, Numbers
<1> QED
  BY <1>2 DEF Says, Stream!Next, Stream!Answer

(* a seek that arrives, or ends where the source does, or is refused *)
Arriving(to) ==
  \/ At' = to
  \/ to > far /\ At' \in far..to
  \/ to < At /\ At' = At
     /\ \/ Mode = "window" /\ (to < posofs \/ to < far - (URL_BUFF_SIZE - 2))
        \/ Mode = "forward"

LEMMA ArrivingArrives ==
  ASSUME NEW to, Goes, Arriving(to)
  PROVE  Stream!Arrives(to)
<1>1. CASE At' = to
  BY <1>1, LargerOf DEF Stream!Arrives, Stream!Goes, Goes, At, Mode
<1>2. CASE to > far /\ At' \in far..to
  BY <1>2, LargerOf DEF Stream!Arrives, Stream!Goes, Goes, At, Mode
<1>3. CASE /\ to < At /\ At' = At
           /\ \/ Mode = "window" /\ (to < posofs \/ to < far - (URL_BUFF_SIZE - 2))
              \/ Mode = "forward"
  <2>1. Stream!Refusable(to)
    BY <1>3 DEF Stream!Refusable, Mode
  <2>2. Stream!Goes(At)
    BY <1>3, LargerOf DEF Stream!Goes, Goes, At, Mode
  <2> QED
    BY <1>3, <2>1, <2>2 DEF Stream!Arrives, At
<1> QED
  BY <1>1, <1>2, <1>3 DEF Arriving

LEMMA SaySeek ==
  ASSUME call # NoCall, call' = NoCall, call.op = "seek", call.whence # "end", Goes, out' = <<>>,
         NEW to,
         to = LET t == IF call.whence = "set" THEN call.n ELSE At + call.n
              IN  IF Mode = "kept" THEN Max({t, 0}) ELSE t,
         Arriving(to)
  PROVE  Says
<1>1. Stream!Arrives(to)
  BY ArrivingArrives
<1>2. Stream!Target = to
  BY LargerOf DEF Stream!Target, At, Mode
<1>3. Stream!Seek
  BY <1>1, <1>2 DEF Stream!Seek
<1> QED
  BY <1>3 DEF Says, Stream!Next, Stream!Answer

LEMMA SaySeekEnd ==
  ASSUME call # NoCall, call' = NoCall, call.op = "seek", call.whence = "end", Goes, out' = <<>>,
         IF Mode = "kept" THEN At' >= far ELSE Arriving(At + call.n) \/ At' = At
  PROVE  Says
<1>1. CASE Mode = "kept"
  <2>1. Stream!Goes(At')
    BY LargerOf DEF Stream!Goes, Goes, At, Mode
  <2>2. Stream!SeekEnd
    BY <1>1, <2>1 DEF Stream!SeekEnd, At, Mode
  <2> QED
    BY <2>2 DEF Says, Stream!Next, Stream!Answer
<1>2. CASE Mode # "kept" /\ At' = At
  <2>1. Stream!Goes(At)
    BY <1>2, LargerOf DEF Stream!Goes, Goes, At, Mode
  <2>2. Stream!SeekEnd
    BY <1>2, <2>1 DEF Stream!SeekEnd, At, Mode
  <2> QED
    BY <2>2 DEF Says, Stream!Next, Stream!Answer
<1>3. CASE Mode # "kept" /\ Arriving(At + call.n)
  <2>1. Stream!Arrives(At + call.n)
    BY <1>3, ArrivingArrives
  <2>2. Stream!SeekEnd
    BY <1>3, <2>1 DEF Stream!SeekEnd, At, Mode
  <2> QED
    BY <2>2 DEF Says, Stream!Next, Stream!Answer
<1> QED
  BY <1>1, <1>2, <1>3

LEMMA SaySkip ==
  ASSUME call # NoCall, call' = NoCall, call.op = "skip", Goes, out' = <<>>,
         At' \in At..(At + call.n)
  PROVE  Says
<1>1. Stream!Goes(At')
  BY LargerOf DEF Stream!Goes, Goes, At, Mode
<1>2. Stream!Skip
  BY <1>1 DEF Stream!Skip, At
<1> QED
  BY <1>2 DEF Says, Stream!Next, Stream!Answer

LEMMA SayRewind ==
  ASSUME call # NoCall, call' = NoCall, call.op = "rewind", Goes, out' = <<>>,
         IF Mode = "forward" THEN At' = At ELSE Arriving(0)
  PROVE  Says
<1>1. CASE Mode = "forward"
  <2>1. Stream!Goes(At)
    BY <1>1, LargerOf DEF Stream!Goes, Goes, At, Mode
  <2>2. Stream!Rewind
    BY <1>1, <2>1 DEF Stream!Rewind, At, Mode
  <2> QED
    BY <2>2 DEF Says, Stream!Next, Stream!Answer
<1>2. CASE Mode # "forward"
  <2>1. Stream!Arrives(0)
    BY <1>2, ArrivingArrives
  <2>2. Stream!Rewind
    BY <1>2, <2>1 DEF Stream!Rewind, Mode
  <2> QED
    BY <2>2 DEF Says, Stream!Next, Stream!Answer
<1> QED
  BY <1>1, <1>2

LEMMA SayPass ==
  ASSUME call # NoCall, call' = call, call.op = "seek", Goes,
         call.whence = "end" \/ (call.whence = "set" /\ Mode = "forward"),
         At' >= At
  PROVE  Says
<1>1. Stream!Goes(At')
  BY LargerOf DEF Stream!Goes, Goes, At, Mode
<1>2. Stream!Pass
  BY <1>1 DEF Stream!Pass, At, Mode
<1> QED
  BY <1>2 DEF Says, Stream!Next

LEMMA SayNothing ==
  ASSUME call # NoCall, call' = call, At' = At, far' = far, lost' = lost, posofs' = posofs,
         Mode' = Mode
  PROVE  Says
BY DEF Says, Stream!stream, At, Mode

LEMMA SayAsk ==
  ASSUME call = NoCall, call' \in Calls, call' # NoCall, At' = At, far' = far, lost' = lost,
         posofs' = posofs, Mode' = Mode
  PROVE  Says
<1>1. Stream!Ask
  BY DEF Stream!Ask, At, Mode
<1> QED
  BY <1>1 DEF Says, Stream!Next

LEMMA SayChange ==
  ASSUME call # NoCall, call' = NoCall, call.op \in {"limit", "detach", "disable"}, out' = <<>>,
         At' = At, far' = far, lost' = lost, posofs' = posofs,
         Mode' = IF call.op = "disable" /\ Mode = "kept" THEN "forward" ELSE Mode
  PROVE  Says
<1>1. Stream!Change
  BY DEF Stream!Change, At, Mode
<1> QED
  BY <1>1 DEF Says, Stream!Next

LEMMA SayReopen ==
  ASSUME call # NoCall, call' = NoCall, call.op = "reopen", out' = <<>>, Mode # "window",
         Mode' = "kept", At' = 0, far' = 0, posofs' = 0, lost' >= far + lost
  PROVE  Says
<1>1. Stream!Change
  BY DEF Stream!Change, At, Mode
<1> QED
  BY <1>1 DEF Says, Stream!Next

-----------------------------------------------------------------------------
(* What the functions of a buffered stream do, as the caller sees it *)
LEMMA RefillMore ==
  ASSUME buffer \in [Cell -> Int], wp \in Ring, reader \in Nat, posofs \in Nat,
         Contents(buffer, wp, reader, posofs),
         NEW p \in Ring, Refill(p)
  PROVE  reader' >= reader /\ (reader' = reader \/ Ahead(wp', p) <= URL_BUFF_SIZE)
<1>1. CASE p = wp
  <2>1. PICK n \in Given(URL_BUFF_SIZE) : Prefetch(n)
    BY <1>1 DEF Refill
  <2>2. wp' \in Ring /\ n \in Nat /\ n <= URL_BUFF_SIZE
        /\ reader' = reader + n /\ wp' = Mask(wp + n)
    BY <2>1, PrefetchKeeps
  <2>3. Ahead(wp', p) = n
    BY <1>1, <2>2, Sizes DEF Ahead, Mask, Ring
  <2> QED
    BY <2>2, <2>3
<1>2. CASE p # wp
  BY <1>2 DEF Refill
<1> QED
  BY <1>1, <1>2

(* the byte j places ahead of p *)
LEMMA ThereAhead ==
  ASSUME NEW bytes, NEW w \in Ring, NEW given \in Nat, NEW from \in Nat,
         Contents(bytes, w, given, from), NEW p \in Ring,
         from <= given - Ahead(w, p), NEW j \in Nat, j < Ahead(w, p)
  PROVE  bytes[Mask(p + j)] = given - Ahead(w, p) + j
<1>1. Ahead(w, p) \in Nat /\ Ahead(w, p) < BASESIZE
  BY AheadThere
<1>2. /\ Ahead(w, p) - j \in 1..BASESIZE /\ Ahead(w, p) - j <= given - from
  BY <1>1, Sizes
<1>3. Mask(p + j) = Behind(w, Ahead(w, p) - j)
  BY <1>1, Sizes DEF Mask, Behind, Ahead, Ring
<1>4. bytes[Behind(w, Ahead(w, p) - j)] = given - (Ahead(w, p) - j)
  BY <1>2 DEF Contents
<1> QED
  BY <1>1, <1>3, <1>4

LEMMA FgetcGives ==
  ASSUME RingInv, loop \in {"none", "toEnd"}, Fgetc
  PROVE  /\ reader' >= reader
         /\ reader' = reader \/ Ahead(wp', rp') <= URL_BUFF_SIZE
         /\ pos' = pos \/ (pos' = pos + 1 /\ buffer'[rp] = pos + posofs)
<1> USE DEF RingInv, BuffTypeOK
<1>1. Place = rp /\ Passing = 0 /\ pos + posofs = reader - Ahead(wp, rp)
  BY DEF Place, Passing
<1>2. CASE eof
  BY <1>2 DEF Fgetc
<1>3. CASE ~eof
  <2>1. Refill(rp)
    BY <1>3 DEF Fgetc
  <2>2. /\ buffer' \in [Cell -> Int] /\ wp' \in Ring /\ reader' \in Nat
        /\ Contents(buffer', wp', reader', posofs)
        /\ reader' - Ahead(wp', rp) = reader - Ahead(wp, rp)
    BY <2>1, RefillKeeps
  <2>3. reader' >= reader /\ (reader' = reader \/ Ahead(wp', rp) <= URL_BUFF_SIZE)
    BY <2>1, RefillMore
  <2>4. CASE rp = wp'
    BY <1>3, <2>3, <2>4 DEF Fgetc
  <2>5. CASE rp # wp'
    <3>1. rp' = Mask(rp + 1) /\ pos' = pos + 1
      BY <1>3, <2>5 DEF Fgetc
    <3>2. Ahead(wp', rp) \in Nat /\ 1 <= Ahead(wp', rp)
      BY <2>2, <2>5, AheadThere
    <3>3. Ahead(wp', Mask(rp + 1)) = Ahead(wp', rp) - 1
      BY <2>2, <3>2, MoveAhead
    <3>4. buffer'[Mask(rp + 0)] = reader' - Ahead(wp', rp) + 0
      <4>1. posofs <= reader' - Ahead(wp', rp) /\ 0 < Ahead(wp', rp)
        BY <1>1, <2>2, <3>2
      <4> HIDE DEF RingInv, BuffTypeOK
      <4>2. rp \in Ring /\ posofs \in Nat
        BY DEF RingInv, BuffTypeOK
      <4> QED
        BY <2>2, <4>1, <4>2, ThereAhead
    <3>5. Mask(rp + 0) = rp
      BY Sizes DEF Mask, Ring
    <3>6. buffer'[rp] = pos + posofs
      BY <1>1, <2>2, <3>2, <3>4, <3>5
    <3> QED
      BY <2>3, <3>1, <3>2, <3>3, <3>6, Sizes
  <2> QED
    BY <2>4, <2>5
<1> QED
  BY <1>2, <1>3

(* A piece from p on is what follows the position of p. *)
LEMMA PieceThere ==
  ASSUME buffer' \in [Cell -> Int], wp' \in Ring, reader' \in Nat, posofs \in Nat,
         Contents(buffer', wp', reader', posofs), NEW p \in Ring,
         posofs <= reader' - Ahead(wp', p),
         NEW i \in Nat, i <= Ahead(wp', p), p + i <= BASESIZE
  PROVE  Piece(p, i) = Numbers(reader' - Ahead(wp', p), i) /\ Piece(p, i) \in Seq(Int)
<1>1. Ahead(wp', p) \in Nat
  BY AheadThere
<1>2. ASSUME NEW k \in 1..i
      PROVE  buffer'[p + k - 1] = reader' - Ahead(wp', p) + k - 1
  <2>1. k - 1 \in Nat /\ k - 1 < Ahead(wp', p)
    BY <1>1
  <2>2. buffer'[Mask(p + (k - 1))] = reader' - Ahead(wp', p) + (k - 1)
    BY <2>1, ThereAhead
  <2>3. Mask(p + (k - 1)) = p + k - 1
    BY Sizes DEF Mask, Ring
  <2> QED
    BY <1>1, <2>2, <2>3
<1>3. Piece(p, i) = [k \in 1..i |-> reader' - Ahead(wp', p) + k - 1]
  BY <1>2 DEF Piece
<1>4. \A k \in 1..i : reader' - Ahead(wp', p) + k - 1 \in Int
  BY <1>1
<1>5. [k \in 1..i |-> reader' - Ahead(wp', p) + k - 1] \in Seq(Int)
  BY <1>4
<1> QED
  BY <1>3, <1>5 DEF Numbers

LEMMA NumbersJoin ==
  ASSUME NEW f \in Int, NEW i \in Nat, NEW j \in Nat
  PROVE  /\ Numbers(f, i) \o Numbers(f + i, j) = Numbers(f, i + j)
         /\ Len(Numbers(f, i)) = i /\ Numbers(f, i) \in Seq(Int)
<1>1. \A n \in Nat, g \in Int : Numbers(g, n) \in Seq(Int) /\ Len(Numbers(g, n)) = n
  BY DEF Numbers
<1>2. Numbers(f, i) \o Numbers(f + i, j) = Numbers(f, i + j)
  BY DEF Numbers
<1> QED
  BY <1>1, <1>2

LEMMA ReadGives ==
  ASSUME RingInv, loop = "none", NEW n \in Nat, BuffRead(n)
  PROVE  /\ reader' >= reader
         /\ reader' = reader \/ Ahead(wp', rp') <= URL_BUFF_SIZE
         /\ out' \in Seq(Int) /\ Len(out') <= n /\ Len(out') \in Nat
         /\ out' = Numbers(pos + posofs, Len(out'))
         /\ pos' = pos + Len(out')
<1> USE DEF RingInv, BuffTypeOK
<1>1. pos + posofs = reader - Ahead(wp, rp)
  BY DEF Place, Passing
<1>2. CASE ReadNothing
  <2>1. rp' = rp /\ pos' = pos /\ out' = <<>>
    BY <1>2 DEF ReadNothing
  <2>2. reader' >= reader /\ (reader' = reader \/ Ahead(wp', rp) <= URL_BUFF_SIZE)
    <3>1. CASE eof
      BY <1>2, <3>1 DEF ReadNothing
    <3>2. CASE ~eof
      <4>1. Refill(rp)
        BY <1>2, <3>2 DEF ReadNothing
      <4> QED
        BY <4>1, RefillMore
    <3> QED
      BY <3>1, <3>2
  <2>3. out' \in Seq(Int) /\ Len(out') = 0 /\ out' = Numbers(pos + posofs, 0)
    BY <2>1 DEF Numbers
  <2> QED
    BY <2>1, <2>2, <2>3
<1>3. CASE ReadFragments(n)
  <2> DEFINE i == Fragment(rp, n)
             to == Mask(rp + i)
             j == Least(wp', n - i)
  <2>1. Refill(rp) /\ rp # wp'
    BY <1>3 DEF ReadFragments
  <2>2. /\ buffer' \in [Cell -> Int] /\ wp' \in Ring /\ reader' \in Nat
        /\ Contents(buffer', wp', reader', posofs)
        /\ reader' - Ahead(wp', rp) = reader - Ahead(wp, rp)
    BY <2>1, RefillKeeps
  <2>3. reader' >= reader /\ (reader' = reader \/ Ahead(wp', rp) <= URL_BUFF_SIZE)
    BY <2>1, RefillMore
  <2>4. i \in Nat /\ i <= n /\ i <= Ahead(wp', rp)
    BY <2>2, FragmentThere
  <2>5. to \in Ring /\ Ahead(wp', to) = Ahead(wp', rp) - i
    BY <2>2, <2>4, MoveAhead
  <2>6. rp + i <= BASESIZE
    <3>1. PICK w \in Ring : w = wp'
      BY <2>2
    <3>2. i = Least(n, IF w < rp THEN BASESIZE - rp ELSE w - rp)
      BY <3>1 DEF Fragment
    <3> HIDE DEF i, RingInv, BuffTypeOK
    <3>3. rp \in Ring
      BY DEF RingInv, BuffTypeOK
    <3> QED
      BY <3>2, <3>3, Sizes DEF Least, Ring
  <2>7. posofs \in Nat /\ pos \in Nat /\ rp \in Ring /\ Ahead(wp', rp) \in Nat
    BY <2>2, AheadThere
  <2>8. reader' - Ahead(wp', rp) = pos + posofs /\ posofs <= reader' - Ahead(wp', rp)
    BY <1>1, <2>2, <2>7
  <2>9. Piece(rp, i) = Numbers(pos + posofs, i)
    <3> HIDE DEF i, RingInv, BuffTypeOK
    <3>1. Piece(rp, i) = Numbers(reader' - Ahead(wp', rp), i)
      BY <2>2, <2>4, <2>6, <2>7, <2>8, PieceThere
    <3> QED
      BY <2>8, <3>1
  <2> HIDE DEF RingInv, BuffTypeOK
  <2>10. Numbers(pos + posofs, i) \in Seq(Int) /\ Len(Numbers(pos + posofs, i)) = i
    <3> HIDE DEF i
    <3>1. pos + posofs \in Int
      BY <2>7
    <3> QED
      BY <2>4, <3>1, NumbersJoin
  <2>11. CASE i = n \/ to = wp' \/ to # 0
    <3>1. rp' = to /\ pos' = pos + i /\ out' = Numbers(pos + posofs, i)
      BY <1>3, <2>9, <2>11 DEF ReadFragments
    <3>2. reader' = reader \/ Ahead(wp', rp') <= URL_BUFF_SIZE
      <4> HIDE DEF i, to
      <4> QED
        BY <2>3, <2>4, <2>5, <2>7, <3>1, Sizes
    <3> QED
      BY <2>3, <2>4, <2>10, <3>1, <3>2
  <2>12. CASE ~(i = n \/ to = wp' \/ to # 0)
    <3>1. rp' = j /\ pos' = pos + i + j /\ out' = Numbers(pos + posofs, i) \o Piece(0, j)
      BY <1>3, <2>9, <2>12 DEF ReadFragments
    <3>2. wp' \in Nat /\ j \in Nat /\ j <= wp' /\ j <= n - i /\ j <= BASESIZE /\ 0 \in Ring
      <4>1. PICK w \in Ring : w = wp'
        BY <2>2
      <4>2. n - i \in Nat
        BY <2>4
      <4>3. Least(w, n - i) \in Nat /\ Least(w, n - i) <= w /\ Least(w, n - i) <= n - i
        BY <4>2, Sizes DEF Least, Ring
      <4> QED
        BY <4>1, <4>3, Sizes DEF Ring
    <3>3. Ahead(wp', 0) = wp' /\ Ahead(wp', j) = wp' - j
      <4>1. \A w \in Ring, k \in Nat : k <= w => Ahead(w, k) = w - k
        BY Sizes DEF Ahead, Ring
      <4> HIDE DEF j
      <4>2. \A k \in Nat : 0 <= k /\ k - 0 = k
        OBVIOUS
      <4>3. Ahead(wp', 0) = wp' - 0
        BY <2>2, <3>2, <4>1, <4>2
      <4> QED
        BY <2>2, <3>2, <4>1, <4>2, <4>3
    <3> HIDE DEF j, i, to
    <3>4. reader' - Ahead(wp', 0) = pos + posofs + i
      BY <2>2, <2>4, <2>5, <2>7, <2>8, <2>12, <3>2, <3>3
    <3>5. Piece(0, j) = Numbers(reader' - Ahead(wp', 0), j)
      <4>1. posofs <= reader' - Ahead(wp', 0)
        BY <2>4, <2>7, <3>4
      <4>2. j <= Ahead(wp', 0) /\ 0 + j <= BASESIZE
        BY <3>2, <3>3
      <4> QED
        BY <2>2, <2>7, <3>2, <4>1, <4>2, PieceThere
    <3>6. out' = Numbers(pos + posofs, i) \o Numbers(pos + posofs + i, j)
      BY <3>1, <3>4, <3>5
    <3>7. /\ out' = Numbers(pos + posofs, i + j) /\ out' \in Seq(Int)
          /\ Len(out') = i + j
      <4>1. i + j \in Nat /\ pos + posofs \in Int
        BY <2>4, <2>7, <3>2
      <4> QED
        BY <2>4, <3>2, <3>6, <4>1, NumbersJoin
    <3>8. reader' = reader \/ Ahead(wp', rp') <= URL_BUFF_SIZE
      <4>1. Ahead(wp', to) = Ahead(wp', 0) /\ Ahead(wp', rp') = Ahead(wp', j)
        BY <2>12, <3>1
      <4>2. Ahead(wp', rp') = Ahead(wp', rp) - i - j
        BY <2>5, <3>3, <4>1
      <4>3. Ahead(wp', rp') <= Ahead(wp', rp)
        BY <2>4, <2>7, <3>2, <4>2
      <4>4. Ahead(wp', rp') \in Int
        BY <2>4, <2>7, <3>2, <4>2
      <4> QED
        BY <2>3, <2>7, <4>3, <4>4, Sizes
    <3>9. i + j <= n /\ i + j \in Nat /\ pos + i + j = pos + (i + j)
      BY <2>4, <2>7, <3>2
    <3> QED
      BY <2>3, <3>1, <3>7, <3>8, <3>9
  <2> QED
    BY <2>11, <2>12
<1> QED
  BY <1>2, <1>3 DEF BuffRead

(* No step brings more into the ring than a buffer ahead of the place. *)
Near ==
  \/ Ahead(wp', Place') <= URL_BUFF_SIZE
  \/ reader' = reader /\ (Ahead(wp', Place') <= Ahead(wp, Place) \/ loop \in {"none", "toEnd"})

LEMMA GetsGives ==
  ASSUME RingInv, NEW maxsiz \in Int, Len(out) < maxsiz - 1, GetsRound(maxsiz)
  PROVE  /\ reader' >= reader /\ Near /\ posofs' = posofs
         /\ out' \in Seq(Int) /\ Len(out') <= maxsiz - 1
         /\ out' = out \/ out' = Append(out, pos + posofs + Len(out))
         /\ \/ call' = NoCall /\ loop' = "none" /\ pos' = pos + Len(out')
            \/ /\ call' = call /\ loop' = "gets" /\ pos' = pos
               /\ out' = Append(out, pos + posofs + Len(out))
               /\ out'[Len(out')] \notin Newlines /\ Len(out') < maxsiz - 1
<1> USE DEF RingInv, BuffTypeOK
<1>1. /\ Refill(r) /\ posofs' = posofs /\ loop = "gets"
      /\ out \in Seq(Int) /\ Len(out) \in Nat
  BY DEF GetsRound
<1>2. /\ buffer' \in [Cell -> Int] /\ wp' \in Ring /\ reader' \in Nat
      /\ Contents(buffer', wp', reader', posofs)
      /\ reader' - Ahead(wp', r) = reader - Ahead(wp, r)
  BY <1>1, RefillKeeps
<1>3. reader' >= reader /\ (reader' = reader \/ Ahead(wp', r) <= URL_BUFF_SIZE)
  BY <1>1, RefillMore
<1>4. pos + Len(out) + posofs = reader' - Ahead(wp', r)
  BY <1>1, <1>2 DEF Place, Passing
<1>5. Ahead(wp', r) \in Nat /\ Ahead(wp, r) \in Nat /\ Place = r
  BY <1>1, <1>2, AheadThere DEF Place
<1>6. Place' = r => Near
  <2>1. reader' = reader => Ahead(wp', r) = Ahead(wp, r)
    BY <1>2, <1>5
  <2> QED
    BY <1>3, <1>5, <2>1 DEF Near
<1>7. CASE r = wp'
  <2>1. pos' = pos + Len(out) /\ rp' = r /\ loop' = "none" /\ call' = NoCall /\ out' = out
    BY <1>7 DEF GetsRound, Return
  <2>2. Near
    BY <1>6, <2>1 DEF Place
  <2> QED
    BY <1>1, <1>3, <2>1, <2>2
<1>8. CASE r # wp'
  <2>1. out' = Append(out, buffer'[r])
    BY <1>8 DEF GetsRound
  <2>2. buffer'[r] = pos + posofs + Len(out)
    <3>1. 0 < Ahead(wp', r)
      <4>1. 1 <= Ahead(wp', r)
        BY <1>2, <1>5, <1>8, AheadThere
      <4> QED
        BY <1>5, <4>1
    <3>2. posofs <= reader' - Ahead(wp', r)
      BY <1>1, <1>2, <1>4, <1>5
    <3> HIDE DEF RingInv, BuffTypeOK
    <3>3. r \in Ring /\ posofs \in Nat /\ pos \in Nat
      BY DEF RingInv, BuffTypeOK
    <3>4. buffer'[Mask(r + 0)] = reader' - Ahead(wp', r) + 0
      BY <1>2, <3>1, <3>2, <3>3, ThereAhead
    <3>5. Mask(r + 0) = r
      BY <3>3, Sizes DEF Mask, Ring
    <3> QED
      BY <1>1, <1>2, <1>4, <1>5, <3>3, <3>4, <3>5
  <2>3. /\ out' = Append(out, pos + posofs + Len(out)) /\ out' \in Seq(Int)
        /\ Len(out') = Len(out) + 1 /\ out'[Len(out')] = buffer'[r]
    BY <1>1, <2>1, <2>2
  <2>4. Mask(r + 1) \in Ring /\ Ahead(wp', Mask(r + 1)) = Ahead(wp', r) - 1
    <3>1. 1 <= Ahead(wp', r)
      BY <1>2, <1>5, <1>8, AheadThere
    <3> QED
      BY <1>2, <3>1, MoveAhead
  <2>5. Place' = Mask(r + 1) => Near
    <3>1. reader' = reader => Ahead(wp', r) = Ahead(wp, r)
      BY <1>2, <1>5
    <3>2. Ahead(wp', Mask(r + 1)) \in Int /\ Ahead(wp', Mask(r + 1)) <= Ahead(wp', r)
      BY <1>5, <2>4
    <3> HIDE DEF RingInv, BuffTypeOK
    <3> QED
      BY <1>3, <1>5, <3>1, <3>2, Sizes DEF Near
  <2>6. CASE buffer'[r] \notin Newlines /\ Len(out') < maxsiz - 1
    <3>1. r' = Mask(r + 1) /\ pos' = pos /\ rp' = rp /\ loop' = loop /\ call' = call
      BY <1>8, <2>6 DEF GetsRound, Continue
    <3>2. Near
      BY <1>1, <2>5, <3>1 DEF Place
    <3> QED
      BY <1>1, <1>3, <2>3, <2>6, <3>1, <3>2
  <2>7. CASE ~(buffer'[r] \notin Newlines /\ Len(out') < maxsiz - 1)
    <3>1. /\ rp' = Mask(r + 1) /\ pos' = pos + Len(out') /\ loop' = "none"
          /\ call' = NoCall
      BY <1>8, <2>7 DEF GetsRound, Return
    <3>2. Near
      BY <2>5, <3>1 DEF Place
    <3> QED
      BY <1>1, <1>3, <2>3, <3>1, <3>2
  <2> QED
    BY <2>6, <2>7
<1> QED
  BY <1>7, <1>8

(* `filled' falls short of a seek back only before the first byte or more *)
(* than a buffer behind what was read.                                     *)
LEMMA FilledEnough ==
  ASSUME wp \in Ring, rp \in Ring, pos \in Nat, NEW k \in Nat, Filled < k
  PROVE  pos < k \/ BASESIZE - 2 - Ahead(wp, rp) < k
BY Sizes DEF Filled, Least, Ahead, Ring

LEMMA SeekByGives ==
  ASSUME RingInv, loop \in {"none", "toEnd"}, NEW diff \in Int, SeekBy(diff)
  PROVE  /\ reader' = reader /\ posofs' = posofs /\ out' = out /\ Near
         /\ \/ /\ call' = NoCall /\ loop' = "none" /\ pos' = pos + diff /\ diff <= 0
            \/ /\ call' = NoCall /\ loop' = "none" /\ pos' = pos /\ diff < 0
               /\ pos + diff < 0 \/ pos + posofs + diff < reader - BASESIZE + 2
            \/ /\ call' = call /\ loop' = "ahead" /\ pos' = pos /\ diff > 0
               /\ moved' = 0 /\ left' = diff
<1> USE DEF RingInv, BuffTypeOK
<1>1. /\ reader' = reader /\ posofs' = posofs /\ out' = out
      /\ pos + posofs = reader - Ahead(wp, rp)
  <2>1. Place = rp /\ Passing = 0
    BY DEF Place, Passing
  <2> QED
    BY <2>1 DEF SeekBy
<1>2. Near
  BY <1>1 DEF Near
<1>3. CASE diff = 0 /\ SeekStay
  BY <1>1, <1>2, <1>3 DEF SeekStay, Finish, Return
<1>4. CASE diff < 0 /\ SeekBack(-diff)
  <2>1. loop' = "none" /\ call' = NoCall
    BY <1>4 DEF SeekBack, Finish, Return
  <2>2. CASE Filled < -diff
    <3>1. -diff \in Nat
      BY <1>4
    <3>2. pos < -diff \/ BASESIZE - 2 - Ahead(wp, rp) < -diff
      BY <2>2, <3>1, FilledEnough
    <3>3. pos' = pos
      BY <1>4, <2>2 DEF SeekBack
    <3>4. Ahead(wp, rp) \in Nat /\ pos \in Nat /\ posofs \in Nat /\ reader \in Nat
      BY AheadThere
    <3> HIDE DEF RingInv, BuffTypeOK
    <3>5. pos + diff < 0 \/ pos + posofs + diff < reader - BASESIZE + 2
      BY <1>1, <3>2, <3>4, Sizes
    <3> QED
      BY <1>1, <1>2, <1>4, <2>1, <3>3, <3>5
  <2>3. CASE ~(Filled < -diff)
    <3>1. pos' = pos - (-diff)
      BY <1>4, <2>3 DEF SeekBack
    <3> QED
      BY <1>1, <1>2, <1>4, <2>1, <3>1
  <2> QED
    BY <2>2, <2>3
<1>5. CASE diff > 0 /\ SeekAhead(diff)
  BY <1>1, <1>2, <1>5 DEF SeekAhead, Continue
<1> QED
  BY <1>3, <1>4, <1>5 DEF SeekBy

LEMMA AheadGives ==
  ASSUME RingInv, AheadRound
  PROVE  /\ reader' >= reader /\ posofs' = posofs /\ out' = out /\ Near
         /\ \/ /\ call' = NoCall /\ loop' = "none"
               /\ \/ pos' = pos + moved + left
                  \/ pos' = pos + moved /\ reader' = pos' + posofs
            \/ /\ call' = call /\ loop' = "ahead" /\ pos' = pos
               /\ moved' + left' = moved + left /\ left' > 0
<1> USE DEF RingInv, BuffTypeOK
<1> DEFINE i == Fragment(r, left)
<1>1. /\ loop = "ahead" /\ Refill(r) /\ posofs' = posofs /\ out' = out
      /\ moved \in Nat /\ left \in Nat
  BY DEF AheadRound
<1>2. /\ buffer' \in [Cell -> Int] /\ wp' \in Ring /\ reader' \in Nat
      /\ Contents(buffer', wp', reader', posofs)
      /\ reader' - Ahead(wp', r) = reader - Ahead(wp, r)
  BY <1>1, RefillKeeps
<1>3. reader' >= reader /\ (reader' = reader \/ Ahead(wp', r) <= URL_BUFF_SIZE)
  BY <1>1, RefillMore
<1>4. pos + moved + posofs = reader' - Ahead(wp', r)
  BY <1>1, <1>2 DEF Place, Passing
<1>5. i \in Nat /\ i <= left /\ i <= Ahead(wp', r)
  BY <1>1, <1>2, FragmentThere
<1>6. Mask(r + i) \in Ring /\ Ahead(wp', Mask(r + i)) = Ahead(wp', r) - i
  BY <1>2, <1>5, MoveAhead
<1>7. Ahead(wp', r) \in Nat /\ Ahead(wp, r) \in Nat /\ Place = r
  BY <1>1, <1>2, AheadThere DEF Place
<1>8. reader' = reader => Ahead(wp', r) = Ahead(wp, r)
  BY <1>2, <1>7
<1>9. Place' \in {r, Mask(r + i)} => Near
  <2>1. /\ Ahead(wp', Mask(r + i)) \in Int /\ Ahead(wp', Mask(r + i)) <= Ahead(wp', r)
    BY <1>5, <1>6, <1>7
  <2> HIDE DEF RingInv, BuffTypeOK, i
  <2>2. Place' = r => Near
    BY <1>3, <1>7, <1>8 DEF Near
  <2>3. Place' = Mask(r + i) => Near
    BY <1>3, <1>7, <1>8, <2>1, Sizes DEF Near
  <2> QED
    BY <2>2, <2>3
<1>10. CASE r = wp'
  <2>1. pos' = pos + moved /\ rp' = r /\ loop' = "none" /\ call' = NoCall
    BY <1>10 DEF AheadRound, Finish, Return
  <2>2. Ahead(wp', r) = 0
    <3>1. \A p \in Ring : Ahead(p, p) = 0
      BY Sizes DEF Ahead, Ring
    <3> QED
      BY <1>10, <3>1
  <2>3. reader' = pos' + posofs
    <3>1. pos + moved + posofs = reader'
      BY <1>2, <1>4, <2>2
    <3>2. pos' = pos + moved
      BY <2>1
    <3> HIDE DEF RingInv, BuffTypeOK
    <3> QED
      BY <3>1, <3>2
  <2>4. Near
    BY <1>9, <2>1 DEF Place
  <2> QED
    BY <1>1, <1>3, <2>1, <2>3, <2>4
<1>11. CASE r # wp' /\ left > i
  <2>1. /\ moved' = moved + i /\ left' = left - i /\ r' = Mask(r + i)
        /\ pos' = pos /\ rp' = rp /\ loop' = loop /\ call' = call
    BY <1>11 DEF AheadRound, Continue
  <2>2. Near
    BY <1>1, <1>9, <2>1 DEF Place
  <2>3. moved' + left' = moved + left /\ left' > 0
    BY <1>1, <1>5, <1>11, <2>1
  <2> QED
    BY <1>1, <1>3, <2>1, <2>2, <2>3
<1>12. CASE r # wp' /\ ~(left > i)
  <2>1. /\ pos' = pos + moved + i /\ rp' = Mask(r + i) /\ loop' = "none"
        /\ call' = NoCall
    BY <1>12 DEF AheadRound, Finish, Return
  <2>2. Near
    BY <1>9, <2>1 DEF Place
  <2>3. i = left
    BY <1>1, <1>5, <1>12
  <2> QED
    BY <1>1, <1>3, <2>1, <2>2, <2>3
<1> QED
  BY <1>10, <1>11, <1>12

-----------------------------------------------------------------------------
(* What holds of every call and every step *)
LEMMA Asked ==
  /\ NoCall.op = "none" /\ NoCall \notin Calls
  /\ UrlTypes /\ call # NoCall => Request(call) /\ call.n \in Int
BY UrlAssumption DEF UrlTypes, Request

LEMMA AllowedFits ==
  ASSUME UrlTypes, ~AtLimit, NEW n \in Nat
  PROVE  /\ Allowed(n) \in Nat /\ Allowed(n) <= n
         /\ readlimit # NoLimit => nread + Allowed(n) <= readlimit
BY DEF UrlTypes, AtLimit, Allowed, NoLimit

LEMMA CountedNat ==
  ASSUME UrlTypes, NEW n \in Nat
  PROVE  Counted(n) \in Nat
BY DEF UrlTypes, Counted

(* a call that counts what it gives, or nothing if it gives nothing, or    *)
(* that clears the count                                                   *)
LEMMA LimitReturns ==
  ASSUME UrlTypes, LimitInv, Record, call # NoCall, call' = NoCall, readlimit' = readlimit,
         nread' \in Nat, out' \in Seq(Int),
         \/ nread' = 0 /\ call.op \in {"seek", "rewind"}
         \/ /\ ~SeekingByReading /\ nread' = nread
            /\ Len(out') <= Owed \/ call.op \in {"seek", "rewind", "limit"}
         \/ /\ ~SeekingByReading
            /\ \E n \in Nat : /\ nread' = Counted(n) /\ Len(out') <= Owed + n
                              /\ readlimit # NoLimit => nread + n <= readlimit
  PROVE  LimitInv'
<1> SUFFICES ASSUME readlimit # NoLimit
             PROVE  counted' \in Nat /\ counted' <= nread' /\ nread' <= readlimit
  <2>1. Owed' = 0
    BY DEF Owed
  <2>2. \A k \in Nat : k + 0 = k
    OBVIOUS
  <2> QED
    BY <2>1, <2>2 DEF LimitInv, NoLimit
<1>1. Len(out') \in Nat /\ nread \in Nat /\ counted \in Nat /\ readlimit \in Nat
  BY DEF UrlTypes
<1>2. Owed \in Nat
  BY DEF UrlTypes, Owed
<1>3. counted + Owed <= nread /\ (nread <= readlimit \/ SeekingByReading)
  BY DEF LimitInv
<1>4. counted' = IF call.op \in {"seek", "rewind", "limit"} THEN 0 ELSE counted + Len(out')
  BY <1>1 DEF Record, NoLimit
<1>5. CASE nread' = 0 /\ call.op \in {"seek", "rewind"}
  BY <1>1, <1>4, <1>5
<1>6. CASE /\ ~SeekingByReading /\ nread' = nread
           /\ Len(out') <= Owed \/ call.op \in {"seek", "rewind", "limit"}
  BY <1>1, <1>2, <1>3, <1>4, <1>6
<1>7. ASSUME ~SeekingByReading,
             NEW n \in Nat, nread' = Counted(n), Len(out') <= Owed + n,
             nread + n <= readlimit
      PROVE  counted' \in Nat /\ counted' <= nread' /\ nread' <= readlimit
  <2>1. nread' = nread + n
    BY <1>7 DEF Counted
  <2> QED
    BY <1>1, <1>2, <1>3, <1>4, <1>7, <2>1
<1> QED
  BY <1>5, <1>6, <1>7

LEMMA LimitContinues ==
  ASSUME UrlTypes, LimitInv, Record, call # NoCall, call' = call, readlimit' = readlimit,
         nread' = nread \/ (nread' = 0 /\ call.op \in {"seek", "rewind"}),
         ~SeekingByReading, kind' = "buff"
  PROVE  LimitInv'
<1> SUFFICES ASSUME readlimit # NoLimit
             PROVE  counted' \in Nat /\ counted' <= nread' /\ nread' <= readlimit
  <2>1. Owed' = 0
    BY DEF Owed
  <2>2. \A k \in Nat : k + 0 = k
    OBVIOUS
  <2> QED
    BY <2>1, <2>2 DEF LimitInv, NoLimit
<1>1. nread \in Nat /\ counted \in Nat /\ readlimit \in Nat
  BY DEF UrlTypes
<1>2. Owed \in Nat
  BY DEF UrlTypes, Owed
<1>3. counted + Owed <= nread /\ (nread <= readlimit \/ SeekingByReading)
  BY DEF LimitInv
<1>4. /\ counted' \in {0, counted}
      /\ call.op \in {"seek", "rewind"} => counted' = 0
  BY <1>1 DEF Record, NoLimit
<1> QED
  BY <1>1, <1>2, <1>3, <1>4

LEMMA RecordMoves ==
  ASSUME UrlTypes, Record, call # NoCall, call.op # "reopen", At' \in Int, out' \in Seq(Int),
         readlimit' \in Nat \union {NoLimit}
  PROVE  /\ far' = Max({far, At'}) /\ far' = (IF far < At' THEN At' ELSE far)
         /\ far' \in Nat /\ far <= far' /\ At' <= far'
         /\ lost' = lost /\ counted' \in Nat
<1>1. far' = Max({far, At'}) /\ lost' = lost
  BY DEF Record, At
<1>2. far \in Nat /\ counted \in Nat /\ Len(out') \in Nat
  BY DEF UrlTypes
<1>3. far' = IF far < At' THEN At' ELSE far
  BY <1>1, <1>2, LargerOf
<1>4. counted' \in Nat
  BY <1>2 DEF Record
<1> QED
  BY <1>1, <1>2, <1>3, <1>4

LEMMA TypesAfter ==
  ASSUME UrlTypes, kind' = kind, reader' \in Nat, posofs' = posofs, nread' \in Nat,
         readlimit' \in Nat \union {NoLimit}, rest' \in Int, far' \in Nat, lost' \in Nat,
         counted' \in Nat, out' \in Seq(Int), At' <= far',
         call' = NoCall \/ (call # NoCall /\ call' = call /\ (call.op # "gets" => out' = <<>>))
  PROVE  UrlTypes'
BY DEF UrlTypes, NoLimit

-----------------------------------------------------------------------------
(* 4. A buffered stream: each call keeps the invariant and is a step of    *)
(* ByteStream.                                                             *)
LEMMA ToldBuff ==
  ASSUME kind = "buff", pos \in Nat, posofs \in Nat, UrlTypes,
         call.op \in {"skip", "seek"} => rest = call.n
  PROVE  At = pos + posofs /\ At \in Nat
<1>1. Underway = 0
  <2>1. CASE call = NoCall
    BY <2>1, Asked DEF Underway
  <2>2. CASE call # NoCall
    BY <2>2, Asked DEF Underway
  <2> QED
    BY <2>1, <2>2
<1>2. url_tell = pos + posofs
  BY DEF url_tell
<1> QED
  BY <1>1, <1>2 DEF At

LEMMA ToldBuffAfter ==
  ASSUME kind' = "buff", pos' \in Nat, posofs' \in Nat, UrlTypes, call' = NoCall \/ call' = call,
         rest' = rest, call.op \in {"skip", "seek"} => rest = call.n
  PROVE  At' = pos' + posofs' /\ At' \in Nat
<1>1. Underway' = 0
  <2>1. CASE call' = NoCall
    BY <2>1, Asked DEF Underway
  <2>2. CASE call' # NoCall
    BY <2>2, Asked DEF Underway
  <2> QED
    BY <2>1, <2>2
<1>2. url_tell' = pos' + posofs'
  BY DEF url_tell
<1>3. At' = url_tell' - Underway'
  BY DEF At
<1>4. \A j, k \in Nat : j + k \in Nat /\ (j + k) - 0 = j + k
  OBVIOUS
<1> QED
  BY <1>1, <1>2, <1>3, <1>4

LEMMA BuffMoves ==
  ASSUME StreamInv, kind = "buff", kind' = kind, Record, call # NoCall,
         call' = NoCall \/ (call' = call /\ (call.op # "gets" => out' = <<>>)), RingInv',
         readlimit' \in Nat \union {NoLimit}, nread' \in Nat, rest' = rest, out' \in Seq(Int),
         posofs' = posofs, reader' >= reader, Near
  PROVE  /\ UrlTypes' /\ Goes
         /\ At = pos + posofs /\ At \in Nat /\ At' = pos' + posofs' /\ At' \in Nat
         /\ far \in Nat /\ far' \in Nat /\ At <= far
         /\ lost = 0 /\ lost' = 0 /\ far' <= reader' /\ Bound'
         /\ call'.op \in {"skip", "seek"} => rest' = call'.n
         /\ reader <= far + URL_BUFF_SIZE \/ loop \in {"gets", "ahead"}
<1>1. /\ UrlTypes /\ BuffInv /\ RingInv /\ BuffTypeOK /\ BuffTypeOK'
  BY DEF StreamInv, BuffInv, RingInv
<1>2. /\ pos \in Nat /\ posofs \in Nat /\ reader \in Nat /\ far \in Nat /\ At <= far
      /\ pos' \in Nat /\ posofs' \in Nat /\ reader' \in Nat /\ rest \in Int
      /\ wp \in Ring /\ wp' \in Ring /\ Place \in Ring /\ Place' \in Ring
      /\ call.op # "reopen"
  BY <1>1 DEF BuffTypeOK, UrlTypes, Place
<1>3. /\ call.op \in {"skip", "seek"} => rest = call.n
      /\ lost = 0 /\ far <= reader /\ Bound
  BY <1>1 DEF BuffInv
<1>4. At = pos + posofs /\ At \in Nat
  BY <1>1, <1>2, <1>3, ToldBuff
<1>5. At' = pos' + posofs' /\ At' \in Nat
  BY <1>1, <1>2, <1>3, ToldBuffAfter
<1>6. /\ far' = Max({far, At'}) /\ far' = (IF far < At' THEN At' ELSE far)
      /\ far' \in Nat /\ far <= far' /\ At' <= far'
      /\ lost' = lost /\ counted' \in Nat
  <2>1. At' \in Int
    BY <1>5
  <2> QED
    BY <1>1, <1>2, <2>1, RecordMoves
<1>7. UrlTypes'
  <2>1. rest' \in Int /\ lost' \in Nat
    BY <1>2, <1>3, <1>6
  <2> QED
    BY <1>1, <1>2, <1>6, <2>1, TypesAfter
<1>8. Goes
  <2>1. Mode' = Mode
    BY DEF Mode
  <2> QED
    BY <1>6, <2>1 DEF Goes
<1>9. Passing \in Nat /\ Passing' \in Nat
  <2>1. Passing \in Nat
    BY <1>1 DEF BuffTypeOK, Passing
  <2>2. Passing' \in Nat
    BY <1>1 DEF BuffTypeOK, Passing
  <2> QED
    BY <2>1, <2>2
<1>10. /\ Ahead(wp, Place) \in Nat /\ Ahead(wp', Place') \in Nat
       /\ pos + Passing + posofs = reader - Ahead(wp, Place)
       /\ pos' + Passing' + posofs' = reader' - Ahead(wp', Place')
  BY <1>1, <1>2, AheadThere DEF RingInv
<1>11. far' <= reader'
  <2>1. At' <= reader'
    <3>1. \A p, o, k, n, t \in Nat : p + k + o = n - t => p + o <= n
      OBVIOUS
    <3>2. /\ pos' \in Nat /\ posofs' \in Nat /\ reader' \in Nat /\ Passing' \in Nat
          /\ Ahead(wp', Place') \in Nat
          /\ pos' + Passing' + posofs' = reader' - Ahead(wp', Place')
      BY <1>2, <1>9, <1>10
    <3>3. pos' + posofs' <= reader'
      BY ONLY <3>1, <3>2
    <3> QED
      BY <1>5, <3>3
  <2>2. far <= reader'
    BY <1>2, <1>3
  <2> QED
    BY <1>6, <2>1, <2>2
<1>12. reader <= far + URL_BUFF_SIZE \/ loop \in {"gets", "ahead"}
  <2>1. loop \in {"none", "toEnd"} => Passing = 0
    BY DEF Passing
  <2>2. loop \in {"none", "toEnd"} => reader = At + Ahead(wp, Place)
    BY <1>2, <1>4, <1>10, <2>1
  <2>3. loop \in {"none", "gets", "ahead", "toEnd"}
    BY <1>1 DEF BuffTypeOK
  <2> QED
    BY <1>2, <1>3, <1>4, <1>10, <2>2, <2>3, Sizes DEF Bound
<1>13. Bound'
  <2>1. CASE Ahead(wp', Place') <= URL_BUFF_SIZE
    BY <2>1 DEF Bound
  <2>2. CASE reader' = reader /\ Ahead(wp', Place') <= Ahead(wp, Place)
    <3>1. \A f, g, n, a, c, z \in Nat :
             /\ n <= f + z \/ a <= z
             /\ f <= g /\ c <= a
             => n <= g + z \/ c <= z
      OBVIOUS
    <3>2. reader <= far + URL_BUFF_SIZE \/ Ahead(wp, Place) <= URL_BUFF_SIZE
      BY <1>3 DEF Bound
    <3>3. /\ far \in Nat /\ far' \in Nat /\ reader \in Nat /\ URL_BUFF_SIZE \in Nat
          /\ Ahead(wp, Place) \in Nat /\ Ahead(wp', Place') \in Nat
      BY <1>2, <1>6, <1>10, Sizes
    <3>4. far <= far'
      BY <1>6
    <3>5. reader <= far' + URL_BUFF_SIZE \/ Ahead(wp', Place') <= URL_BUFF_SIZE
      BY ONLY <2>2, <3>1, <3>2, <3>3, <3>4
    <3> QED
      BY <2>2, <3>5 DEF Bound
  <2>3. CASE reader' = reader /\ loop \in {"none", "toEnd"}
    <3>1. \A f, g, n, z \in Nat : n <= f + z /\ f <= g => n <= g + z
      OBVIOUS
    <3>2. reader <= far + URL_BUFF_SIZE
      BY <1>12, <2>3
    <3>3. far \in Nat /\ far' \in Nat /\ reader \in Nat /\ URL_BUFF_SIZE \in Nat
      BY <1>2, <1>6, Sizes
    <3>4. far <= far'
      BY <1>6
    <3>5. reader <= far' + URL_BUFF_SIZE
      BY ONLY <3>1, <3>2, <3>3, <3>4
    <3> QED
      BY <2>3, <3>5 DEF Bound
  <2> QED
    BY <2>1, <2>2, <2>3 DEF Near
<1>14. call'.op \in {"skip", "seek"} => rest' = call'.n
  BY <1>3, Asked
<1> QED
  BY <1>2, <1>3, <1>4, <1>5, <1>6, <1>7, <1>8, <1>11, <1>12, <1>13, <1>14

LEMMA NumbersAppend ==
  ASSUME NEW f \in Int, NEW n \in Nat
  PROVE  Append(Numbers(f, n), f + n) = Numbers(f, n + 1)
BY DEF Numbers

(* a step of a call, in the states that are reached *)
Step ==
  /\ StreamInv /\ kind' = kind /\ Record /\ call # NoCall
  /\ readlimit' = readlimit /\ rest' = rest
Kept == StreamInv' /\ Says

LEMMA BuffKept ==
  ASSUME kind' = "buff", UrlTypes', LimitInv', BuffInv'
  PROVE  StreamInv'
BY DEF StreamInv

(* what is common to the steps of a buffered stream that return *)
LEMMA BuffReturns ==
  ASSUME Step, kind = "buff", call' = NoCall, loop' = "none", RingInv',
         nread' \in Nat, out' \in Seq(Int), posofs' = posofs, reader' >= reader, Near
  PROVE  /\ UrlTypes' /\ BuffInv' /\ Goes /\ lost = 0 /\ ~SeekingByReading /\ Owed = 0
         /\ At = pos + posofs /\ At \in Nat /\ At' = pos' + posofs /\ At' \in Nat
         /\ far \in Nat /\ At <= far
         /\ loop \in {"none", "toEnd"} => reader <= far + URL_BUFF_SIZE
<1>1. /\ StreamInv /\ kind' = kind /\ Record /\ call # NoCall /\ readlimit' = readlimit
      /\ rest' = rest /\ UrlTypes
  BY DEF Step, StreamInv
<1>2. readlimit' \in Nat \union {NoLimit}
  BY <1>1 DEF UrlTypes
<1>3. /\ UrlTypes' /\ Goes
      /\ At = pos + posofs /\ At \in Nat /\ At' = pos' + posofs' /\ At' \in Nat
      /\ far \in Nat /\ far' \in Nat /\ At <= far
      /\ lost = 0 /\ lost' = 0 /\ far' <= reader' /\ Bound'
      /\ call'.op \in {"skip", "seek"} => rest' = call'.n
      /\ reader <= far + URL_BUFF_SIZE \/ loop \in {"gets", "ahead"}
  BY <1>1, <1>2, BuffMoves
<1>4. InLoop'
  BY DEF InLoop
<1>5. BuffInv'
  BY <1>3, <1>4 DEF BuffInv
<1>6. ~SeekingByReading /\ Owed = 0
  BY DEF SeekingByReading, HasSeek, Owed
<1> QED
  BY <1>3, <1>5, <1>6

(* ... and to those that go on *)
LEMMA BuffContinues ==
  ASSUME Step, kind = "buff", call' = call, call.op # "gets" => out' = <<>>, RingInv',
         nread' \in Nat, out' \in Seq(Int), posofs' = posofs, reader' >= reader, Near
  PROVE  /\ UrlTypes' /\ Goes /\ lost = 0 /\ ~SeekingByReading
         /\ At = pos + posofs /\ At \in Nat /\ At' = pos' + posofs /\ At' \in Nat
         /\ far \in Nat /\ At <= far
         /\ InLoop' => BuffInv'
<1>1. /\ StreamInv /\ kind' = kind /\ Record /\ call # NoCall /\ readlimit' = readlimit
      /\ rest' = rest /\ UrlTypes
  BY DEF Step, StreamInv
<1>2. readlimit' \in Nat \union {NoLimit}
  BY <1>1 DEF UrlTypes
<1>3. /\ UrlTypes' /\ Goes
      /\ At = pos + posofs /\ At \in Nat /\ At' = pos' + posofs' /\ At' \in Nat
      /\ far \in Nat /\ far' \in Nat /\ At <= far
      /\ lost = 0 /\ lost' = 0 /\ far' <= reader' /\ Bound'
      /\ call'.op \in {"skip", "seek"} => rest' = call'.n
  BY <1>1, <1>2, BuffMoves
<1>4. InLoop' => BuffInv'
  BY <1>3 DEF BuffInv
<1>5. ~SeekingByReading
  BY DEF SeekingByReading, HasSeek
<1> QED
  BY <1>3, <1>4, <1>5

LEMMA StaysPut ==
  ASSUME Goes, At \in Int, far \in Int, At <= far, At' = At
  PROVE  far' = far
BY LargerOf DEF Goes

LEMMA BuffFacts ==
  ASSUME Step, kind = "buff"
  PROVE  /\ UrlTypes /\ LimitInv /\ BuffInv /\ RingInv /\ BuffTypeOK /\ InLoop /\ kind' = "buff"
         /\ Record /\ call # NoCall /\ readlimit' = readlimit /\ rest' = rest
         /\ Request(call) /\ call.n \in Int
         /\ loop \in {"none", "gets", "ahead", "toEnd"}
         /\ loop = "none" \/ (loop = "gets" /\ call.op = "gets")
            \/ (loop = "ahead" /\ call.op \in {"seek", "skip"})
            \/ (loop = "toEnd" /\ call.op = "seek" /\ call.whence = "end")
         /\ loop = "none" \/ call.op # "gets" => out = <<>>
         /\ readlimit # NoLimit => nread \in Nat /\ readlimit \in Nat /\ nread <= readlimit
         /\ nread \in Nat
<1>1. UrlTypes /\ LimitInv /\ BuffInv /\ RingInv /\ BuffTypeOK /\ InLoop /\ kind' = "buff"
      /\ Record /\ call # NoCall /\ readlimit' = readlimit /\ rest' = rest
  BY DEF Step, StreamInv, BuffInv, RingInv
<1>2. Request(call) /\ call.n \in Int
  BY <1>1, Asked
<1>3. loop \in {"none", "gets", "ahead", "toEnd"}
  BY <1>1 DEF BuffTypeOK
<1>4. ~SeekingByReading
  BY DEF SeekingByReading, HasSeek
<1>5. readlimit # NoLimit => nread \in Nat /\ readlimit \in Nat /\ nread <= readlimit
  BY <1>1, <1>4 DEF LimitInv, UrlTypes
<1>6. /\ loop = "none" \/ (loop = "gets" /\ call.op = "gets")
         \/ (loop = "ahead" /\ call.op \in {"seek", "skip"})
         \/ (loop = "toEnd" /\ call.op = "seek" /\ call.whence = "end")
  BY <1>1, <1>3 DEF InLoop
<1>7. loop = "none" \/ call.op # "gets" => out = <<>>
  BY <1>1 DEF InLoop, UrlTypes
<1> QED
  BY <1>1, <1>2, <1>3, <1>5, <1>6, <1>7 DEF UrlTypes

LEMMA BuffNothing ==
  ASSUME Step, kind = "buff", Nothing, loop = "none",
         call.op \in {"read", "getc", "gets", "skip", "disable", "detach"}
  PROVE  Kept
<1>1. /\ UrlTypes /\ LimitInv /\ RingInv /\ BuffTypeOK /\ kind' = "buff" /\ Record /\ call # NoCall
      /\ readlimit' = readlimit /\ Request(call) /\ call.n \in Int /\ out = <<>> /\ nread \in Nat
  BY BuffFacts
<1>2. /\ call' = NoCall /\ buff' = buff /\ reader' = reader /\ out' = <<>> /\ nread' = nread
      /\ url_seek' = url_seek
  BY <1>1 DEF Nothing, Return, cache_vars, cache
<1>3. loop' = "none" /\ posofs' = posofs /\ pos' = pos
  BY <1>2 DEF buff
<1>4. RingInv'
  BY <1>1, <1>2, Unchanged
<1>5. Near /\ reader' >= reader /\ out' \in Seq(Int) /\ Len(out') = 0
  BY <1>1, <1>2 DEF Near, BuffTypeOK
<1>6. /\ UrlTypes' /\ BuffInv' /\ Goes /\ lost = 0 /\ ~SeekingByReading /\ Owed = 0
      /\ At = pos + posofs /\ At \in Nat /\ At' = pos' + posofs /\ At' \in Nat
      /\ far \in Nat /\ At <= far
  BY <1>1, <1>2, <1>3, <1>4, <1>5, BuffReturns
<1>7. LimitInv'
  BY <1>1, <1>2, <1>5, <1>6, LimitReturns
<1>8. StreamInv'
  BY <1>1, <1>6, <1>7, BuffKept
<1>9. At' = At /\ far' = far
  BY <1>3, <1>6, StaysPut
<1>10. Says
  <2>1. CASE call.op \in {"read", "getc", "gets"}
    <3>1. At' = At + Len(out') /\ Len(out') <= call.n
      BY <1>1, <1>5, <1>6, <1>9, <2>1 DEF Request
    <3>2. out' = Numbers(At + lost, Len(out'))
      BY <1>2, <1>5 DEF Numbers
    <3>3. \A i \in 1..(Len(out') - 1) : FALSE
      BY <1>5
    <3> QED
      BY <1>1, <1>2, <1>6, <2>1, <3>1, <3>2, <3>3, SayDeliver
  <2>2. CASE call.op = "skip"
    <3>1. At' \in At..(At + call.n)
      BY <1>1, <1>6, <1>9, <2>2 DEF Request
    <3> QED
      BY <1>1, <1>2, <1>6, <2>2, <3>1, SaySkip
  <2>3. CASE call.op \in {"disable", "detach"}
    <3>1. Mode = "window" /\ Mode' = Mode
      BY <1>1 DEF Mode
    <3> QED
      BY <1>1, <1>2, <1>3, <1>6, <1>9, <2>3, <3>1, SayChange DEF Goes
  <2> QED
    BY <2>1, <2>2, <2>3
<1> QED
  BY <1>8, <1>10 DEF Kept

(* a return with the bytes read *)
LEMMA BuffDelivers ==
  ASSUME Step, kind = "buff", call' = NoCall, loop' = "none", RingInv',
         out' \in Seq(Int), posofs' = posofs, reader' >= reader, Near,
         call.op \in {"read", "getc", "gets"}, pos' = pos + Len(out'),
         NEW n \in Nat, nread' = Counted(n), Len(out') <= n,
         readlimit # NoLimit => nread + n <= readlimit,
         Len(out') <= call.n, out' = Numbers(pos + posofs, Len(out')),
         call.op = "gets" => \A i \in 1..(Len(out') - 1) : out'[i] \notin Newlines
  PROVE  Kept
<1>1. /\ UrlTypes /\ LimitInv /\ BuffTypeOK /\ kind' = "buff" /\ Record /\ call # NoCall
      /\ readlimit' = readlimit
  BY BuffFacts
<1>2. nread' \in Nat /\ Len(out') \in Nat
  BY <1>1, CountedNat
<1>3. /\ UrlTypes' /\ BuffInv' /\ Goes /\ lost = 0 /\ ~SeekingByReading /\ Owed = 0
      /\ At = pos + posofs /\ At \in Nat /\ At' = pos' + posofs /\ At' \in Nat
  BY <1>2, BuffReturns
<1>4. LimitInv'
  <2>1. Len(out') <= Owed + n
    BY <1>2, <1>3
  <2> QED
    BY <1>1, <1>2, <1>3, <2>1, LimitReturns
<1>5. StreamInv'
  BY <1>1, <1>3, <1>4, BuffKept
<1>6. At' = At + Len(out') /\ At + lost = pos + posofs
  <2>1. pos \in Nat /\ posofs \in Nat
    BY <1>1 DEF BuffTypeOK
  <2> QED
    BY <1>2, <1>3, <2>1
<1>7. out' = Numbers(At + lost, Len(out'))
  BY <1>6
<1>8. Says
  BY <1>1, <1>3, <1>6, <1>7, SayDeliver
<1> QED
  BY <1>5, <1>8 DEF Kept

LEMMA BuffUrlRead ==
  ASSUME Step, kind = "buff", UrlRead
  PROVE  Kept
<1>1. /\ UrlTypes /\ RingInv /\ loop = "none" /\ Request(call) /\ call.n \in Int
      /\ call.op = "read"
  <2>1. call.op = "read"
    BY DEF UrlRead
  <2> QED
    BY <2>1, BuffFacts
<1>2. CASE AtLimit
  <2>1. Nothing
    BY <1>2 DEF UrlRead
  <2> QED
    BY <1>1, <2>1, BuffNothing
<1>3. CASE ~AtLimit
  <2> DEFINE n == Allowed(call.n)
  <2>1. BuffRead(n) /\ nread' = Counted(Len(out')) /\ call' = NoCall
    BY <1>3 DEF UrlRead, Cached, Return
  <2>2. n \in Nat /\ n <= call.n /\ (readlimit # NoLimit => nread + n <= readlimit)
    <3>1. call.n \in Nat
      BY <1>1 DEF Request
    <3> QED
      BY <1>1, <1>3, <3>1, AllowedFits
  <2> HIDE DEF n
  <2>3. RingInv'
    BY <1>1, <2>1, <2>2, ReadStep
  <2>4. /\ reader' >= reader
        /\ reader' = reader \/ Ahead(wp', rp') <= URL_BUFF_SIZE
        /\ out' \in Seq(Int) /\ Len(out') <= n /\ Len(out') \in Nat
        /\ out' = Numbers(pos + posofs, Len(out'))
        /\ pos' = pos + Len(out')
    BY <1>1, <2>1, <2>2, ReadGives
  <2>5. posofs' = posofs /\ loop' = "none"
    BY <1>1, <2>1 DEF BuffRead
  <2>6. Near
    BY <1>1, <2>4, <2>5 DEF Near, Place
  <2>7. Len(out') <= call.n /\ (readlimit # NoLimit => nread + Len(out') <= readlimit)
    <3>1. readlimit # NoLimit => nread \in Nat /\ readlimit \in Nat
      BY BuffFacts
    <3> QED
      BY <1>1, <2>2, <2>4, <3>1
  <2>8. Len(out') <= Len(out')
    BY <2>4
  <2> QED
    BY <1>1, <2>1, <2>3, <2>4, <2>5, <2>6, <2>7, <2>8, BuffDelivers
<1> QED
  BY <1>2, <1>3

LEMMA BuffUrlGetc ==
  ASSUME Step, kind = "buff", UrlGetc
  PROVE  Kept
<1>1. /\ UrlTypes /\ RingInv /\ BuffTypeOK /\ loop = "none" /\ call.op = "getc" /\ call.n = 1
  <2>1. call.op = "getc"
    BY DEF UrlGetc
  <2>2. call.n = 1
    BY <2>1, BuffFacts DEF Request
  <2> QED
    BY <2>1, <2>2, BuffFacts
<1>2. CASE AtLimit
  <2>1. Nothing
    BY <1>2 DEF UrlGetc
  <2> QED
    BY <1>1, <2>1, BuffNothing
<1>3. CASE ~AtLimit
  <2>1. BuffFgetc /\ nread' = Counted(1) /\ call' = NoCall
    BY <1>3 DEF UrlGetc, Cached, Return
  <2>2. Fgetc /\ posofs' = posofs /\ loop' = "none"
    BY <1>1, <2>1 DEF BuffFgetc
  <2>3. RingInv'
    BY <1>1, <2>1, FgetcStep
  <2>4. /\ reader' >= reader
        /\ reader' = reader \/ Ahead(wp', rp') <= URL_BUFF_SIZE
        /\ pos' = pos \/ (pos' = pos + 1 /\ buffer'[rp] = pos + posofs)
    BY <1>1, <2>2, FgetcGives
  <2>5. Near
    BY <1>1, <2>2, <2>4 DEF Near, Place
  <2>6. pos \in Nat /\ posofs \in Nat
    BY <1>1 DEF BuffTypeOK
  <2>7. /\ out' \in Seq(Int) /\ Len(out') <= 1 /\ pos' = pos + Len(out')
        /\ out' = Numbers(pos + posofs, Len(out'))
    <3>1. CASE pos' = pos
      <4>1. out' = <<>>
        BY <2>1, <3>1 DEF BuffFgetc
      <4>2. Len(out') = 0 /\ out' \in Seq(Int) /\ out' = Numbers(pos + posofs, 0)
        BY <4>1 DEF Numbers
      <4> QED
        BY <2>6, <3>1, <4>2
    <3>2. CASE pos' # pos
      <4>1. out' = <<pos + posofs>> /\ pos' = pos + 1
        BY <2>1, <2>4, <3>2 DEF BuffFgetc
      <4>2. \A f \in Int : <<f>> = Numbers(f, 1) /\ <<f>> \in Seq(Int) /\ Len(<<f>>) = 1
        BY DEF Numbers
      <4>3. pos + posofs \in Int
        BY <2>6
      <4> QED
        BY <4>1, <4>2, <4>3
    <3> QED
      BY <3>1, <3>2
  <2>8. readlimit # NoLimit => nread + 1 <= readlimit
    BY <1>3, BuffFacts DEF AtLimit
  <2> QED
    BY <1>1, <2>1, <2>2, <2>3, <2>4, <2>5, <2>7, <2>8, BuffDelivers
<1> QED
  BY <1>2, <1>3

LEMMA BuffUrlGets ==
  ASSUME Step, kind = "buff", UrlGets
  PROVE  Kept
<1> DEFINE n == GetsSize
<1>1. /\ UrlTypes /\ LimitInv /\ RingInv /\ BuffTypeOK /\ InLoop /\ kind' = "buff" /\ Record
      /\ call # NoCall /\ readlimit' = readlimit
      /\ loop \in {"none", "gets"} /\ call.op = "gets" /\ call.n \in Nat
      /\ loop = "none" => out = <<>>
      /\ readlimit # NoLimit => nread \in Nat /\ readlimit \in Nat /\ nread <= readlimit
      /\ nread \in Nat
  <2>1. call.op = "gets"
    BY DEF UrlGets
  <2>2. call.n \in Nat
    BY <2>1, BuffFacts DEF Request
  <2> QED
    BY <2>1, <2>2, BuffFacts
<1>2. CASE AtLimit /\ loop = "none"
  <2>1. Nothing
    BY <1>2 DEF UrlGets
  <2> QED
    BY <1>1, <1>2, <2>1, BuffNothing
<1>3. CASE ~(AtLimit /\ loop = "none")
  <2>1. /\ BuffGets(n)
        /\ nread' = IF call' = NoCall THEN Counted(Len(out')) ELSE nread
    BY <1>3 DEF UrlGets, Buffered, GetsSize
  <2>2. /\ n \in Int /\ n - 1 <= call.n
        /\ readlimit # NoLimit => nread + (n - 1) <= readlimit
    BY <1>1 DEF GetsSize
  <2> HIDE DEF n
  <2>3. RingInv'
    BY <1>1, <2>1, <2>2, GetsStep
  <2>4. CASE GetsNothing(n)
    <3>1. /\ loop = "none" /\ buff' = buff /\ reader' = reader /\ out' = <<>> /\ call' = NoCall
      BY <1>1, <2>4 DEF GetsNothing, Return
    <3>2. loop' = "none" /\ posofs' = posofs /\ pos' = pos
      BY <3>1 DEF buff
    <3>3. Len(out') = 0 /\ out' \in Seq(Int) /\ Near /\ reader' >= reader
      BY <1>1, <3>1 DEF Near, BuffTypeOK
    <3>4. nread' = Counted(0)
      BY <2>1, <3>1, <3>3
    <3>5. /\ out' = Numbers(pos + posofs, Len(out')) /\ pos' = pos + Len(out')
      BY <1>1, <3>1, <3>2, <3>3 DEF Numbers, BuffTypeOK
    <3>6. Len(out') <= 0 /\ Len(out') <= call.n /\ (readlimit # NoLimit => nread + 0 <= readlimit)
      BY <1>1, <3>3
    <3>7. \A i \in 1..(Len(out') - 1) : FALSE
      BY <3>3
    <3> QED
      BY <1>1, <3>1, <3>2, <3>3, <3>4, <3>5, <3>6, <3>7, <2>3, BuffDelivers
  <2>5. CASE GetsBegin(n)
    <3>1. /\ loop = "none" /\ loop' = "gets" /\ r' = rp /\ out' = <<>> /\ call' = call
          /\ pos' = pos /\ posofs' = posofs /\ reader' = reader /\ n > 1
      BY <2>5 DEF GetsBegin, Continue
    <3>2. Near /\ reader' >= reader /\ out' \in Seq(Int) /\ Len(out') = 0 /\ nread' = nread
      BY <1>1, <2>1, <3>1 DEF Near, BuffTypeOK
    <3>3. /\ UrlTypes' /\ Goes /\ lost = 0 /\ ~SeekingByReading
          /\ At = pos + posofs /\ At \in Nat /\ At' = pos' + posofs /\ At' \in Nat
          /\ far \in Nat /\ At <= far
          /\ InLoop' => BuffInv'
      BY <1>1, <2>3, <3>1, <3>2, BuffContinues
    <3>4. InLoop'
      <4>1. GetsSize' = n /\ AtLimit' = AtLimit
        BY <1>1, <3>1, <3>2 DEF GetsSize, AtLimit, n
      <4>2. Len(out') < GetsSize' - 1 /\ ~AtLimit'
        BY <1>3, <2>2, <3>1, <3>2, <4>1
      <4>3. out' = Numbers(At', Len(out'))
        BY <3>1, <3>2 DEF Numbers
      <4>4. \A i \in 1..Len(out') : FALSE
        BY <3>2
      <4> QED
        BY <1>1, <3>1, <4>2, <4>3, <4>4 DEF InLoop
    <3>5. LimitInv'
      BY <1>1, <3>1, <3>2, <3>3, LimitContinues
    <3>6. StreamInv'
      BY <1>1, <3>3, <3>4, <3>5, BuffKept
    <3>7. At' = At /\ far' = far
      BY <3>1, <3>3, StaysPut
    <3>8. Says
      BY <1>1, <3>1, <3>3, <3>7, SayNothing DEF Goes
    <3> QED
      BY <3>6, <3>8 DEF Kept
  <2>6. CASE GetsRound(n)
    <3>1. /\ loop = "gets" /\ ~AtLimit /\ Len(out) < n - 1
          /\ out = Numbers(At, Len(out)) /\ \A i \in 1..Len(out) : out[i] \notin Newlines
      BY <1>1, <2>6 DEF InLoop, GetsRound, n
    <3>2. /\ reader' >= reader /\ Near /\ posofs' = posofs
          /\ out' \in Seq(Int) /\ Len(out') <= n - 1
          /\ out' = out \/ out' = Append(out, pos + posofs + Len(out))
          /\ \/ call' = NoCall /\ loop' = "none" /\ pos' = pos + Len(out')
             \/ /\ call' = call /\ loop' = "gets" /\ pos' = pos
                /\ out' = Append(out, pos + posofs + Len(out))
                /\ out'[Len(out')] \notin Newlines /\ Len(out') < n - 1
      BY <1>1, <2>2, <2>6, <3>1, GetsGives
    <3>3. At = pos + posofs /\ At \in Nat
      <4>1. call.op \in {"skip", "seek"} => rest = call.n
        BY <1>1
      <4> QED
        BY <1>1, <4>1, ToldBuff DEF BuffTypeOK
    <3>4. /\ out' = Numbers(At, Len(out')) /\ Len(out) \in Nat /\ Len(out') \in Nat
          /\ out' = out => Len(out') = Len(out)
          /\ out' # out => Len(out') = Len(out) + 1
          /\ \A i \in 1..(Len(out') - 1) : out'[i] \notin Newlines
          /\ out' # out /\ out'[Len(out')] \notin Newlines =>
               \A i \in 1..Len(out') : out'[i] \notin Newlines
      <4>1. Len(out) \in Nat /\ out \in Seq(Int)
        BY <1>1, <3>1 DEF UrlTypes
      <4>2. CASE out' = out
        BY <3>1, <4>1, <4>2
      <4>3. CASE out' = Append(out, pos + posofs + Len(out))
        <5>1. out' = Append(Numbers(At, Len(out)), At + Len(out))
          BY <3>1, <3>3, <4>3
        <5>2. out' = Numbers(At, Len(out) + 1)
          <6>1. At \in Int
            BY <3>3
          <6> QED
            BY <4>1, <5>1, <6>1, NumbersAppend
        <5>3. Len(out') = Len(out) + 1 /\ \A i \in 1..Len(out) : out'[i] = out[i]
          BY <4>1, <4>3
        <5>4. \A i \in 1..Len(out') : i \in 1..Len(out) \/ i = Len(out')
          BY <4>1, <5>3
        <5>5. \A i \in 1..(Len(out') - 1) : i \in 1..Len(out)
          BY <4>1, <5>3
        <5> QED
          BY <3>1, <4>1, <5>2, <5>3, <5>4, <5>5
      <4> QED
        BY <3>2, <4>2, <4>3
    <3>5. CASE call' = NoCall /\ loop' = "none" /\ pos' = pos + Len(out')
      <4>1. nread' = Counted(Len(out'))
        BY <2>1, <3>5
      <4>2. /\ Len(out') <= call.n /\ Len(out') <= Len(out')
            /\ readlimit # NoLimit => nread + Len(out') <= readlimit
        BY <1>1, <2>2, <3>2, <3>4
      <4>3. out' = Numbers(pos + posofs, Len(out'))
        BY <3>3, <3>4
      <4> QED
        BY <1>1, <2>3, <3>2, <3>4, <3>5, <4>1, <4>2, <4>3, BuffDelivers
    <3>6. CASE /\ call' = call /\ loop' = "gets" /\ pos' = pos
               /\ out' = Append(out, pos + posofs + Len(out))
               /\ out'[Len(out')] \notin Newlines /\ Len(out') < n - 1
      <4>1. nread' = nread /\ nread' \in Nat
        BY <1>1, <2>1, <3>6
      <4>2. /\ UrlTypes' /\ Goes /\ lost = 0 /\ ~SeekingByReading
            /\ At = pos + posofs /\ At \in Nat /\ At' = pos' + posofs /\ At' \in Nat
            /\ far \in Nat /\ At <= far
            /\ InLoop' => BuffInv'
        BY <1>1, <2>3, <3>2, <3>6, <4>1, BuffContinues
      <4>3. At' = At /\ far' = far
        BY <3>6, <4>2, StaysPut
      <4>4. InLoop'
        <5>1. GetsSize' = n /\ AtLimit' = AtLimit
          BY <1>1, <3>6, <4>1 DEF GetsSize, AtLimit, n
        <5>2. out' # out
          <6>1. out \in Seq(Int)
            BY <1>1 DEF UrlTypes
          <6>2. \A s \in Seq(Int) : \A x : Append(s, x) # s
            <7>1. \A s \in Seq(Int) : \A x : Len(Append(s, x)) # Len(s)
              OBVIOUS
            <7> QED
              BY <7>1
          <6> QED
            BY <3>6, <6>1, <6>2
        <5>3. \A i \in 1..Len(out') : out'[i] \notin Newlines
          BY <3>4, <3>6, <5>2
        <5>4. out' = Numbers(At', Len(out'))
          BY <3>4, <4>3
        <5> QED
          BY <1>1, <3>1, <3>6, <5>1, <5>3, <5>4 DEF InLoop
      <4>5. LimitInv'
        BY <1>1, <3>6, <4>1, <4>2, LimitContinues
      <4>6. StreamInv'
        BY <1>1, <4>2, <4>4, <4>5, BuffKept
      <4>7. Says
        BY <1>1, <3>2, <3>6, <4>2, <4>3, SayNothing DEF Goes
      <4> QED
        BY <4>6, <4>7 DEF Kept
    <3> QED
      BY <3>2, <3>5, <3>6
  <2> QED
    BY <2>1, <2>4, <2>5, <2>6 DEF BuffGets
<1> QED
  BY <1>2, <1>3

(* What a seek by SeekBy() or a round of its loop comes to *)
Sought(to) ==
  \/ /\ call' = NoCall /\ UrlTypes' /\ BuffInv' /\ Goes /\ out' = <<>> /\ Arriving(to)
     /\ At \in Nat /\ At' \in Nat /\ (At <= to => At <= At' /\ At' <= to)
  \/ call' = call /\ UrlTypes' /\ BuffInv' /\ Says

LEMMA BuffSeekBy ==
  ASSUME Step, kind = "buff", loop \in {"none", "toEnd"}, NEW diff \in Int, SeekBy(diff),
         call.op \in {"skip", "seek", "rewind"}, nread' \in Nat,
         diff > 0 => /\ SeekGoal = At + diff /\ call.op # "rewind"
                     /\ call.op = "skip" => ~AtLimit /\ (call' = call => nread' = nread)
  PROVE  Sought(At + diff)
<1>1. /\ RingInv /\ BuffTypeOK /\ kind' = "buff" /\ call # NoCall /\ readlimit' = readlimit
      /\ out = <<>> /\ UrlTypes
  BY BuffFacts
<1>2. /\ reader' = reader /\ posofs' = posofs /\ out' = out /\ Near
      /\ \/ /\ call' = NoCall /\ loop' = "none" /\ pos' = pos + diff /\ diff <= 0
         \/ /\ call' = NoCall /\ loop' = "none" /\ pos' = pos /\ diff < 0
            /\ pos + diff < 0 \/ pos + posofs + diff < reader - BASESIZE + 2
         \/ /\ call' = call /\ loop' = "ahead" /\ pos' = pos /\ diff > 0
            /\ moved' = 0 /\ left' = diff
  BY <1>1, SeekByGives
<1>3. RingInv'
  BY <1>1, SeekByStep
<1>4. pos \in Nat /\ posofs \in Nat /\ reader \in Nat /\ reader' >= reader /\ out' \in Seq(Int)
  BY <1>1, <1>2 DEF BuffTypeOK
<1>5. CASE call' = NoCall /\ loop' = "none" /\ diff <= 0
  <2>1. /\ UrlTypes' /\ BuffInv' /\ Goes
        /\ At = pos + posofs /\ At \in Nat /\ At' = pos' + posofs /\ At' \in Nat
        /\ far \in Nat /\ At <= far
        /\ loop \in {"none", "toEnd"} => reader <= far + URL_BUFF_SIZE
    BY <1>2, <1>3, <1>4, <1>5, BuffReturns
  <2>2. CASE pos' = pos + diff
    <3>1. At' = At + diff
      BY <1>4, <2>1, <2>2
    <3> QED
      BY <1>1, <1>2, <1>5, <2>1, <3>1 DEF Sought, Arriving
  <2>3. CASE pos' = pos /\ diff < 0
             /\ (pos + diff < 0 \/ pos + posofs + diff < reader - BASESIZE + 2)
    <3>1. Mode = "window" /\ At' = At /\ At + diff < At
      BY <1>4, <2>1, <2>3 DEF Mode
    <3>2. At + diff < posofs \/ At + diff < far - (URL_BUFF_SIZE - 2)
      BY <1>4, <2>1, <2>3, Sizes
    <3> QED
      BY <1>1, <1>2, <1>5, <2>1, <3>1, <3>2 DEF Sought, Arriving
  <2> QED
    BY <1>2, <1>5, <2>2, <2>3
<1>6. CASE /\ call' = call /\ loop' = "ahead" /\ pos' = pos /\ diff > 0
           /\ moved' = 0 /\ left' = diff
  <2>1. /\ UrlTypes' /\ Goes
        /\ At = pos + posofs /\ At \in Nat /\ At' = pos' + posofs /\ At' \in Nat
        /\ far \in Nat /\ At <= far
        /\ InLoop' => BuffInv'
    BY <1>1, <1>2, <1>3, <1>4, <1>6, BuffContinues
  <2>2. At' = At /\ far' = far
    BY <1>6, <2>1, StaysPut
  <2>3. /\ SeekGoal = At + diff /\ call.op \in {"skip", "seek"}
        /\ call.op = "skip" => ~AtLimit /\ nread' = nread
    BY <1>6
  <2>4. SeekGoal' = SeekGoal
    BY <1>1, <1>2, <1>6, <2>3 DEF SeekGoal, Allowed
  <2>5. call.op = "skip" => ~AtLimit'
    BY <1>1, <2>3 DEF AtLimit
  <2>6. pos' + posofs' + moved' + left' = SeekGoal'
    BY <1>2, <1>4, <1>6, <2>1, <2>3, <2>4
  <2>7. InLoop'
    BY <1>1, <1>6, <2>3, <2>5, <2>6 DEF InLoop
  <2>8. Says
    BY <1>1, <1>2, <1>6, <2>1, <2>2, SayNothing DEF Goes
  <2> QED
    BY <1>6, <2>1, <2>7, <2>8 DEF Sought
<1> QED
  BY <1>2, <1>5, <1>6

LEMMA BuffAhead ==
  ASSUME Step, kind = "buff", AheadRound, nread' \in Nat,
         call.op = "skip" /\ call' = call => nread' = nread
  PROVE  /\ Sought(SeekGoal) /\ At \in Nat /\ At < SeekGoal
         /\ call.op \in {"seek", "skip"}
         /\ call.op = "skip" => ~AtLimit
<1>1. /\ RingInv /\ BuffTypeOK /\ kind' = "buff" /\ call # NoCall /\ readlimit' = readlimit
      /\ InLoop /\ loop = "ahead" /\ BuffInv /\ UrlTypes /\ BuffTypeOK
  BY BuffFacts DEF AheadRound
<1>2. /\ call.op \in {"seek", "skip"} /\ left > 0
      /\ call.op = "skip" => ~AtLimit
      /\ pos + posofs + moved + left = SeekGoal
  BY <1>1 DEF InLoop
<1>3. out = <<>>
  BY <1>2, BuffFacts
<1>4. /\ reader' >= reader /\ posofs' = posofs /\ out' = out /\ Near
      /\ \/ /\ call' = NoCall /\ loop' = "none"
            /\ \/ pos' = pos + moved + left
               \/ pos' = pos + moved /\ reader' = pos' + posofs
         \/ /\ call' = call /\ loop' = "ahead" /\ pos' = pos
            /\ moved' + left' = moved + left /\ left' > 0
  BY <1>1, AheadGives
<1>5. RingInv'
  BY <1>1, AheadStep
<1>6. /\ pos \in Nat /\ posofs \in Nat /\ moved \in Nat /\ left \in Nat /\ reader \in Nat
      /\ out' \in Seq(Int)
  BY <1>1, <1>3, <1>4 DEF BuffTypeOK
<1>7. /\ loop' = "ahead" => moved' \in Nat /\ left' \in Nat
      /\ pos' \in Nat /\ reader' \in Nat
  BY <1>5 DEF RingInv, BuffTypeOK
<1>8. At = pos + posofs /\ At \in Nat
  <2>1. call.op \in {"skip", "seek"} => rest = call.n
    BY <1>1 DEF BuffInv
  <2> QED
    BY <1>1, <1>6, <2>1, ToldBuff
<1>9. At < SeekGoal
  BY <1>2, <1>6, <1>8
<1> SUFFICES Sought(SeekGoal)
  BY <1>2, <1>8, <1>9
<1>10. CASE call' = NoCall /\ loop' = "none"
  <2>1. /\ UrlTypes' /\ BuffInv' /\ Goes
        /\ At = pos + posofs /\ At \in Nat /\ At' = pos' + posofs /\ At' \in Nat
        /\ far \in Nat /\ At <= far /\ lost = 0
    BY <1>4, <1>5, <1>6, <1>10, BuffReturns
  <2>2. CASE pos' = pos + moved + left
    <3>1. At' = SeekGoal
      BY <1>2, <1>6, <2>1, <2>2
    <3> QED
      BY <1>3, <1>4, <1>9, <1>10, <1>1, <2>1, <3>1, <1>2 DEF Sought, Arriving
  <2>3. CASE pos' = pos + moved /\ reader' = pos' + posofs
    <3>1. At' < SeekGoal /\ At' = reader' /\ At <= At'
      BY <1>2, <1>6, <2>1, <2>3
    <3>2. far <= reader
      BY <1>1 DEF BuffInv
    <3>3. far <= At' /\ SeekGoal > far /\ At' \in far..SeekGoal
      <4>1. SeekGoal \in Nat
        BY <1>2, <1>6
      <4> QED
        <5>1. \A o, n, f, t, g \in Nat : f <= o /\ n >= o /\ t = n /\ t < g =>
                                         f <= t /\ g > f /\ t \in f..g
          OBVIOUS
        <5>2. /\ far \in Nat /\ far <= reader /\ reader \in Nat /\ reader' \in Nat
              /\ reader' >= reader /\ At' = reader' /\ At' < SeekGoal /\ At' \in Nat
          BY <1>4, <1>6, <1>7, <2>1, <3>1, <3>2
        <5> QED
          BY ONLY <4>1, <5>1, <5>2
    <3>4. At' <= SeekGoal
      BY <2>1, <3>3
    <3> QED
      BY <1>3, <1>4, <1>10, <2>1, <3>1, <3>3, <3>4, <1>2 DEF Sought, Arriving
  <2> QED
    BY <1>4, <1>10, <2>2, <2>3, <1>1
<1>11. CASE /\ call' = call /\ loop' = "ahead" /\ pos' = pos
            /\ moved' + left' = moved + left /\ left' > 0
  <2>1. /\ UrlTypes' /\ Goes
        /\ At = pos + posofs /\ At \in Nat /\ At' = pos' + posofs /\ At' \in Nat
        /\ far \in Nat /\ At <= far
        /\ InLoop' => BuffInv'
    BY <1>3, <1>4, <1>5, <1>6, <1>11, BuffContinues
  <2>2. At' = At /\ far' = far
    BY <1>11, <2>1, StaysPut
  <2>3. SeekGoal' = SeekGoal
    <3>1. CASE call.op = "skip"
      BY <1>1, <1>4, <1>11, <3>1 DEF SeekGoal, Allowed
    <3>2. CASE call.op = "seek"
      BY <1>1, <1>4, <1>11, <3>2 DEF SeekGoal
    <3> QED
      BY <1>2, <3>1, <3>2
  <2>4. call.op = "skip" => ~AtLimit'
    BY <1>1, <1>2, <1>11 DEF AtLimit
  <2>5. pos' + posofs' + moved' + left' = SeekGoal'
    <3>2. moved' \in Nat /\ left' \in Nat
      BY <1>7, <1>11
    <3>3. pos + posofs + moved' + left' = pos + posofs + moved + left
      <4>1. /\ pos \in Nat /\ posofs \in Nat /\ moved \in Nat /\ left \in Nat
            /\ moved' + left' = moved + left
        BY <1>6, <1>11
      <4>2. PICK k \in Nat, j \in Nat : k = moved' /\ j = left'
        BY <3>2
      <4>3. k + j = moved + left
        BY <4>1, <4>2
      <4>4. pos + posofs + k + j = pos + posofs + moved + left
        BY <4>1, <4>3
      <4> QED
        BY <4>2, <4>4
    <3> QED
      BY <1>2, <1>4, <1>11, <2>3, <3>3
  <2>6. InLoop'
    BY <1>1, <1>2, <1>11, <2>4, <2>5 DEF InLoop
  <2>7. Says
    BY <1>1, <1>4, <1>11, <2>1, <2>2, SayNothing DEF Goes
  <2> QED
    BY <1>11, <2>1, <2>6, <2>7 DEF Sought
<1> QED
  BY <1>4, <1>10, <1>11

LEMMA SoughtKept ==
  ASSUME Step, kind = "buff", NEW to, Sought(to), nread' \in Nat,
         \/ nread' = 0 /\ call.op \in {"seek", "rewind"}
         \/ /\ call.op = "skip" /\ (call' = call => nread' = nread)
            /\ call' = NoCall => \E n \in Nat : /\ nread' = Counted(n)
                                                /\ readlimit # NoLimit => nread + n <= readlimit
  PROVE  StreamInv'
<1>1. /\ UrlTypes /\ LimitInv /\ kind' = "buff" /\ Record /\ call # NoCall
      /\ readlimit' = readlimit
  BY BuffFacts
<1>2. ~SeekingByReading /\ Owed = 0
  BY DEF SeekingByReading, HasSeek, Owed
<1>3. UrlTypes' /\ BuffInv'
  BY DEF Sought
<1>4. CASE call' = call
  <2>1. nread' = nread \/ (nread' = 0 /\ call.op \in {"seek", "rewind"})
    BY <1>4
  <2> QED
    BY <1>1, <1>2, <1>3, <1>4, <2>1, LimitContinues, BuffKept
<1>5. CASE call' = NoCall
  <2>1. out' = <<>>
    BY <1>1, <1>5 DEF Sought
  <2>2. out' \in Seq(Int) /\ Len(out') = 0
    BY <2>1
  <2>3. CASE nread' = 0 /\ call.op \in {"seek", "rewind"}
    BY <1>1, <1>2, <1>3, <1>5, <2>2, <2>3, LimitReturns, BuffKept
  <2>4. ASSUME NEW n \in Nat, nread' = Counted(n), readlimit # NoLimit => nread + n <= readlimit
        PROVE  StreamInv'
    <3>1. Len(out') <= Owed + n
      BY <1>2, <2>2
    <3>2. LimitInv'
      BY <1>1, <1>2, <1>5, <2>2, <2>4, <3>1, LimitReturns
    <3> QED
      BY <1>1, <1>3, <3>2, BuffKept
  <2> QED
    BY <1>5, <2>3, <2>4
<1> QED
  BY <1>4, <1>5 DEF Sought

LEMMA BuffUrlSeek ==
  ASSUME Step, kind = "buff", UrlSeek
  PROVE  Kept
<1>1. /\ UrlTypes /\ LimitInv /\ RingInv /\ BuffTypeOK /\ kind' = "buff" /\ call # NoCall
      /\ readlimit' = readlimit /\ Request(call) /\ call.n \in Int /\ Record
      /\ call.op = "seek" /\ nread' = 0 /\ out = <<>> /\ BuffInv
      /\ BuffSeek(call.n, call.whence)
  <2>1. call.op = "seek" /\ nread' = 0 /\ BuffSeek(call.n, call.whence)
    BY DEF UrlSeek, Cached
  <2> QED
    BY <2>1, BuffFacts
<1>2. pos \in Nat /\ posofs \in Nat /\ nread' \in Nat /\ Mode = "window"
  BY <1>1 DEF BuffTypeOK, Mode
<1>3. At = pos + posofs /\ At \in Nat
  <2>1. call.op \in {"skip", "seek"} => rest = call.n
    BY <1>1 DEF BuffInv
  <2> QED
    BY <1>1, <1>2, <2>1, ToldBuff
<1>4. SeekGoal = IF call.whence = "set" THEN call.n ELSE At + call.n
  BY <1>1, <1>3 DEF SeekGoal
<1>5. ASSUME Sought(IF call.whence = "set" THEN call.n ELSE At + call.n)
      PROVE  Kept
  <2> DEFINE to == IF call.whence = "set" THEN call.n ELSE At + call.n
  <2>1. StreamInv'
    BY <1>1, <1>2, <1>5, SoughtKept
  <2>2. Sought(to)
    BY <1>5
  <2>3. to = (LET t == IF call.whence = "set" THEN call.n ELSE At + call.n
              IN  IF Mode = "kept" THEN Max({t, 0}) ELSE t)
    BY <1>2
  <2>4. call.whence = "end" => to = At + call.n
    OBVIOUS
  <2> HIDE DEF to
  <2>5. Says
    <3>1. CASE call' = call
      BY <1>1, <2>2, <3>1 DEF Sought
    <3>2. CASE call' = NoCall /\ call.whence # "end"
      BY <1>1, <2>2, <2>3, <3>2, SaySeek DEF Sought
    <3>3. CASE call' = NoCall /\ call.whence = "end"
      BY <1>1, <1>2, <2>2, <2>4, <3>3, SaySeekEnd DEF Sought
    <3> QED
      BY <2>2, <3>1, <3>2, <3>3 DEF Sought
  <2> QED
    BY <2>1, <2>5 DEF Kept
<1>6. CASE call.whence = "set" /\ loop = "none" /\ SeekBy(call.n - (pos + posofs))
  <2> DEFINE diff == call.n - (pos + posofs)
  <2>1. diff \in Int /\ At + diff = call.n /\ SeekGoal = At + diff
    BY <1>1, <1>2, <1>3, <1>4, <1>6
  <2>2. SeekBy(diff)
    BY <1>6
  <2> HIDE DEF diff
  <2>3. Sought(At + diff)
    BY <1>1, <1>2, <1>6, <2>1, <2>2, BuffSeekBy
  <2> QED
    BY <1>5, <1>6, <2>1, <2>3
<1>7. CASE call.whence # "set" /\ loop \in {"none", "toEnd"} /\ SeekBy(call.n)
  <2>1. SeekGoal = At + call.n
    BY <1>4, <1>7
  <2>2. Sought(At + call.n)
    BY <1>1, <1>2, <1>7, <2>1, BuffSeekBy
  <2> QED
    BY <1>5, <1>7, <2>2
<1>8. CASE call.whence = "end" /\ (SeekToEnd \/ ToEndRound)
  <2>1. /\ call' = call /\ loop' = "toEnd" /\ posofs' = posofs /\ out' = out
        /\ loop \in {"none", "toEnd"} /\ reader' >= reader /\ Near
        /\ pos' = pos \/ pos' = pos + 1
    <3>1. CASE SeekToEnd
      <4>1. /\ call' = call /\ loop' = "toEnd" /\ posofs' = posofs /\ out' = out
            /\ loop = "none" /\ reader' = reader /\ pos' = pos
        BY <3>1 DEF SeekToEnd, Continue
      <4>2. Near /\ reader' >= reader
        BY <1>1, <4>1 DEF Near, BuffTypeOK
      <4> QED
        BY <4>1, <4>2
    <3>2. CASE ToEndRound
      <4>1. /\ call' = call /\ loop' = "toEnd" /\ posofs' = posofs /\ out' = out
            /\ loop = "toEnd" /\ Fgetc
        BY <3>2 DEF ToEndRound, Continue
      <4>2. /\ reader' >= reader
            /\ reader' = reader \/ Ahead(wp', rp') <= URL_BUFF_SIZE
            /\ pos' = pos \/ (pos' = pos + 1 /\ buffer'[rp] = pos + posofs)
        BY <1>1, <4>1, FgetcGives
      <4>3. Near
        BY <4>1, <4>2 DEF Near, Place
      <4> QED
        BY <4>1, <4>2, <4>3
    <3> QED
      BY <1>8, <3>1, <3>2
  <2>2. RingInv'
    <3>1. CASE SeekToEnd
      <4>1. /\ BuffSeek(call.n, "end") /\ loop # "gets"
        BY <2>1, <3>1 DEF BuffSeek
      <4> QED
        BY <1>1, <4>1, SeekStep
    <3>2. CASE ToEndRound
      BY <1>1, <3>2, ToEndStep
    <3> QED
      BY <1>8, <3>1, <3>2
  <2>3. out' \in Seq(Int) /\ out' = <<>>
    BY <1>1, <2>1
  <2>4. /\ UrlTypes' /\ Goes /\ lost = 0 /\ ~SeekingByReading
        /\ At = pos + posofs /\ At \in Nat /\ At' = pos' + posofs /\ At' \in Nat
        /\ far \in Nat /\ At <= far
        /\ InLoop' => BuffInv'
    BY <1>1, <1>2, <2>1, <2>2, <2>3, BuffContinues
  <2>5. InLoop'
    BY <1>1, <1>8, <2>1 DEF InLoop
  <2>6. LimitInv'
    BY <1>1, <2>1, <2>4, LimitContinues
  <2>7. StreamInv'
    BY <1>1, <2>4, <2>5, <2>6, BuffKept
  <2>8. At' >= At
    BY <1>2, <2>1, <2>4
  <2>9. Says
    BY <1>1, <1>8, <2>1, <2>4, <2>8, SayPass
  <2> QED
    BY <2>7, <2>9 DEF Kept
<1>9. CASE AheadRound
  <2>1. Sought(SeekGoal)
    BY <1>1, <1>2, <1>9, BuffAhead
  <2> QED
    BY <1>4, <1>5, <2>1
<1> QED
  BY <1>1, <1>6, <1>7, <1>8, <1>9 DEF BuffSeek

LEMMA BuffUrlSkip ==
  ASSUME Step, kind = "buff", UrlSkipBySeek
  PROVE  Kept
<1> DEFINE n == Allowed(call.n)
<1>1. /\ UrlTypes /\ BuffTypeOK /\ kind' = "buff" /\ call # NoCall /\ BuffInv /\ InLoop
      /\ Request(call) /\ call.n \in Nat /\ call.op = "skip" /\ loop \in {"none", "ahead"}
  <2>1. call.op = "skip"
    BY DEF UrlSkipBySeek
  <2>2. call.n \in Nat
    BY <2>1, BuffFacts DEF Request
  <2> QED
    BY <2>1, <2>2, BuffFacts
<1>2. CASE AtLimit
  <2>1. Nothing
    BY <1>2 DEF UrlSkipBySeek
  <2>2. loop = "none"
    BY <1>1, <1>2 DEF InLoop
  <2> QED
    BY <1>1, <2>1, <2>2, BuffNothing
<1>3. CASE ~AtLimit
  <2>1. /\ BuffSeek(n, "cur")
        /\ nread' = IF call' = NoCall THEN Counted(n) ELSE nread
    BY <1>3 DEF UrlSkipBySeek, Cached
  <2>2. n \in Nat /\ n <= call.n /\ (readlimit # NoLimit => nread + n <= readlimit)
    BY <1>1, <1>3, AllowedFits
  <2>3. At = pos + posofs /\ At \in Nat /\ SeekGoal = At + n
    <3>1. call.op \in {"skip", "seek"} => rest = call.n
      BY <1>1 DEF BuffInv
    <3>2. At = pos + posofs /\ At \in Nat
      BY <1>1, <3>1, ToldBuff DEF BuffTypeOK
    <3> QED
      BY <1>1, <3>2 DEF SeekGoal
  <2> HIDE DEF n
  <2>4. nread' \in Nat /\ (call' = call => nread' = nread)
    BY <1>1, <2>1, <2>2, CountedNat DEF UrlTypes
  <2>5. Sought(At + n)
    <3>1. CASE loop = "none" /\ SeekBy(n)
      <4>1. n \in Int
        BY <2>2
      <4> QED
        BY <1>1, <1>3, <2>3, <2>4, <3>1, <4>1, BuffSeekBy
    <3>2. CASE AheadRound
      BY <1>1, <2>3, <2>4, <3>2, BuffAhead
    <3> QED
      BY <2>1, <3>1, <3>2 DEF BuffSeek
  <2>6. StreamInv'
    BY <1>1, <2>1, <2>2, <2>4, <2>5, SoughtKept
  <2>7. Says
    <3>1. CASE call' = call
      BY <1>1, <2>5, <3>1 DEF Sought
    <3>2. CASE call' = NoCall
      <4>1. /\ Goes /\ out' = <<>> /\ At' \in Nat /\ At <= At' /\ At' <= At + n
        BY <1>1, <2>2, <2>3, <2>5, <3>2 DEF Sought
      <4>2. At' \in At..(At + call.n)
        BY <1>1, <2>2, <2>3, <4>1
      <4> QED
        BY <1>1, <3>2, <4>1, <4>2, SaySkip
    <3> QED
      BY <2>5, <3>1, <3>2 DEF Sought
  <2> QED
    BY <2>6, <2>7 DEF Kept
<1> QED
  BY <1>2, <1>3

LEMMA BuffUrlRewind ==
  ASSUME Step, kind = "buff", UrlRewind
  PROVE  Kept
<1>1. /\ UrlTypes /\ BuffTypeOK /\ kind' = "buff" /\ call # NoCall /\ BuffInv
      /\ call.op = "rewind" /\ loop = "none" /\ nread' = 0 /\ BuffSeek(0, "set")
  <2>1. call.op = "rewind" /\ nread' = 0 /\ BuffSeek(0, "set")
    BY DEF UrlRewind, Cached
  <2> QED
    BY <2>1, BuffFacts
<1>2. At = pos + posofs /\ At \in Nat /\ pos \in Nat /\ posofs \in Nat
  BY <1>1, ToldBuff DEF BuffTypeOK
<1> DEFINE diff == 0 - (pos + posofs)
<1>3. SeekBy(diff)
  BY <1>1 DEF BuffSeek, AheadRound
<1>4. diff \in Int /\ At + diff = 0 /\ ~(diff > 0)
  BY <1>2
<1> HIDE DEF diff
<1>5. Sought(0)
  <2>1. Sought(At + diff)
    BY <1>1, <1>3, <1>4, BuffSeekBy
  <2> QED
    BY <1>4, <2>1
<1>6. StreamInv'
  BY <1>1, <1>5, SoughtKept
<1>7. Says
  <2>1. Mode = "window"
    BY DEF Mode
  <2>2. CASE call' = call
    BY <1>1, <1>5, <2>2 DEF Sought
  <2>3. CASE call' = NoCall
    BY <1>1, <1>5, <2>1, <2>3, SayRewind DEF Sought
  <2> QED
    BY <1>5, <2>2, <2>3 DEF Sought
<1> QED
  BY <1>6, <1>7 DEF Kept

-----------------------------------------------------------------------------
(* 5. A cached stream, the same.                                           *)
LEMMA Within ==
  ASSUME UrlTypes, cpos \in Nat, memb_ok \in BOOLEAN, Holds
  PROVE  /\ cpos <= reader - lost /\ reader - lost \in Nat
         /\ memb_ok => cpos <= b.total_size /\ b.total_size \in Nat
<1>1. lost \in Nat /\ reader \in Nat /\ lost \in Int
  BY DEF UrlTypes
<1>2. CASE memb_ok
  <2>1. Memory(b, lost) /\ cpos = Cursor(b) /\ b.total_size = reader - lost
    BY <1>2 DEF Holds
  <2>2. Cursor(b) \in Nat /\ b.total_size \in Nat /\ Cursor(b) <= b.total_size
    BY <1>1, <2>1, CursorThere
  <2> QED
    BY <2>1, <2>2
<1>3. CASE ~memb_ok
  BY <1>1, <1>3 DEF Holds
<1> QED
  BY <1>2, <1>3

LEMMA SupplyFits ==
  ASSUME reader \in Nat, NEW n \in Nat, NEW k \in Supply(n)
  PROVE  k \in Nat /\ k <= n
BY SourceAssumption DEF Supply, Given, Least

(* the bytes that the reader gives go behind those in memory *)
LEMMA KeepsMore ==
  ASSUME NEW m, NEW from \in Nat, Memory(m, from), NEW given \in Nat,
         m.total_size = given - from, NEW k \in Nat, NEW t,
         t = (IF k > 0 THEN AtTail(push_memb(m, Bytes(given, k))) ELSE m)
  PROVE  /\ Memory(t, from) /\ t.total_size = given + k - from
         /\ Cursor(t) = IF k > 0 THEN given + k - from ELSE Cursor(m)
<1>1. CASE k = 0
  BY <1>1
<1>2. CASE k > 0
  <2>1. Bytes(given, k) = Numbers(given, k) /\ from \in Int /\ given = from + m.total_size
    BY DEF Bytes, Numbers
  <2> DEFINE p == push_memb(m, Numbers(given, k))
  <2>2. Memory(p, from) /\ p.node # <<>> /\ p.total_size = m.total_size + k
    BY <2>1, PushAfter
  <2>3. t = AtTail(p)
    BY <1>2, <2>1
  <2> HIDE DEF p
  <2>4. Memory(t, from) /\ Cursor(t) = p.total_size /\ t.total_size = p.total_size
    BY <2>1, <2>2, <2>3, TailAtEnd
  <2> QED
    BY <1>2, <2>2, <2>4
<1> QED
  BY <1>1, <1>2

(* What a read gives: the next bytes, as many as asked for or fewer, and   *)
(* none only where the reader gives none.                                  *)
ReadBy(k, kept) ==
  /\ cpos' = cpos + k /\ out' = (IF kept THEN out \o Numbers(cpos + lost, k) ELSE out)
  /\ reader' \in Nat /\ reader' >= reader
  /\ url_seek' = url_seek /\ memb_ok' \in BOOLEAN /\ Holds'

LEMMA CacheReadGives ==
  ASSUME UrlTypes, memb_ok \in BOOLEAN, url_seek \in BOOLEAN, cpos \in Nat, Holds,
         NEW n \in Nat, NEW kept \in BOOLEAN, CacheRead(n, kept), lost' = lost
  PROVE  \E k \in Nat : /\ k <= n /\ ReadBy(k, kept)
                        /\ k = 0 /\ n > 0 => cpos >= reader - lost
<1>1. lost \in Nat /\ reader \in Nat /\ lost \in Int
  BY DEF UrlTypes
<1>2. /\ cpos <= reader - lost /\ reader - lost \in Nat
      /\ memb_ok => cpos <= b.total_size /\ b.total_size \in Nat
  BY Within
<1>3. ASSUME Direct(n, kept), memb_ok' = FALSE, url_seek' = url_seek, ~url_seek,
             cpos = reader - lost
      PROVE  \E k \in Nat : /\ k <= n /\ ReadBy(k, kept)
                            /\ k = 0 /\ n > 0 => cpos >= reader - lost
  <2>1. PICK k \in Supply(n) : /\ Into(kept, Bytes(reader, k))
                               /\ reader' = reader + k /\ cpos' = cpos + k
    BY <1>3 DEF Direct
  <2>2. k \in Nat /\ k <= n
    BY <1>1, SupplyFits
  <2>3. reader = cpos + lost /\ reader' \in Nat /\ reader' >= reader /\ cpos' = reader' - lost
    BY <1>1, <1>3, <2>1, <2>2
  <2>4. Bytes(reader, k) = Numbers(cpos + lost, k)
    BY <2>3 DEF Bytes, Numbers
  <2>5. out' = IF kept THEN out \o Numbers(cpos + lost, k) ELSE out
    BY <2>1, <2>4 DEF Into
  <2>6. Holds'
    BY <1>3, <2>3 DEF Holds
  <2>7. ReadBy(k, kept)
    BY <1>3, <2>1, <2>3, <2>5, <2>6 DEF ReadBy
  <2> QED
    BY <1>1, <1>3, <2>2, <2>7
<1>4. CASE ~memb_ok /\ Direct(n, kept) /\ UNCHANGED cache
  <2>1. memb_ok' = FALSE /\ url_seek' = url_seek /\ ~url_seek /\ cpos = reader - lost
    BY <1>4 DEF cache, Holds
  <2> QED
    BY <1>3, <1>4, <2>1
<1>5. CASE memb_ok /\ cpos >= b.total_size /\ ~url_seek /\ memb_ok' = FALSE
           /\ Direct(n, kept) /\ UNCHANGED <<url_seek, attached>>
  <2>1. cpos = reader - lost
    BY <1>1, <1>2, <1>5 DEF Holds
  <2> QED
    BY <1>3, <1>5, <2>1
<1>6. CASE /\ memb_ok /\ cpos < b.total_size
           /\ LET got == read_memb(b, Least(n, b.total_size - cpos))
              IN  b' = got.memb /\ Into(kept, got.bytes) /\ cpos' = cpos + Len(got.bytes)
           /\ UNCHANGED <<memb_ok, url_seek, attached, reader>>
  <2> DEFINE k == Least(n, b.total_size - cpos)
             got == read_memb(b, k)
  <2>1. Memory(b, lost) /\ cpos = Cursor(b) /\ b.total_size = reader - lost
    BY <1>6 DEF Holds
  <2>2. k \in Nat /\ k <= n /\ k <= b.total_size - cpos /\ (n > 0 => k > 0)
    BY <1>2, <1>6 DEF Least
  <2>3. b' = got.memb /\ Into(kept, got.bytes) /\ cpos' = cpos + Len(got.bytes)
    BY <1>6
  <2> HIDE DEF k
  <2>4. After(got, b, lost, k)
    BY <1>1, <2>1, <2>2, ReadAfter
  <2>5. Fewer(k, b.total_size - Cursor(b)) = k
    BY <2>1, <2>2 DEF Fewer
  <2>6. /\ Memory(b', lost) /\ b'.total_size = b.total_size /\ Cursor(b') = Cursor(b) + k
        /\ got.bytes = Numbers(lost + Cursor(b), k)
    BY <2>3, <2>4, <2>5 DEF After
  <2>7. lost + Cursor(b) = cpos + lost /\ cpos + lost \in Int
    BY <1>1, <2>1
  <2>8. got.bytes = Numbers(cpos + lost, k) /\ Len(got.bytes) = k
    BY <2>2, <2>6, <2>7, NumbersJoin
  <2>9. out' = IF kept THEN out \o Numbers(cpos + lost, k) ELSE out
    BY <2>3, <2>8 DEF Into
  <2>10. memb_ok' = memb_ok /\ url_seek' = url_seek /\ reader' = reader /\ cpos' = cpos + k
    BY <1>6, <2>3, <2>8
  <2>11. Holds'
    BY <1>6, <2>1, <2>6, <2>10 DEF Holds
  <2>12. ReadBy(k, kept)
    BY <1>1, <2>9, <2>10, <2>11 DEF ReadBy
  <2> QED
    BY <2>2, <2>12
<1>7. ASSUME memb_ok, cpos >= b.total_size,
             NEW k \in Supply(n), Keep(k), Into(kept, Bytes(reader, k)), cpos' = cpos + k,
             UNCHANGED <<memb_ok, url_seek, attached>>
      PROVE  \E i \in Nat : /\ i <= n /\ ReadBy(i, kept)
                            /\ i = 0 /\ n > 0 => cpos >= reader - lost
  <2>1. Memory(b, lost) /\ cpos = Cursor(b) /\ b.total_size = reader - lost
    BY <1>7 DEF Holds
  <2>2. k \in Nat /\ k <= n
    BY <1>1, SupplyFits
  <2>3. cpos = reader - lost /\ reader = cpos + lost
    BY <1>1, <1>2, <1>7, <2>1
  <2>4. /\ b' = (IF k > 0 THEN AtTail(push_memb(b, Bytes(reader, k))) ELSE b)
        /\ reader' = reader + k
    BY <1>7 DEF Keep
  <2>5. /\ Memory(b', lost) /\ b'.total_size = reader + k - lost
        /\ Cursor(b') = IF k > 0 THEN reader + k - lost ELSE Cursor(b)
    BY <1>1, <2>1, <2>2, <2>4, KeepsMore
  <2>6. reader' \in Nat /\ reader' >= reader /\ b'.total_size = reader' - lost
    BY <1>1, <2>2, <2>4, <2>5
  <2>7. Cursor(b') = cpos'
    <3>1. CASE k = 0
      BY <1>2, <1>7, <2>1, <2>5, <3>1
    <3>2. CASE k > 0
      <4>1. \A i, j, l, m \in Int : l = i - j => i + m - j = l + m
        OBVIOUS
      <4>2. reader + k - lost = cpos + k
        BY <1>1, <2>2, <2>3, <4>1
      <4> QED
        BY <1>7, <2>5, <3>2, <4>2
    <3> QED
      BY <2>2, <3>1, <3>2
  <2>8. out' = IF kept THEN out \o Numbers(cpos + lost, k) ELSE out
    <3>1. Bytes(reader, k) = Numbers(cpos + lost, k)
      BY <2>3 DEF Bytes, Numbers
    <3> QED
      BY <1>7, <3>1 DEF Into
  <2>9. Holds'
    BY <1>7, <2>5, <2>6, <2>7 DEF Holds
  <2>10. ReadBy(k, kept)
    BY <1>7, <2>6, <2>8, <2>9 DEF ReadBy
  <2> QED
    BY <1>1, <2>2, <2>3, <2>10
<1> QED
  BY <1>4, <1>5, <1>6, <1>7 DEF CacheRead

(* A seek goes to its place or as far as the reader gives bytes. *)
SoughtTo(to) ==
  /\ Holds' /\ cpos' \in Nat /\ reader' \in Nat /\ reader' >= reader
  /\ cpos' = to \/ (cpos' < to /\ cpos' = reader' - lost)

LEMMA SeekToGives ==
  ASSUME UrlTypes, cpos \in Nat, memb_ok = TRUE, Holds, NEW to \in Nat, SeekTo(to),
         memb_ok' = memb_ok, lost' = lost
  PROVE  SoughtTo(to)
<1> DEFINE back == to < cpos
           n == IF back THEN to ELSE to - cpos
           base == IF back THEN rewind_memb(b) ELSE b
           start == IF back THEN 0 ELSE cpos
           skipped == skip_read_memb(base, n)
           begun == start + skipped.n
<1>1. /\ lost \in Nat /\ lost \in Int /\ reader \in Nat
      /\ Memory(b, lost) /\ cpos = Cursor(b) /\ b.total_size = reader - lost
  BY DEF UrlTypes, Holds
<1>2. cpos <= reader - lost /\ reader - lost \in Nat
  BY <1>1, Within
<1>3. PICK k \in (IF n > skipped.n THEN Supply(n - skipped.n) ELSE {0}) :
        /\ b' = (IF k > 0 THEN AtTail(push_memb(skipped.memb, Bytes(reader, k)))
                 ELSE skipped.memb)
        /\ reader' = reader + k
        /\ cpos' = begun + k
  BY DEF SeekTo
<1>4. /\ Memory(base, lost) /\ Cursor(base) = start /\ base.total_size = reader - lost
  <2>1. CASE back
    BY <1>1, <2>1, RewoundAtStart
  <2>2. CASE ~back
    BY <1>1, <2>2
  <2> QED
    BY <2>1, <2>2
<1>5. n \in Nat /\ start \in Nat /\ start + n = to /\ start <= reader - lost
  BY <1>2
<1> DEFINE p == IF n <= 0 THEN 0 ELSE Fewer(n, base.total_size - Cursor(base))
<1> HIDE DEF base, start, n
<1>6. /\ Memory(skipped.memb, lost) /\ skipped.memb.total_size = base.total_size
      /\ skipped.n = p /\ Cursor(skipped.memb) = Cursor(base) + p
  <2>1. n \in Int
    BY <1>5
  <2> QED
    BY <1>1, <1>4, <2>1, SkipAfter
<1>7. p \in Nat /\ p <= n /\ (p < n => start + p = reader - lost)
  BY <1>2, <1>4, <1>5 DEF Fewer
<1> HIDE DEF p
<1>8. /\ k \in Nat /\ k <= n - p /\ (k > 0 => p < n)
  <2>1. CASE n > p
    <3>1. n - p \in Nat /\ k \in Supply(n - p)
      BY <1>3, <1>5, <1>6, <1>7, <2>1
    <3>2. k \in Nat /\ k <= n - p
      BY <1>1, <3>1, SupplyFits
    <3> QED
      BY <2>1, <3>2
  <2>2. CASE ~(n > p)
    BY <1>3, <1>5, <1>6, <1>7, <2>2
  <2> QED
    BY <2>1, <2>2
<1> DEFINE m == skipped.memb
<1>9. /\ Memory(m, lost) /\ m.total_size = reader - lost /\ Cursor(m) = start + p
      /\ b' = (IF k > 0 THEN AtTail(push_memb(m, Bytes(reader, k))) ELSE m)
      /\ reader' = reader + k /\ cpos' = start + p + k
  BY <1>3, <1>4, <1>6
<1> HIDE DEF m, skipped
<1>10. /\ Memory(b', lost) /\ b'.total_size = reader + k - lost
       /\ Cursor(b') = IF k > 0 THEN reader + k - lost ELSE Cursor(m)
  BY <1>1, <1>8, <1>9, KeepsMore
<1>11. k > 0 => cpos' = reader + k - lost
  BY <1>1, <1>2, <1>5, <1>7, <1>8, <1>9
<1>12. Cursor(b') = cpos' /\ b'.total_size = reader' - lost
  <2>1. PICK c, d, e : c = cpos' /\ d = reader' /\ e = Cursor(b')
    OBVIOUS
  <2>2. c = start + p + k /\ d = reader + k /\ (k > 0 => c = d - lost)
    BY <1>1, <1>8, <1>9, <1>11, <2>1
  <2>3. e = IF k > 0 THEN reader + k - lost ELSE start + p
    BY <1>9, <1>10, <2>1
  <2>4. c = e /\ reader + k - lost = d - lost
    BY ONLY <1>1, <1>5, <1>7, <1>8, <2>2, <2>3
  <2> QED
    BY <1>10, <2>1, <2>4
<1>13. Holds'
  BY <1>10, <1>12 DEF Holds
<1>14. /\ cpos' \in Nat /\ reader' \in Nat /\ reader' >= reader
       /\ cpos' = to \/ (cpos' < to /\ cpos' = reader' - lost)
  <2>1. PICK c, d : c = cpos' /\ d = reader'
    OBVIOUS
  <2>2. c = start + p + k /\ d = reader + k
    BY <1>9, <2>1
  <2>3. c \in Nat /\ d \in Nat /\ d >= reader /\ c <= to
    BY ONLY <1>1, <1>5, <1>7, <1>8, <2>2
  <2>4. c = to \/ (c < to /\ c = d - lost)
    BY ONLY <1>1, <1>2, <1>5, <1>7, <1>8, <2>2, <1>6, k >= n - p \/ k < n - p
  <2> QED
    BY <2>1, <2>3, <2>4
<1> QED
  BY <1>13, <1>14 DEF SoughtTo

(* ... and one from the end to what there is *)
LEMMA SeekEndGives ==
  ASSUME UrlTypes, cpos \in Nat, memb_ok = TRUE, Holds, CacheSeekEnd, lost' = lost
  PROVE  /\ Holds' /\ cpos' \in Nat /\ reader' \in Nat /\ reader' >= reader
         /\ cpos' = reader' - lost
<1>1. /\ lost \in Nat /\ lost \in Int /\ reader \in Nat
      /\ Memory(b, lost) /\ cpos = Cursor(b) /\ b.total_size = reader - lost
  BY DEF UrlTypes, Holds
<1>2. cpos <= reader - lost /\ reader - lost \in Nat
  BY <1>1, Within
<1> DEFINE n == b.total_size - cpos
           m == read_memb(b, n).memb
<1>3. PICK k \in Supply(SourceLength) :
        /\ b' = (IF k > 0 THEN AtTail(push_memb(m, Bytes(reader, k))) ELSE m)
        /\ reader' = reader + k
        /\ cpos' = b.total_size + k
  BY DEF CacheSeekEnd
<1>4. n \in Nat /\ n = b.total_size - Cursor(b)
  BY <1>1, <1>2
<1> DEFINE t == read_memb(b, n)
<1> HIDE DEF n
<1>5. After(t, b, lost, n)
  BY <1>1, <1>4, ReadAfter
<1>6. Fewer(n, b.total_size - Cursor(b)) = n
  BY <1>4 DEF Fewer
<1>7. Memory(m, lost) /\ m.total_size = reader - lost /\ Cursor(m) = reader - lost
  BY <1>1, <1>2, <1>4, <1>5, <1>6 DEF After
<1> HIDE DEF m, t
<1>8. k \in Nat
  BY <1>1, SourceAssumption, SupplyFits
<1>9. /\ Memory(b', lost) /\ b'.total_size = reader + k - lost
      /\ Cursor(b') = IF k > 0 THEN reader + k - lost ELSE Cursor(m)
  BY <1>1, <1>3, <1>7, <1>8, KeepsMore
<1>10. cpos' = reader' - lost /\ cpos' \in Nat /\ reader' \in Nat /\ reader' >= reader
  BY <1>1, <1>2, <1>3, <1>8
<1>11. Cursor(b') = cpos' /\ b'.total_size = reader' - lost
  BY <1>1, <1>3, <1>7, <1>8, <1>9, <1>10
<1>12. memb_ok' = memb_ok
  BY DEF CacheSeekEnd
<1> QED
  BY <1>9, <1>10, <1>11, <1>12 DEF Holds

(* a step of a call of a cached stream, in the states that are reached *)
Turn ==
  /\ StreamInv /\ kind = "cache" /\ kind' = kind /\ Record /\ call # NoCall
  /\ readlimit' \in Nat \union {NoLimit} /\ buff' = buff

LEMMA CacheFacts ==
  ASSUME Turn
  PROVE  /\ UrlTypes /\ LimitInv /\ CacheInv /\ Holds /\ InCall /\ kind' = "cache" /\ Record
         /\ call # NoCall /\ Request(call) /\ call.n \in Int
         /\ cpos \in Nat /\ reader \in Nat /\ lost \in Nat /\ far \in Nat /\ rest \in Int
         /\ nread \in Nat /\ cpos <= reader - lost /\ far <= reader - lost
         /\ out \in Seq(Int) /\ Len(out) \in Nat
         /\ call.op # "gets" => out = <<>>
         /\ url_seek \in BOOLEAN /\ memb_ok \in BOOLEAN /\ (url_seek => memb_ok)
         /\ loop' = "none" /\ wp' = 0 /\ rp' = 0 /\ pos' = 0 /\ posofs' = 0 /\ posofs = 0
         /\ readlimit # NoLimit => readlimit \in Nat
         /\ Owed = IF call.op = "gets" THEN Len(out) ELSE 0
<1>1. UrlTypes /\ LimitInv /\ CacheInv /\ kind' = "cache" /\ Record
      /\ call # NoCall /\ kind = "cache"
  BY DEF Turn, StreamInv
<1>2. Request(call) /\ call.n \in Int
  BY <1>1, Asked
<1>3. Holds /\ InCall /\ cpos \in Nat /\ far <= reader - lost
      /\ url_seek \in BOOLEAN /\ memb_ok \in BOOLEAN
  BY <1>1 DEF CacheInv
<1>4. reader \in Nat /\ lost \in Nat /\ far \in Nat /\ rest \in Int /\ nread \in Nat
      /\ out \in Seq(Int) /\ Len(out) \in Nat /\ (call.op # "gets" => out = <<>>)
      /\ (readlimit # NoLimit => readlimit \in Nat)
  BY <1>1 DEF UrlTypes
<1>5. cpos <= reader - lost
  BY <1>1, <1>3, Within
<1>6. url_seek => memb_ok
  BY <1>3 DEF Holds
<1>7. loop' = "none" /\ wp' = 0 /\ rp' = 0 /\ pos' = 0 /\ posofs' = 0 /\ posofs = 0
  <2>1. loop' = loop /\ wp' = wp /\ rp' = rp /\ pos' = pos /\ posofs' = posofs
    BY DEF Turn, buff
  <2> QED
    BY <1>1, <2>1 DEF CacheInv
<1>8. Owed = IF call.op = "gets" THEN Len(out) ELSE 0
  BY <1>1 DEF Owed
<1> QED
  BY <1>1, <1>2, <1>3, <1>4, <1>5, <1>6, <1>7, <1>8

LEMMA ToldCache ==
  ASSUME Turn
  PROVE  /\ At = cpos - (IF call.op = "gets" THEN Len(out)
                         ELSE IF call.op = "skip" \/ (call.op = "seek" /\ call.whence = "cur")
                              THEN call.n - rest ELSE 0)
         /\ At \in Int /\ At <= far
<1>1. kind = "cache" /\ call.n \in Int /\ rest \in Int /\ cpos \in Nat /\ Len(out) \in Nat
      /\ UrlTypes
  BY CacheFacts DEF Turn
<1>2. url_tell = cpos
  BY <1>1 DEF url_tell
<1>3. Underway = IF call.op = "gets" THEN Len(out)
                 ELSE IF call.op = "skip" \/ (call.op = "seek" /\ call.whence = "cur")
                      THEN call.n - rest ELSE 0
  BY <1>1 DEF Underway
<1>4. Underway \in Int
  BY <1>1, <1>3
<1>5. At = cpos - Underway /\ At \in Int
  BY <1>1, <1>2, <1>4 DEF At
<1>6. At <= far
  BY <1>1 DEF UrlTypes
<1> QED
  BY <1>3, <1>5, <1>6

LEMMA ToldCacheAfter ==
  ASSUME Turn, cpos' \in Nat, rest' \in Int, out' \in Seq(Int)
  PROVE  /\ call' = NoCall => At' = cpos'
         /\ call' = call =>
              At' = cpos' - (IF call.op = "gets" THEN Len(out')
                             ELSE IF call.op = "skip" \/ (call.op = "seek" /\ call.whence = "cur")
                                  THEN call.n - rest' ELSE 0)
<1>1. kind' = "cache" /\ call.n \in Int /\ Len(out') \in Nat
  BY CacheFacts
<1>2. url_tell' = cpos'
  BY <1>1 DEF url_tell
<1>3. At' = cpos' - Underway'
  BY <1>2 DEF At
<1>4. ASSUME call' = NoCall PROVE At' = cpos'
  <2>1. Underway' = 0
    BY <1>1, <1>4, Asked DEF Underway
  <2>2. \A j \in Nat : j - 0 = j
    OBVIOUS
  <2> QED
    BY <1>3, <2>1, <2>2
<1>5. ASSUME call' = call
      PROVE  Underway' = IF call.op = "gets" THEN Len(out')
                         ELSE IF call.op = "skip" \/ (call.op = "seek" /\ call.whence = "cur")
                              THEN call.n - rest' ELSE 0
  BY <1>1, <1>5 DEF Underway
<1> QED
  BY <1>3, <1>4, <1>5

LEMMA CacheMoves ==
  ASSUME Turn, call.op # "reopen", InCall', Holds',
         call' = NoCall \/ (call' = call /\ (call.op # "gets" => out' = <<>>)),
         cpos' \in Nat, reader' \in Nat, reader' >= reader, nread' \in Nat, out' \in Seq(Int),
         rest' \in Int, url_seek' \in BOOLEAN, memb_ok' \in BOOLEAN,
         At' = cpos' \/ At' = At
  PROVE  /\ UrlTypes' /\ CacheInv' /\ far' = Max({far, At'}) /\ lost' = lost /\ posofs' = posofs
         /\ far \in Nat /\ At \in Int /\ At <= far /\ At' \in Int
         /\ url_seek' = url_seek => Goes
<1>1. /\ UrlTypes /\ Record /\ call # NoCall /\ kind' = "cache" /\ lost \in Nat /\ reader \in Nat /\ far \in Nat /\ far <= reader - lost
      /\ loop' = "none" /\ wp' = 0 /\ rp' = 0 /\ pos' = 0 /\ posofs' = 0 /\ posofs = 0
      /\ kind = "cache"
  BY CacheFacts DEF Turn
<1>2. At \in Int /\ At <= far
  BY ToldCache
<1>3. At' \in Int
  BY <1>2
<1>4. readlimit' \in Nat \union {NoLimit}
  BY DEF Turn
<1>5. /\ far' = Max({far, At'}) /\ far' = (IF far < At' THEN At' ELSE far)
      /\ far' \in Nat /\ far <= far' /\ At' <= far'
      /\ lost' = lost /\ counted' \in Nat
  BY <1>1, <1>3, <1>4, RecordMoves
<1>6. UrlTypes'
  <2>1. kind' = kind /\ lost' \in Nat /\ posofs' = posofs
    BY <1>1, <1>5
  <2> QED
    BY <1>1, <1>4, <1>5, <2>1, TypesAfter
<1>7. cpos' <= reader' - lost'
  <2>1. CASE memb_ok'
    <3>1. Memory(b', lost') /\ cpos' = Cursor(b') /\ b'.total_size = reader' - lost'
      BY <2>1 DEF Holds
    <3>2. Cursor(b') <= b'.total_size
      <4>1. lost' \in Int
        BY <1>1, <1>5
      <4> QED
        BY <3>1, <4>1, CursorThere
    <3> QED
      BY <3>1, <3>2
  <2>2. CASE ~memb_ok'
    <3>1. cpos' = reader' - lost'
      BY <2>2 DEF Holds
    <3> QED
      BY <3>1
  <2> QED
    BY <2>1, <2>2
<1>8. far' <= reader' - lost'
  <2>1. PICK f, g, l, k, c : f = far' /\ g = reader' /\ l = lost' /\ k = At' /\ c = cpos'
    OBVIOUS
  <2>2. /\ f = (IF far < k THEN k ELSE far) /\ l = lost /\ c <= g - l /\ (k = c \/ k = At)
        /\ g \in Nat /\ g >= reader /\ c \in Nat
    BY <1>5, <1>7, <2>1
  <2>3. f <= g - l
    BY ONLY <1>1, <1>2, <2>2
  <2> QED
    BY <2>1, <2>3
<1>9. CacheInv'
  BY <1>1, <1>8 DEF CacheInv
<1>10. url_seek' = url_seek => Goes
  <2>1. url_seek' = url_seek => Mode' = Mode
    BY <1>1 DEF Mode
  <2> QED
    BY <1>1, <1>5, <2>1 DEF Goes
<1> QED
  BY <1>1, <1>2, <1>3, <1>5, <1>6, <1>9, <1>10

LEMMA CacheKept ==
  ASSUME kind' = "cache", UrlTypes', LimitInv', CacheInv'
  PROVE  StreamInv'
BY DEF StreamInv

(* the same of a call that returns *)
LEMMA CacheReturns ==
  ASSUME Turn, call.op # "reopen", call' = NoCall, Holds',
         cpos' \in Nat, reader' \in Nat, reader' >= reader, nread' \in Nat, out' \in Seq(Int),
         rest' \in Int, url_seek' \in BOOLEAN, memb_ok' \in BOOLEAN
  PROVE  /\ UrlTypes' /\ CacheInv' /\ far' = Max({far, At'}) /\ lost' = lost /\ posofs' = posofs
         /\ far \in Nat /\ At \in Int /\ At <= far /\ At' = cpos'
         /\ url_seek' = url_seek => Goes
<1>1. InCall'
  BY Asked DEF InCall
<1>2. At' = cpos'
  BY ToldCacheAfter
<1> QED
  BY <1>1, <1>2, CacheMoves

LEMMA LostSame ==
  ASSUME Turn, call.op # "reopen"
  PROVE  lost' = lost
BY DEF Turn, Record

(* a call that leaves the stream as it is *)
LEMMA CacheStays ==
  ASSUME Turn, call.op # "reopen", call' = NoCall, UNCHANGED cache_vars, reader' = reader,
         out' = out, nread' \in Nat, rest' = rest
  PROVE  /\ UrlTypes' /\ CacheInv' /\ Goes /\ At' = cpos /\ far \in Nat /\ At \in Int /\ At <= far
<1>1. /\ Holds /\ cpos \in Nat /\ reader \in Nat /\ out \in Seq(Int) /\ rest \in Int
      /\ url_seek \in BOOLEAN /\ memb_ok \in BOOLEAN
  BY CacheFacts
<1>2. cpos' = cpos /\ memb_ok' = memb_ok /\ b' = b /\ url_seek' = url_seek /\ lost' = lost
  BY LostSame DEF cache_vars, cache
<1>3. Holds'
  BY <1>1, <1>2 DEF Holds
<1>4. reader' >= reader /\ cpos' \in Nat /\ reader' \in Nat /\ out' \in Seq(Int) /\ rest' \in Int
      /\ url_seek' \in BOOLEAN /\ memb_ok' \in BOOLEAN
  BY <1>1, <1>2
<1>5. /\ UrlTypes' /\ CacheInv' /\ far \in Nat /\ At \in Int /\ At <= far /\ At' = cpos'
      /\ url_seek' = url_seek => Goes
  BY <1>3, <1>4, CacheReturns
<1> QED
  BY <1>2, <1>5

LEMMA CacheNothing ==
  ASSUME Turn, readlimit' = readlimit, Nothing, rest' = rest,
         call.op \in {"read", "getc", "gets", "skip"}
  PROVE  Kept
<1>1. /\ UrlTypes /\ LimitInv /\ InCall /\ kind' = "cache" /\ Record /\ call # NoCall
      /\ Request(call) /\ call.n \in Int /\ cpos \in Nat /\ rest \in Int /\ nread \in Nat
      /\ lost \in Nat /\ out \in Seq(Int) /\ Len(out) \in Nat /\ (call.op # "gets" => out = <<>>)
      /\ Owed = IF call.op = "gets" THEN Len(out) ELSE 0
  BY CacheFacts
<1>2. call' = NoCall /\ UNCHANGED cache_vars /\ reader' = reader /\ out' = out /\ nread' = nread
  BY DEF Nothing, Return
<1>3. /\ UrlTypes' /\ CacheInv' /\ Goes /\ At' = cpos /\ At \in Int
  BY <1>1, <1>2, CacheStays
<1>4. LimitInv'
  <2>1. ~SeekingByReading
    BY DEF SeekingByReading
  <2>2. Len(out') <= Owed
    BY <1>1, <1>2
  <2> QED
    BY <1>1, <1>2, <2>1, <2>2, LimitReturns
<1>5. StreamInv'
  BY <1>1, <1>3, <1>4, CacheKept
<1>6. At = cpos - (IF call.op = "gets" THEN Len(out)
                   ELSE IF call.op = "skip" \/ (call.op = "seek" /\ call.whence = "cur")
                        THEN call.n - rest ELSE 0)
  BY ToldCache
<1>7. CASE call.op = "skip"
  <2>1. 0 <= rest /\ rest <= call.n
    BY <1>1, <1>7 DEF InCall
  <2>2. At' \in At..(At + call.n)
    BY <1>1, <1>3, <1>6, <1>7, <2>1
  <2> QED
    BY <1>1, <1>2, <1>3, <1>5, <1>7, <2>2, SaySkip DEF Kept
<1>8. CASE call.op \in {"read", "getc", "gets"}
  <2>1. /\ At' = At + Len(out')
    BY <1>1, <1>2, <1>3, <1>6, <1>8
  <2>2. /\ Len(out') <= call.n /\ out' = Numbers(At + lost, Len(out'))
        /\ call.op = "gets" => \A i \in 1..(Len(out') - 1) : out'[i] \notin Newlines
    <3>1. CASE call.op = "gets"
      BY <1>1, <1>2, <3>1 DEF InCall, Request
    <3>2. CASE call.op # "gets"
      <4>1. out' = <<>> /\ Len(out') = 0
        BY <1>1, <1>2, <3>2
      <4> QED
        BY <1>1, <1>8, <3>2, <4>1 DEF Request, Numbers
    <3> QED
      BY <3>1, <3>2
  <2> QED
    BY <1>1, <1>2, <1>3, <1>5, <1>8, <2>1, <2>2, SayDeliver DEF Kept
<1> QED
  BY <1>7, <1>8

(* bytes read go behind those that the call has given already *)
LEMMA CacheReads ==
  ASSUME Turn, call.op \in {"read", "getc", "gets"}, NEW k \in Nat, ReadBy(k, TRUE)
  PROVE  /\ out' = Numbers(At + lost, Len(out) + k) /\ Len(out') = Len(out) + k
         /\ out' \in Seq(Int) /\ At + lost \in Int
         /\ At = cpos - Len(out) /\ \A i \in 1..Len(out) : out'[i] = out[i]
<1>1. /\ InCall /\ cpos \in Nat /\ lost \in Nat
      /\ out \in Seq(Int) /\ Len(out) \in Nat /\ (call.op # "gets" => out = <<>>)
  BY CacheFacts
<1>2. At = cpos - Len(out) /\ At \in Int
  <2>1. At = cpos - (IF call.op = "gets" THEN Len(out)
                     ELSE IF call.op = "skip" \/ (call.op = "seek" /\ call.whence = "cur")
                          THEN call.n - rest ELSE 0) /\ At \in Int
    BY ToldCache
  <2> QED
    BY <1>1, <2>1
<1>3. out = Numbers(At + lost, Len(out))
  <2>1. CASE call.op = "gets"
    BY <1>1, <2>1 DEF InCall
  <2>2. CASE call.op # "gets"
    BY <1>1, <2>2 DEF Numbers
  <2> QED
    BY <2>1, <2>2
<1>4. out' = out \o Numbers(cpos + lost, k)
  BY DEF ReadBy
<1>5. cpos + lost = (At + lost) + Len(out) /\ At + lost \in Int
  BY <1>1, <1>2
<1> DEFINE f == At + lost
           i == Len(out)
<1>6. f \in Int /\ i \in Nat /\ cpos + lost = f + i /\ out = Numbers(f, i)
  BY <1>1, <1>3, <1>5
<1> HIDE DEF f, i
<1>7. out' = Numbers(f, i) \o Numbers(f + i, k)
  BY <1>4, <1>6
<1>8. i + k \in Nat
  BY <1>6
<1>9. /\ Numbers(f, i) \o Numbers(f + i, k) = Numbers(f, i + k)
      /\ Len(Numbers(f, i + k)) = i + k /\ Numbers(f, i + k) \in Seq(Int)
  BY <1>6, <1>8, NumbersJoin
<1>10. out' = Numbers(f, i + k) /\ Len(out') = i + k /\ out' \in Seq(Int)
  BY <1>7, <1>9
<1>11. \A j \in 1..i : out'[j] = out[j]
  <2>1. \A j \in 1..i : Numbers(f, i + k)[j] = Numbers(f, i)[j]
    BY <1>6, <1>8 DEF Numbers
  <2> QED
    BY <1>6, <1>10, <2>1
<1> QED
  BY <1>2, <1>5, <1>10, <1>11 DEF f, i

LEMMA CacheDelivers ==
  ASSUME Turn, readlimit' = readlimit, call' = NoCall, rest' = rest,
         call.op \in {"read", "getc", "gets"}, NEW k \in Nat, ReadBy(k, TRUE),
         NEW n \in Nat, k <= n, nread' = Counted(n), Len(out) + k <= call.n,
         readlimit # NoLimit => nread + n <= readlimit, call.op = "gets" => k <= 1
  PROVE  Kept
<1>1. /\ UrlTypes /\ LimitInv /\ InCall /\ kind' = "cache" /\ Record /\ call # NoCall
      /\ cpos \in Nat /\ rest \in Int /\ out \in Seq(Int) /\ Len(out) \in Nat
      /\ url_seek \in BOOLEAN /\ (call.op # "gets" => out = <<>>)
      /\ Owed = IF call.op = "gets" THEN Len(out) ELSE 0
  BY CacheFacts
<1>2. /\ out' = Numbers(At + lost, Len(out) + k) /\ Len(out') = Len(out) + k
      /\ out' \in Seq(Int) /\ At = cpos - Len(out) /\ \A i \in 1..Len(out) : out'[i] = out[i]
  BY CacheReads
<1>3. /\ cpos' = cpos + k /\ cpos' \in Nat /\ reader' \in Nat /\ reader' >= reader
      /\ url_seek' = url_seek /\ url_seek' \in BOOLEAN /\ memb_ok' \in BOOLEAN /\ Holds'
  BY <1>1 DEF ReadBy
<1>4. nread' \in Nat /\ rest' \in Int
  BY <1>1, CountedNat
<1>5. UrlTypes' /\ CacheInv' /\ Goes /\ At' = cpos'
  BY <1>2, <1>3, <1>4, CacheReturns
<1>6. LimitInv'
  <2>1. ~SeekingByReading
    BY DEF SeekingByReading
  <2>2. Len(out') <= Owed + n
    <3>1. Owed = Len(out)
      BY <1>1
    <3> QED
      BY <1>1, <1>2, <3>1
  <2> QED
    BY <1>1, <1>2, <1>4, <2>1, <2>2, LimitReturns
<1>7. StreamInv'
  BY <1>1, <1>5, <1>6, CacheKept
<1>8. /\ At' = At + Len(out') /\ Len(out') <= call.n
      /\ out' = Numbers(At + lost, Len(out'))
  <2>1. \A c, i, j \in Nat : c + j = (c - i) + (i + j)
    OBVIOUS
  <2>2. cpos + k = (cpos - Len(out)) + (Len(out) + k)
    BY <1>1, <2>1
  <2> QED
    BY <1>2, <1>3, <1>5, <2>2
<1>9. ASSUME call.op = "gets", NEW i \in 1..(Len(out') - 1)
      PROVE  out'[i] \notin Newlines
  <2>1. \A l, m \in Nat : m <= 1 /\ i \in 1..(l + m - 1) => i \in 1..l
    OBVIOUS
  <2>2. i \in 1..Len(out)
    BY <1>1, <1>2, <1>9, <2>1
  <2>3. out[i] \notin Newlines
    BY <1>1, <1>9, <2>2 DEF InCall
  <2> QED
    BY <1>2, <2>2, <2>3
<1>10. Says
  BY <1>1, <1>5, <1>8, <1>9, SayDeliver
<1> QED
  BY <1>7, <1>10 DEF Kept

LEMMA CacheUrlRead ==
  ASSUME Turn, readlimit' = readlimit, UrlRead
  PROVE  Kept
<1>1. /\ UrlTypes /\ Request(call) /\ call.n \in Int /\ out = <<>> /\ call.op = "read"
      /\ memb_ok \in BOOLEAN /\ url_seek \in BOOLEAN /\ cpos \in Nat /\ Holds /\ lost' = lost
      /\ rest' = rest /\ kind = "cache"
  <2>1. call.op = "read" /\ rest' = rest
    BY DEF UrlRead
  <2> QED
    BY <2>1, CacheFacts, LostSame DEF Turn
<1>2. CASE AtLimit
  <2>1. Nothing
    BY <1>2 DEF UrlRead
  <2> QED
    BY <1>1, <2>1, CacheNothing
<1>3. CASE ~AtLimit
  <2> DEFINE n == Allowed(call.n)
  <2>1. CacheRead(n, TRUE) /\ nread' = Counted(Len(out')) /\ call' = NoCall
    BY <1>1, <1>3 DEF UrlRead, Buffered, Return
  <2>2. n \in Nat /\ n <= call.n /\ (readlimit # NoLimit => nread + n <= readlimit)
    <3>1. call.n \in Nat
      BY <1>1 DEF Request
    <3> QED
      BY <1>1, <1>3, <3>1, AllowedFits
  <2> HIDE DEF n
  <2>3. PICK k \in Nat : k <= n /\ ReadBy(k, TRUE)
    <3>1. TRUE \in BOOLEAN
      OBVIOUS
    <3> QED
      BY <1>1, <2>1, <2>2, <3>1, CacheReadGives
  <2>4. Len(out') = k /\ Len(out) + k = k
    <3>1. Len(out') = Len(out) + k
      BY <1>1, <2>3, CacheReads
    <3>2. Len(out) = 0
      BY <1>1
    <3> QED
      BY <2>3, <3>1, <3>2
  <2>5. /\ k <= k /\ nread' = Counted(k) /\ Len(out) + k <= call.n
        /\ readlimit # NoLimit => nread + k <= readlimit
    BY <1>1, <2>1, <2>2, <2>3, <2>4, CacheFacts
  <2> QED
    BY <1>1, <2>1, <2>3, <2>5, CacheDelivers
<1> QED
  BY <1>2, <1>3

LEMMA CacheUrlGetc ==
  ASSUME Turn, readlimit' = readlimit, UrlGetc
  PROVE  Kept
<1>1. /\ UrlTypes /\ call.n = 1 /\ out = <<>> /\ call.op = "getc" /\ nread \in Nat
      /\ memb_ok \in BOOLEAN /\ url_seek \in BOOLEAN /\ cpos \in Nat /\ Holds /\ lost' = lost
      /\ rest' = rest /\ kind = "cache" /\ (readlimit # NoLimit => readlimit \in Nat)
  <2>1. call.op = "getc" /\ rest' = rest
    BY DEF UrlGetc
  <2>2. Request(call)
    BY CacheFacts
  <2> QED
    BY <2>1, <2>2, CacheFacts, LostSame DEF Turn, Request
<1>2. CASE AtLimit
  <2>1. Nothing
    BY <1>2 DEF UrlGetc
  <2> QED
    BY <1>1, <2>1, CacheNothing
<1>3. CASE ~AtLimit
  <2>1. CacheRead(1, TRUE) /\ nread' = Counted(1) /\ call' = NoCall
    BY <1>1, <1>3 DEF UrlGetc, Buffered, Return
  <2>2. PICK k \in Nat : k <= 1 /\ ReadBy(k, TRUE)
    <3>1. TRUE \in BOOLEAN /\ 1 \in Nat
      OBVIOUS
    <3> QED
      BY <1>1, <2>1, <3>1, CacheReadGives
  <2>3. /\ 1 \in Nat /\ Len(out) + k <= call.n
        /\ readlimit # NoLimit => nread + 1 <= readlimit
    BY <1>1, <1>3, <2>2 DEF AtLimit
  <2> QED
    BY <1>1, <2>1, <2>2, <2>3, CacheDelivers
<1> QED
  BY <1>2, <1>3

(* the same of a call that goes on *)
LEMMA CacheContinues ==
  ASSUME Turn, call.op \in {"gets", "skip", "seek"}, InCall', Holds', call' = call,
         call.op # "gets" => out' = <<>>,
         cpos' \in Nat, reader' \in Nat, reader' >= reader, nread' \in Nat, out' \in Seq(Int),
         rest' \in Int, url_seek' = url_seek, memb_ok' \in BOOLEAN, At' = cpos' \/ At' = At
  PROVE  /\ UrlTypes' /\ CacheInv' /\ Goes /\ far \in Nat /\ At \in Int /\ At <= far
<1>1. url_seek' \in BOOLEAN
  BY CacheFacts
<1> QED
  BY <1>1, CacheMoves

(* A request that goes on has been counted, ... *)
LEMMA LimitGoesOn ==
  ASSUME UrlTypes, LimitInv, Record, call # NoCall, call' = call, readlimit' = readlimit,
         kind' = kind, call.op \in {"gets", "skip"}, NEW n \in Nat, nread' = Counted(n),
         out' \in Seq(Int), call.op = "gets" => Len(out') <= Len(out) + n,
         readlimit # NoLimit => nread + n <= readlimit
  PROVE  LimitInv'
<1> SUFFICES ASSUME readlimit # NoLimit
             PROVE  counted' + Owed' <= nread' /\ nread' <= readlimit
  BY DEF LimitInv, NoLimit
<1>1. /\ nread \in Nat /\ counted \in Nat /\ readlimit \in Nat /\ out \in Seq(Int)
      /\ Len(out) \in Nat /\ Len(out') \in Nat
  BY DEF UrlTypes
<1>2. counted + Owed <= nread
  BY DEF LimitInv
<1>3. counted' = counted
  BY <1>1 DEF Record, NoLimit
<1>4. nread' = nread + n
  BY DEF Counted
<1>5. CASE call.op = "gets" /\ kind = "cache"
  <2>1. Owed = Len(out) /\ Owed' = Len(out')
    BY <1>5 DEF Owed
  <2>2. PICK i, j, c : i = Len(out') /\ j = nread' /\ c = counted'
    OBVIOUS
  <2>3. c + i <= j
    BY <1>1, <1>2, <1>3, <1>4, <1>5, <2>1, <2>2
  <2> QED
    BY <1>4, <2>1, <2>2, <2>3
<1>6. CASE ~(call.op = "gets" /\ kind = "cache")
  <2>1. Owed = 0 /\ Owed' = 0
    BY <1>6 DEF Owed
  <2>2. counted + 0 <= nread + n
    BY <1>1, <1>2, <2>1
  <2> QED
    BY <1>3, <1>4, <2>1, <2>2
<1> QED
  BY <1>5, <1>6

(* ... but a seek by reading, which clears the count when it ends *)
LEMMA LimitReading ==
  ASSUME UrlTypes, Record, call # NoCall, call' = call, readlimit' = readlimit,
         call.op = "seek", nread' \in Nat, kind' = "cache", ~url_seek', call.whence # "end",
         ToGo' > 0
  PROVE  LimitInv'
<1>1. counted' = 0
  BY DEF Record
<1>2. SeekingByReading'
  BY <1>1 DEF SeekingByReading, HasSeek
<1>3. Owed' = 0
  BY DEF Owed
<1>4. \A j \in Nat : 0 + 0 <= j
  OBVIOUS
<1> QED
  BY <1>1, <1>2, <1>3, <1>4 DEF LimitInv

LEMMA CacheUrlGets ==
  ASSUME Turn, readlimit' = readlimit, UrlGetsByByte
  PROVE  Kept
<1>1. /\ UrlTypes /\ LimitInv /\ InCall /\ kind' = "cache" /\ kind' = kind /\ Record
      /\ call # NoCall /\ call.n \in Int /\ call.op = "gets" /\ rest' = rest /\ rest \in Int
      /\ memb_ok \in BOOLEAN /\ url_seek \in BOOLEAN /\ cpos \in Nat /\ Holds /\ lost' = lost
      /\ kind = "cache" /\ nread \in Nat /\ (readlimit # NoLimit => readlimit \in Nat)
      /\ Len(out) \in Nat
  <2>1. call.op = "gets" /\ rest' = rest
    BY DEF UrlGetsByByte
  <2> QED
    BY <2>1, CacheFacts, LostSame DEF Turn
<1>2. CASE AtLimit \/ call.n <= 1
  <2>1. Nothing
    BY <1>2 DEF UrlGetsByByte
  <2> QED
    BY <1>1, <2>1, CacheNothing
<1>3. CASE ~(AtLimit \/ call.n <= 1)
  <2>1. /\ CacheRead(1, TRUE) /\ nread' = Counted(1)
        /\ IF out' = out \/ out'[Len(out')] \in Newlines \/ Len(out') = call.n - 1
           THEN call' = NoCall ELSE call' = call
    BY <1>3 DEF UrlGetsByByte, Return, Continue
  <2>2. 1 \in Nat /\ (readlimit # NoLimit => nread + 1 <= readlimit)
    BY <1>1, <1>3 DEF AtLimit
  <2>3. PICK k \in Nat : k <= 1 /\ ReadBy(k, TRUE)
    <3>1. TRUE \in BOOLEAN
      OBVIOUS
    <3> QED
      BY <1>1, <2>1, <2>2, <3>1, CacheReadGives
  <2>4. /\ out' = Numbers(At + lost, Len(out) + k) /\ Len(out') = Len(out) + k
        /\ out' \in Seq(Int) /\ At = cpos - Len(out) /\ \A i \in 1..Len(out) : out'[i] = out[i]
    BY <1>1, <2>3, CacheReads
  <2>5. Len(out) < call.n - 1 /\ \A i \in 1..Len(out) : out[i] \notin Newlines
    BY <1>1, <1>3 DEF InCall
  <2>6. CASE call' = NoCall
    <3>1. Len(out) + k <= call.n
      BY <1>1, <2>3, <2>5
    <3> QED
      BY <1>1, <2>1, <2>2, <2>3, <2>6, <3>1, CacheDelivers
  <2>7. CASE ~(out' = out \/ out'[Len(out')] \in Newlines \/ Len(out') = call.n - 1)
    <3>1. call' = call
      BY <2>1, <2>7
    <3>2. k = 1
      <4>1. k # 0
        <5> SUFFICES ASSUME k = 0 PROVE FALSE
          OBVIOUS
        <5>1. \A j \in Nat : j + 0 = j
          OBVIOUS
        <5>2. out' = Numbers(At + lost, Len(out))
          BY <1>1, <2>4, <5>1
        <5>3. out = Numbers(At + lost, Len(out))
          BY <1>1 DEF InCall
        <5> QED
          BY <2>7, <5>2, <5>3
      <4> QED
        BY <2>3, <4>1
    <3>3. /\ cpos' = cpos + 1 /\ cpos' \in Nat /\ reader' \in Nat /\ reader' >= reader
          /\ url_seek' = url_seek /\ memb_ok' \in BOOLEAN /\ Holds'
      BY <1>1, <2>3, <3>2 DEF ReadBy
    <3>4. Len(out') < call.n - 1 /\ Len(out') = Len(out) + 1
      BY <1>1, <2>4, <2>5, <2>7, <3>2
    <3>5. At' = At
      <4>1. At' = cpos' - Len(out')
        <5>1. rest' \in Int
          BY <1>1
        <5> QED
          BY <1>1, <2>4, <3>1, <3>3, <5>1, ToldCacheAfter
      <4>2. \A c, i \in Nat : (c + 1) - (i + 1) = c - i
        OBVIOUS
      <4>3. (cpos + 1) - (Len(out) + 1) = cpos - Len(out)
        BY <1>1, <4>2
      <4> QED
        BY <2>4, <3>3, <3>4, <4>1, <4>3
    <3>6. InCall'
      <4>1. \A i \in 1..Len(out') : out'[i] \notin Newlines
        <5> SUFFICES ASSUME NEW i \in 1..Len(out') PROVE out'[i] \notin Newlines
          OBVIOUS
        <5>1. \A l \in Nat : i \in 1..(l + 1) => i \in 1..l \/ i = l + 1
          OBVIOUS
        <5>2. i \in 1..Len(out) \/ i = Len(out')
          BY <1>1, <3>4, <5>1
        <5> QED
          BY <2>4, <2>5, <2>7, <5>2
      <4>2. out' = Numbers(At' + lost', Len(out'))
        BY <1>1, <2>4, <3>5
      <4> QED
        BY <1>1, <3>1, <3>4, <4>1, <4>2 DEF InCall
    <3>7. nread' \in Nat /\ rest' \in Int
      BY <1>1, <2>1, <2>2, CountedNat
    <3>8. UrlTypes' /\ CacheInv' /\ Goes /\ far \in Nat /\ At \in Int /\ At <= far
      BY <1>1, <2>4, <3>1, <3>3, <3>5, <3>6, <3>7, CacheContinues
    <3>9. LimitInv'
      <4>1. Len(out') <= Len(out) + 1
        BY <1>1, <3>4
      <4> QED
        BY <1>1, <2>1, <2>2, <2>4, <3>1, <4>1, LimitGoesOn
    <3>10. StreamInv'
      BY <1>1, <3>8, <3>9, CacheKept
    <3>11. far' = far
      BY <3>5, <3>8, StaysPut
    <3>12. Says
      BY <1>1, <3>1, <3>5, <3>8, <3>11, SayNothing DEF Goes
    <3> QED
      BY <3>10, <3>12 DEF Kept
  <2> QED
    BY <2>1, <2>6, <2>7
<1> QED
  BY <1>2, <1>3

(* what a round of the reading loops does *)
LEMMA ReadOnGives ==
  ASSUME Turn, call.op \in {"seek", "skip"}, NEW n \in Int, NEW ask \in Nat, ask <= n,
         ReadOn(n, ask), rest \in Int
  PROVE  \E k \in Nat :
           /\ k <= ask /\ cpos' = cpos + k /\ cpos' \in Nat /\ out' = <<>>
           /\ k = 0 /\ ask > 0 => cpos >= reader - lost
           /\ reader' \in Nat /\ reader' >= reader /\ url_seek' = url_seek
           /\ memb_ok' \in BOOLEAN /\ Holds' /\ rest' = rest - k /\ rest' \in Int
           /\ IF k = 0 \/ k = n THEN call' = NoCall ELSE call' = call
<1>1. /\ UrlTypes /\ memb_ok \in BOOLEAN /\ url_seek \in BOOLEAN /\ cpos \in Nat /\ Holds
      /\ lost' = lost /\ out = <<>>
  BY CacheFacts, LostSame
<1>2. /\ CacheRead(ask, FALSE) /\ rest' = rest - (cpos' - cpos)
      /\ IF cpos' = cpos \/ n = cpos' - cpos THEN call' = NoCall ELSE call' = call
  BY DEF ReadOn, Return, Continue
<1>3. PICK k \in Nat : k <= ask /\ ReadBy(k, FALSE) /\ (k = 0 /\ ask > 0 => cpos >= reader - lost)
  <2>1. FALSE \in BOOLEAN
    OBVIOUS
  <2> QED
    BY <1>1, <1>2, <2>1, CacheReadGives
<1>4. /\ cpos' = cpos + k /\ out' = <<>> /\ reader' \in Nat /\ reader' >= reader
      /\ url_seek' = url_seek /\ memb_ok' \in BOOLEAN /\ Holds'
  BY <1>1, <1>3 DEF ReadBy
<1>5. \A c \in Nat : (c + k) - c = k /\ (c + k = c <=> k = 0)
  BY <1>3
<1>6. /\ rest' = rest - k /\ (cpos' = cpos <=> k = 0) /\ cpos' - cpos = k
  BY <1>1, <1>2, <1>4, <1>5
<1>7. cpos' \in Nat /\ rest' \in Int
  BY <1>1, <1>3, <1>4, <1>6
<1>8. IF k = 0 \/ k = n THEN call' = NoCall ELSE call' = call
  BY <1>2, <1>6
<1> QED
  BY <1>3, <1>4, <1>6, <1>7, <1>8

LEMMA CacheSkipReads ==
  ASSUME Turn, readlimit' = readlimit, UrlSkipByReading
  PROVE  Kept
<1>1. /\ UrlTypes /\ LimitInv /\ InCall /\ kind' = "cache" /\ kind' = kind /\ Record
      /\ call # NoCall /\ call.n \in Int /\ call.op = "skip" /\ ~url_seek
      /\ cpos \in Nat /\ rest \in Int /\ BUFSIZ \in Nat \ {0} /\ reader \in Nat /\ lost \in Nat
  <2>1. call.op = "skip" /\ ~HasSeek
    BY DEF UrlSkipByReading
  <2> QED
    BY <2>1, CacheFacts, UrlAssumption DEF Turn, HasSeek
<1>2. 0 <= rest /\ rest <= call.n
  BY <1>1 DEF InCall
<1>3. CASE AtLimit
  <2>1. Nothing /\ rest' = rest
    BY <1>3 DEF UrlSkipByReading
  <2> QED
    BY <1>1, <2>1, CacheNothing
<1>4. CASE ~AtLimit
  <2> DEFINE ask == Allowed(Least(rest, BUFSIZ))
  <2>1. ReadOn(rest, ask) /\ nread' = Counted(cpos' - cpos)
    BY <1>4 DEF UrlSkipByReading
  <2>2. ask \in Nat /\ ask <= rest /\ (readlimit # NoLimit => nread + ask <= readlimit)
    <3>1. Least(rest, BUFSIZ) \in Nat /\ Least(rest, BUFSIZ) <= rest
      BY <1>1, <1>2 DEF Least
    <3>2. /\ ask \in Nat /\ ask <= Least(rest, BUFSIZ)
          /\ readlimit # NoLimit => nread + ask <= readlimit
      BY <1>1, <1>4, <3>1, AllowedFits
    <3> HIDE DEF ask
    <3> QED
      BY <1>1, <3>1, <3>2
  <2> HIDE DEF ask
  <2>3. PICK k \in Nat :
           /\ k <= ask /\ cpos' = cpos + k /\ cpos' \in Nat /\ out' = <<>>
           /\ reader' \in Nat /\ reader' >= reader /\ url_seek' = url_seek
           /\ memb_ok' \in BOOLEAN /\ Holds' /\ rest' = rest - k /\ rest' \in Int
           /\ IF k = 0 \/ k = rest THEN call' = NoCall ELSE call' = call
    BY <1>1, <2>1, <2>2, ReadOnGives
  <2>4. /\ nread' = Counted(k) /\ nread' \in Nat /\ out' \in Seq(Int) /\ Len(out') = 0
        /\ readlimit # NoLimit => nread + k <= readlimit
    <3>1. \A c \in Nat : (c + k) - c = k
      OBVIOUS
    <3>2. cpos' - cpos = k
      BY <1>1, <2>3, <3>1
    <3>3. nread \in Nat /\ (readlimit # NoLimit => readlimit \in Nat)
      BY CacheFacts
    <3>4. readlimit # NoLimit => nread + k <= readlimit
      BY <2>2, <2>3, <3>3
    <3>5. Counted(k) \in Nat
      BY <1>1, CountedNat
    <3> QED
      BY <2>1, <2>3, <3>2, <3>4, <3>5
  <2>5. k \in Nat /\ k <= rest
    BY <1>1, <2>2, <2>3
  <2>6. At = cpos - (call.n - rest)
    BY <1>1, ToldCache
  <2>7. CASE call' = NoCall
    <3>1. UrlTypes' /\ CacheInv' /\ Goes /\ At' = cpos' /\ At \in Int
      <4>1. url_seek' \in BOOLEAN /\ call.op # "reopen"
        BY <1>1, <2>3, CacheFacts
      <4> QED
        BY <1>1, <2>3, <2>4, <2>7, <4>1, CacheReturns
    <3>2. LimitInv'
      <4>1. ~SeekingByReading /\ Len(out') <= Owed + k
        BY <1>1, <2>4, CacheFacts DEF SeekingByReading
      <4> QED
        BY <1>1, <2>4, <2>7, <4>1, LimitReturns
    <3>3. StreamInv'
      BY <1>1, <3>1, <3>2, CacheKept
    <3>4. At' \in At..(At + call.n)
      <4>1. cpos + k \in At..(At + call.n)
        BY <1>1, <1>2, <2>5, <2>6
      <4> QED
        BY <2>3, <3>1, <4>1
    <3> QED
      BY <1>1, <2>3, <2>7, <3>1, <3>3, <3>4, SaySkip DEF Kept
  <2>8. CASE k # 0 /\ k # rest
    <3>1. call' = call
      BY <2>3, <2>8
    <3>2. InCall'
      <4>1. 0 <= rest' /\ rest' <= call.n
        BY <1>1, <1>2, <2>3, <2>5
      <4> QED
        BY <1>1, <2>3, <3>1, <4>1 DEF InCall
    <3>3. At' = At
      <4>1. At' = cpos' - (call.n - rest')
        BY <1>1, <2>3, <2>4, <3>1, ToldCacheAfter
      <4>2. (cpos + k) - (call.n - (rest - k)) = cpos - (call.n - rest)
        BY <1>1, <2>5
      <4> QED
        BY <2>3, <2>6, <4>1, <4>2
    <3>4. UrlTypes' /\ CacheInv' /\ Goes /\ far \in Nat /\ At \in Int /\ At <= far
      BY <1>1, <2>3, <2>4, <3>1, <3>2, <3>3, CacheContinues
    <3>5. LimitInv'
      BY <1>1, <2>4, <3>1, LimitGoesOn
    <3>6. StreamInv'
      BY <1>1, <3>4, <3>5, CacheKept
    <3>7. far' = far
      BY <3>3, <3>4, StaysPut
    <3>8. Says
      BY <1>1, <3>1, <3>3, <3>4, <3>7, SayNothing DEF Goes
    <3> QED
      BY <3>6, <3>8 DEF Kept
  <2> QED
    BY <2>3, <2>7, <2>8
<1> QED
  BY <1>3, <1>4

LEMMA CacheSeekNothing ==
  ASSUME Turn, readlimit' = readlimit, call.op = "seek", ~url_seek, Nothing, rest' = rest,
         call.whence # "end" => ToGo <= 0
  PROVE  Kept
<1>1. /\ UrlTypes /\ LimitInv /\ InCall /\ kind' = "cache" /\ kind = "cache" /\ Record
      /\ call # NoCall /\ call.n \in Int /\ cpos \in Nat /\ rest \in Int /\ nread \in Nat
      /\ out = <<>> /\ Request(call)
  BY CacheFacts DEF Turn
<1>2. /\ call' = NoCall /\ UNCHANGED cache_vars /\ reader' = reader /\ out' = <<>>
      /\ out' = out /\ nread' = nread
  BY <1>1 DEF Nothing, Return
<1>3. /\ UrlTypes' /\ CacheInv' /\ Goes /\ At' = cpos /\ At \in Int
  BY <1>1, <1>2, CacheStays
<1>4. LimitInv'
  <2>1. ToGo \in Int
    BY <1>1 DEF ToGo
  <2>2. ~SeekingByReading
    BY <1>1, <2>1 DEF SeekingByReading
  <2>3. out' \in Seq(Int)
    BY <1>2
  <2> QED
    BY <1>1, <1>2, <2>2, <2>3, LimitReturns
<1>5. StreamInv'
  BY <1>1, <1>3, <1>4, CacheKept
<1>6. Mode = "forward"
  BY <1>1 DEF Mode
<1>7. At = cpos - (IF call.op = "seek" /\ call.whence = "cur" THEN call.n - rest ELSE 0)
  BY <1>1, ToldCache
<1>8. CASE call.whence = "end"
  <2>1. At' = At
    BY <1>1, <1>3, <1>7, <1>8
  <2> QED
    BY <1>1, <1>2, <1>3, <1>5, <1>6, <1>8, <2>1, SaySeekEnd DEF Kept
<1>9. CASE call.whence # "end"
  <2> DEFINE to == IF call.whence = "set" THEN call.n ELSE At + call.n
  <2>1. At' = At /\ to <= At /\ to \in Int
    <3>1. CASE call.whence = "set"
      BY <1>1, <1>3, <1>7, <1>9, <3>1 DEF ToGo
    <3>2. CASE call.whence = "cur"
      <4>1. rest <= 0 /\ rest = call.n
        BY <1>1, <1>9, <3>2 DEF ToGo, InCall
      <4>2. At = cpos
        BY <1>1, <1>7, <3>2, <4>1
      <4>3. to = cpos + call.n
        BY <3>2, <4>2
      <4>4. cpos + call.n <= cpos /\ cpos + call.n \in Int
        BY <1>1, <4>1
      <4> QED
        BY <1>3, <4>2, <4>3, <4>4
    <3> QED
      BY <1>1, <1>9, <3>1, <3>2 DEF Request
  <2>2. Arriving(to)
    BY <1>3, <1>6, <2>1 DEF Arriving
  <2>3. to = LET t == IF call.whence = "set" THEN call.n ELSE At + call.n
             IN  IF Mode = "kept" THEN Max({t, 0}) ELSE t
    BY <1>6
  <2> HIDE DEF to
  <2>4. Says
    BY <1>1, <1>2, <1>3, <1>9, <2>2, <2>3, SaySeek
  <2> QED
    BY <1>5, <2>4 DEF Kept
<1> QED
  BY <1>8, <1>9

LEMMA CacheSeekReads ==
  ASSUME Turn, readlimit' = readlimit, UrlSeekByReading
  PROVE  Kept
<1>1. /\ UrlTypes /\ LimitInv /\ InCall /\ kind' = "cache" /\ kind = "cache" /\ Record
      /\ call # NoCall /\ call.n \in Int /\ call.op = "seek" /\ ~url_seek /\ Request(call)
      /\ cpos \in Nat /\ rest \in Int /\ BUFSIZ \in Nat \ {0} /\ reader \in Nat /\ lost \in Nat
      /\ far \in Nat /\ far <= reader - lost /\ call.whence # "end"
  <2>1. call.op = "seek" /\ ~HasSeek /\ call.whence # "end"
    BY DEF UrlSeekByReading
  <2> QED
    BY <2>1, CacheFacts, UrlAssumption DEF Turn, HasSeek
<1> DEFINE n == IF call.whence = "set" THEN call.n - url_tell ELSE rest
<1>2. n = ToGo /\ n \in Int /\ call.whence \in {"set", "cur"}
      /\ n = IF call.whence = "set" THEN call.n - cpos ELSE rest
  BY <1>1 DEF ToGo, url_tell, Request
<1>3. CASE n <= 0
  <2>1. Nothing /\ rest' = rest
    BY <1>3 DEF UrlSeekByReading
  <2> QED
    BY <1>1, <1>2, <1>3, <2>1, CacheSeekNothing
<1>4. CASE ~(n <= 0)
  <2> DEFINE ask == Least(n, BUFSIZ)
  <2>1. /\ ReadOn(n, ask)
        /\ nread' = IF call' = NoCall THEN 0 ELSE Counted(cpos' - cpos)
    BY <1>4 DEF UrlSeekByReading
  <2> HIDE DEF n
  <2>2. ask \in Nat /\ ask <= n /\ ask > 0
    BY <1>1, <1>2, <1>4 DEF Least
  <2> HIDE DEF ask
  <2>3. PICK k \in Nat :
           /\ k <= ask /\ cpos' = cpos + k /\ cpos' \in Nat /\ out' = <<>>
           /\ k = 0 /\ ask > 0 => cpos >= reader - lost
           /\ reader' \in Nat /\ reader' >= reader /\ url_seek' = url_seek
           /\ memb_ok' \in BOOLEAN /\ Holds' /\ rest' = rest - k /\ rest' \in Int
           /\ IF k = 0 \/ k = n THEN call' = NoCall ELSE call' = call
    BY <1>1, <1>2, <2>1, <2>2, ReadOnGives
  <2>4. /\ nread' = (IF call' = NoCall THEN 0 ELSE Counted(k)) /\ nread' \in Nat
        /\ out' \in Seq(Int)
    <3>1. \A c \in Nat : (c + k) - c = k
      OBVIOUS
    <3>2. cpos' - cpos = k
      BY <1>1, <2>3, <3>1
    <3>3. Counted(k) \in Nat
      BY <1>1, CountedNat
    <3> QED
      BY <2>1, <2>3, <3>2, <3>3
  <2>5. k \in Nat /\ k <= n /\ (k = 0 => cpos >= far)
    <3>1. k = 0 => cpos >= reader - lost
      BY <2>2, <2>3
    <3> QED
      BY <1>1, <1>2, <2>2, <2>3, <3>1
  <2>6. /\ At = cpos - (IF call.whence = "cur" THEN call.n - rest ELSE 0)
        /\ At \in Int /\ At <= far
    BY <1>1, ToldCache
  <2>7. Mode = "forward"
    BY <1>1 DEF Mode
  <2> DEFINE to == IF call.whence = "set" THEN call.n ELSE At + call.n
  <2>8. to = cpos + n
    <3>1. CASE call.whence = "set"
      BY <1>1, <1>2, <3>1
    <3>2. CASE call.whence = "cur"
      BY <1>1, <1>2, <2>6, <3>2
    <3> QED
      BY <1>2, <3>1, <3>2
  <2>9. CASE call' = NoCall
    <3>1. UrlTypes' /\ CacheInv' /\ Goes /\ At' = cpos'
      <4>1. url_seek' \in BOOLEAN /\ call.op # "reopen"
        BY <1>1, <2>3, CacheFacts
      <4> QED
        BY <1>1, <2>3, <2>4, <2>9, <4>1, CacheReturns
    <3>2. LimitInv'
      <4>1. nread' = 0
        BY <2>4, <2>9
      <4> QED
        BY <1>1, <2>4, <2>9, <4>1, LimitReturns
    <3>3. StreamInv'
      BY <1>1, <3>1, <3>2, CacheKept
    <3>4. Arriving(to)
      <4>1. k = 0 \/ k = n
        BY <1>1, <2>3, <2>9, Asked
      <4>2. CASE k = n
        BY <2>3, <2>8, <3>1, <4>2 DEF Arriving
      <4>3. CASE k = 0
        <5>1. At' = cpos
          BY <1>1, <2>3, <3>1, <4>3
        <5>2. to > far /\ cpos \in far..to
          BY <1>1, <1>2, <1>4, <2>5, <2>8, <4>3
        <5> QED
          BY <5>1, <5>2 DEF Arriving
      <4> QED
        BY <4>1, <4>2, <4>3
    <3>5. to = LET t == IF call.whence = "set" THEN call.n ELSE At + call.n
               IN  IF Mode = "kept" THEN Max({t, 0}) ELSE t
      BY <2>7
    <3> HIDE DEF to
    <3>6. Says
      BY <1>1, <2>3, <2>9, <3>1, <3>4, <3>5, SaySeek
    <3> QED
      BY <3>3, <3>6 DEF Kept
  <2>10. CASE k # 0 /\ k # n
    <3>1. call' = call
      BY <2>3, <2>10
    <3>2. k < n /\ k > 0
      BY <1>2, <2>5, <2>10
    <3>3. call.whence = "cur" => rest' > 0
      BY <1>1, <1>2, <2>3, <3>2
    <3>4. InCall'
      BY <1>1, <2>3, <3>1, <3>3 DEF InCall
    <3>5. /\ call.whence = "cur" => At' = At
          /\ call.whence = "set" => At' = cpos' /\ cpos' >= At
      <4>1. At' = cpos' - (IF call.whence = "cur" THEN call.n - rest' ELSE 0)
        BY <1>1, <2>3, <2>4, <3>1, ToldCacheAfter
      <4>2. (cpos + k) - (call.n - (rest - k)) = cpos - (call.n - rest)
        BY <1>1, <2>5
      <4>3. cpos + k >= cpos - 0 /\ (cpos + k) - 0 = cpos + k
        BY <1>1, <2>5
      <4> QED
        BY <2>3, <2>6, <4>1, <4>2, <4>3
    <3>6. UrlTypes' /\ CacheInv' /\ Goes
      BY <1>1, <1>2, <2>3, <2>4, <3>1, <3>4, <3>5, CacheContinues
    <3>7. LimitInv'
      <4>1. ToGo' > 0
        <5>1. CASE call.whence = "cur"
          BY <3>1, <3>3, <5>1 DEF ToGo
        <5>2. CASE call.whence = "set"
          <6>1. call.n - (cpos + k) > 0
            BY <1>1, <1>2, <2>5, <3>2, <5>2
          <6> QED
            BY <2>3, <3>1, <5>2, <6>1 DEF ToGo
        <5> QED
          BY <1>2, <5>1, <5>2
      <4> QED
        BY <1>1, <2>3, <2>4, <3>1, <4>1, LimitReading
    <3>8. StreamInv'
      BY <1>1, <3>6, <3>7, CacheKept
    <3>9. CASE call.whence = "cur"
      <4>1. far' = far
        BY <1>1, <2>6, <3>5, <3>6, <3>9, StaysPut
      <4> QED
        BY <1>1, <3>1, <3>5, <3>6, <3>8, <3>9, <4>1, SayNothing DEF Goes, Kept
    <3>10. CASE call.whence = "set"
      <4>1. At' >= At
        BY <3>5, <3>10
      <4> QED
        BY <1>1, <2>7, <3>1, <3>6, <3>8, <3>10, <4>1, SayPass DEF Kept
    <3> QED
      BY <1>2, <3>9, <3>10
  <2> QED
    BY <2>3, <2>9, <2>10
<1> QED
  BY <1>3, <1>4

(* the seek of a cached stream, wherever it is called from *)
LEMMA CacheNear ==
  ASSUME Turn, url_seek, call.op # "reopen", call' = NoCall, NEW offset \in Int, NEW whence,
         CacheSeekNear(offset, whence), rest' = rest, nread' \in Nat, out = <<>>,
         NEW to, to = Max({0, IF whence = "set" THEN offset ELSE cpos + offset})
  PROVE  /\ UrlTypes' /\ CacheInv' /\ Goes /\ At' = cpos' /\ out' = <<>> /\ to \in Nat
         /\ cpos' \in Nat /\ cpos' <= to /\ Mode = "kept"
         /\ cpos' # to => cpos' >= far /\ cpos' >= cpos
<1>1. /\ UrlTypes /\ cpos \in Nat /\ reader \in Nat /\ lost \in Nat /\ far \in Nat /\ rest \in Int
      /\ Holds /\ memb_ok = TRUE /\ url_seek = TRUE /\ kind = "cache"
      /\ cpos <= reader - lost /\ far <= reader - lost /\ lost' = lost
  BY CacheFacts, LostSame DEF Turn
<1>2. SeekTo(to) /\ memb_ok' = TRUE /\ url_seek' = TRUE /\ out' = <<>>
  BY <1>1 DEF CacheSeekNear
<1>3. to \in Nat
  <2> DEFINE t == IF whence = "set" THEN offset ELSE cpos + offset
  <2>1. t \in Int /\ to = Max({0, t})
    BY <1>1
  <2> HIDE DEF t
  <2>2. Max({0, t}) = IF 0 < t THEN t ELSE 0
    BY <2>1, LargerOf
  <2> QED
    BY <2>1, <2>2
<1>4. SoughtTo(to)
  BY <1>1, <1>2, <1>3, SeekToGives
<1>5. /\ Holds' /\ cpos' \in Nat /\ reader' \in Nat /\ reader' >= reader
      /\ cpos' = to \/ (cpos' < to /\ cpos' = reader' - lost)
  BY <1>1, <1>4 DEF SoughtTo
<1>6. /\ cpos' <= to
      /\ cpos' # to => cpos' >= far /\ cpos' >= cpos
  <2>1. PICK c, d : c = cpos' /\ d = reader'
    OBVIOUS
  <2>2. c \in Nat /\ d \in Nat /\ d >= reader /\ (c = to \/ (c < to /\ c = d - lost))
    BY <1>5, <2>1
  <2>3. c <= to /\ (c # to => c >= far /\ c >= cpos)
    BY ONLY <1>1, <1>3, <2>2
  <2> QED
    BY <2>1, <2>3
<1>7. UrlTypes' /\ CacheInv' /\ Goes /\ At' = cpos'
  <2>1. out' \in Seq(Int) /\ rest' \in Int /\ url_seek' \in BOOLEAN /\ memb_ok' \in BOOLEAN
        /\ url_seek' = url_seek
    BY <1>1, <1>2
  <2> QED
    BY <1>5, <2>1, CacheReturns
<1>8. Mode = "kept"
  BY <1>1 DEF Mode
<1> QED
  BY <1>2, <1>3, <1>5, <1>6, <1>7, <1>8

LEMMA CacheUrlSeek ==
  ASSUME Turn, readlimit' = readlimit, UrlSeek
  PROVE  Kept
<1>1. /\ UrlTypes /\ LimitInv /\ InCall /\ kind' = "cache" /\ kind = "cache" /\ Record
      /\ call # NoCall /\ call.n \in Int /\ call.op = "seek" /\ url_seek = TRUE /\ memb_ok = TRUE
      /\ cpos \in Nat /\ rest \in Int /\ rest' = rest /\ out = <<>> /\ reader \in Nat
      /\ lost \in Nat /\ far \in Nat /\ far <= reader - lost /\ Holds /\ lost' = lost
      /\ nread' = 0 /\ call' = NoCall /\ Request(call)
      /\ CacheSeekNear(call.n, call.whence) \/ (call.whence = "end" /\ CacheSeekEnd)
  <2>1. /\ call.op = "seek" /\ HasSeek /\ nread' = 0 /\ rest' = rest /\ kind = "cache"
        /\ Return
        /\ CacheSeekNear(call.n, call.whence) \/ (call.whence = "end" /\ CacheSeekEnd)
    BY DEF UrlSeek, Turn, Buffered
  <2>2. url_seek = TRUE /\ memb_ok = TRUE
    BY <2>1, CacheFacts DEF HasSeek
  <2>3. lost' = lost
    BY <2>1, LostSame
  <2>4. /\ UrlTypes /\ LimitInv /\ InCall /\ kind' = "cache" /\ Record
        /\ call # NoCall /\ call.n \in Int /\ cpos \in Nat /\ rest \in Int /\ reader \in Nat
        /\ lost \in Nat /\ far \in Nat /\ far <= reader - lost /\ Holds /\ Request(call)
    BY CacheFacts
  <2>5. out = <<>>
    BY <2>1, CacheFacts
  <2>6. call' = NoCall
    BY <2>1 DEF Return
  <2> QED
    BY <2>1, <2>2, <2>3, <2>4, <2>5, <2>6
<1>2. Mode = "kept"
  BY <1>1 DEF Mode
<1>3. At = cpos
  <2>1. At = cpos - (IF call.op = "seek" /\ call.whence = "cur" THEN call.n - rest ELSE 0)
    BY <1>1, ToldCache
  <2>2. call.whence = "cur" => rest = call.n
    BY <1>1 DEF InCall
  <2> QED
    BY <1>1, <2>1, <2>2
<1>4. ASSUME UrlTypes', CacheInv', out' = <<>> PROVE StreamInv'
  <2>1. LimitInv'
    <3>1. nread' \in Nat /\ out' \in Seq(Int)
      BY <1>1, <1>4
    <3> QED
      BY <1>1, <3>1, LimitReturns
  <2> QED
    BY <1>1, <1>4, <2>1, CacheKept
<1>5. CASE CacheSeekNear(call.n, call.whence)
  <2> DEFINE t == IF call.whence = "set" THEN call.n ELSE cpos + call.n
             to == Max({0, t})
  <2>1. /\ UrlTypes' /\ CacheInv' /\ Goes /\ At' = cpos' /\ out' = <<>> /\ to \in Nat
        /\ cpos' \in Nat /\ cpos' <= to
        /\ cpos' # to => cpos' >= far /\ cpos' >= cpos
    <3>1. nread' \in Nat /\ call.op # "reopen" /\ url_seek
      BY <1>1
    <3>2. to = Max({0, IF call.whence = "set" THEN call.n ELSE cpos + call.n})
      OBVIOUS
    <3> HIDE DEF to, t
    <3> QED
      BY <1>1, <1>5, <3>1, <3>2, CacheNear
  <2>2. to = Max({t, 0})
    <3>1. {0, t} = {t, 0}
      OBVIOUS
    <3> QED
      BY <3>1
  <2>3. call.whence # "end"
    BY <1>5 DEF CacheSeekNear
  <2>4. to = LET s == IF call.whence = "set" THEN call.n ELSE At + call.n
             IN  IF Mode = "kept" THEN Max({s, 0}) ELSE s
    BY <1>2, <1>3, <2>2
  <2> HIDE DEF to
  <2>5. Arriving(to)
    <3>1. cpos' = to \/ (to > far /\ cpos' \in far..to)
      BY <1>1, <2>1
    <3> QED
      BY <2>1, <3>1 DEF Arriving
  <2> QED
    BY <1>1, <1>4, <2>1, <2>3, <2>4, <2>5, SaySeek DEF Kept
<1>6. CASE call.whence = "end" /\ CacheSeekEnd
  <2>1. /\ Holds' /\ cpos' \in Nat /\ reader' \in Nat /\ reader' >= reader
        /\ cpos' = reader' - lost
    BY <1>1, <1>6, SeekEndGives
  <2>2. url_seek' = url_seek /\ url_seek' \in BOOLEAN /\ memb_ok' \in BOOLEAN /\ out' = <<>>
        /\ out' \in Seq(Int) /\ rest' \in Int /\ nread' \in Nat /\ call.op # "reopen"
    BY <1>1, <1>6 DEF CacheSeekEnd
  <2>3. UrlTypes' /\ CacheInv' /\ Goes /\ At' = cpos'
    BY <1>1, <2>1, <2>2, CacheReturns
  <2>4. At' >= far
    <3>1. PICK d : d = reader'
      OBVIOUS
    <3>2. d \in Nat /\ d >= reader /\ At' = d - lost
      BY <2>1, <2>3, <3>1
    <3>3. d - lost >= far
      BY ONLY <1>1, <3>2
    <3> QED
      BY <3>2, <3>3
  <2> QED
    BY <1>1, <1>2, <1>4, <1>6, <2>2, <2>3, <2>4, SaySeekEnd DEF Kept
<1> QED
  BY <1>1, <1>5, <1>6

LEMMA CacheSkipSeeks ==
  ASSUME Turn, readlimit' = readlimit, UrlSkipBySeek
  PROVE  Kept
<1>1. /\ UrlTypes /\ LimitInv /\ InCall /\ kind' = "cache" /\ kind = "cache" /\ Record
      /\ call # NoCall /\ call.n \in Nat /\ call.op = "skip" /\ url_seek = TRUE
      /\ cpos \in Nat /\ rest \in Int /\ rest' = rest /\ out = <<>> /\ far \in Nat
      /\ Owed = 0
  <2>1. /\ call.op = "skip" /\ HasSeek /\ rest' = rest /\ kind = "cache"
    BY DEF UrlSkipBySeek, Turn
  <2> QED
    BY <2>1, CacheFacts DEF HasSeek, Request
<1>2. At = cpos
  <2>1. At = cpos - (call.n - rest)
    BY <1>1, ToldCache
  <2>2. rest = call.n
    BY <1>1 DEF InCall
  <2> QED
    BY <1>1, <2>1, <2>2
<1>3. CASE AtLimit
  <2>1. Nothing
    BY <1>3 DEF UrlSkipBySeek
  <2> QED
    BY <1>1, <2>1, CacheNothing
<1>4. CASE ~AtLimit
  <2> DEFINE n == Allowed(call.n)
  <2>1. CacheSeekNear(n, "cur") /\ call' = NoCall /\ nread' = Counted(n)
    BY <1>1, <1>4 DEF UrlSkipBySeek, Buffered, Return
  <2>2. n \in Nat /\ n <= call.n /\ (readlimit # NoLimit => nread + n <= readlimit)
    BY <1>1, <1>4, AllowedFits
  <2> HIDE DEF n
  <2>3. n \in Int /\ nread' \in Nat
    BY <1>1, <2>1, <2>2, CountedNat
  <2> DEFINE to == Max({0, IF "cur" = "set" THEN n ELSE cpos + n})
  <2>4. to = cpos + n
    <3>1. cpos + n \in Int /\ 0 \in Int /\ cpos + n >= 0
      BY <1>1, <2>2
    <3>2. to = Max({0, cpos + n})
      OBVIOUS
    <3>3. Max({0, cpos + n}) = IF 0 < cpos + n THEN cpos + n ELSE 0
      BY <3>1, LargerOf
    <3> QED
      BY <3>1, <3>2, <3>3
  <2>5. /\ UrlTypes' /\ CacheInv' /\ Goes /\ At' = cpos' /\ out' = <<>> /\ to \in Nat
        /\ cpos' \in Nat /\ cpos' <= to
        /\ cpos' # to => cpos' >= far /\ cpos' >= cpos
    <3>1. call.op # "reopen" /\ url_seek
      BY <1>1
    <3>2. to = Max({0, IF "cur" = "set" THEN n ELSE cpos + n})
      OBVIOUS
    <3> HIDE DEF to
    <3> QED
      BY <1>1, <2>1, <2>3, <3>1, <3>2, CacheNear
  <2> HIDE DEF to
  <2>6. LimitInv'
    <3>1. out' \in Seq(Int) /\ Len(out') <= Owed + n
      BY <1>1, <2>2, <2>5
    <3>2. ~SeekingByReading
      BY <1>1 DEF SeekingByReading
    <3> QED
      BY <1>1, <2>1, <2>2, <2>3, <3>1, <3>2, LimitReturns
  <2>7. StreamInv'
    BY <1>1, <2>5, <2>6, CacheKept
  <2>8. At' \in At..(At + call.n)
    <3>1. cpos' \in cpos..(cpos + call.n)
      BY <1>1, <2>2, <2>4, <2>5
    <3> QED
      BY <1>2, <2>5, <3>1
  <2> QED
    BY <1>1, <2>1, <2>5, <2>7, <2>8, SaySkip DEF Kept
<1> QED
  BY <1>3, <1>4

LEMMA CacheUrlRewind ==
  ASSUME Turn, readlimit' = readlimit, UrlRewind
  PROVE  Kept
<1>1. /\ UrlTypes /\ LimitInv /\ kind' = "cache" /\ kind = "cache" /\ Record
      /\ call # NoCall /\ call.op = "rewind" /\ url_seek \in BOOLEAN
      /\ cpos \in Nat /\ rest \in Int /\ rest' = rest /\ out = <<>> /\ far \in Nat
      /\ nread' = 0 /\ nread' \in Nat /\ call' = NoCall
      /\ \/ url_seek /\ CacheSeekNear(0, "set")
         \/ ~url_seek /\ UNCHANGED <<cache_vars, reader, out>>
  <2>1. call.op = "rewind" /\ rest' = rest /\ nread' = 0 /\ kind = "cache"
    BY DEF UrlRewind, Turn
  <2>2. call' = NoCall /\ \/ url_seek /\ CacheSeekNear(0, "set")
                          \/ ~url_seek /\ UNCHANGED <<cache_vars, reader, out>>
    BY <2>1 DEF UrlRewind, Buffered, Return
  <2> QED
    BY <2>1, <2>2, CacheFacts
<1>2. ASSUME UrlTypes', CacheInv', out' = <<>> PROVE StreamInv'
  <2>1. LimitInv'
    <3>1. out' \in Seq(Int)
      BY <1>2
    <3> QED
      BY <1>1, <3>1, LimitReturns
  <2> QED
    BY <1>1, <1>2, <2>1, CacheKept
<1>3. CASE url_seek /\ CacheSeekNear(0, "set")
  <2>1. 0 \in Int /\ Max({0, IF "set" = "set" THEN 0 ELSE cpos + 0}) = 0
    <3>1. Max({0, 0}) = IF 0 < 0 THEN 0 ELSE 0
      BY LargerOf
    <3> QED
      BY <3>1
  <2>2. /\ UrlTypes' /\ CacheInv' /\ Goes /\ At' = cpos' /\ out' = <<>>
        /\ cpos' \in Nat /\ cpos' <= 0 /\ Mode = "kept"
    <3>1. call.op # "reopen"
      BY <1>1
    <3> QED
      BY <1>1, <1>3, <2>1, <3>1, CacheNear
  <2>3. Arriving(0)
    BY <2>2 DEF Arriving
  <2> QED
    BY <1>1, <1>2, <2>2, <2>3, SayRewind DEF Kept
<1>4. CASE ~url_seek /\ UNCHANGED <<cache_vars, reader, out>>
  <2>1. UrlTypes' /\ CacheInv' /\ Goes /\ At' = cpos /\ At \in Int
    BY <1>1, <1>4, CacheStays
  <2>2. At = cpos
    <3>1. At = cpos - 0
      BY <1>1, ToldCache
    <3> QED
      BY <1>1, <3>1
  <2>3. Mode = "forward" /\ out' = <<>>
    BY <1>1, <1>4 DEF Mode
  <2> QED
    BY <1>1, <1>2, <2>1, <2>2, <2>3, SayRewind DEF Kept
<1> QED
  BY <1>1, <1>3, <1>4

LEMMA CacheCalls ==
  ASSUME Turn, readlimit' = readlimit, UrlCacheCall
  PROVE  Kept
<1>1. /\ UrlTypes /\ LimitInv /\ CacheInv /\ kind' = "cache" /\ kind = "cache" /\ kind' = kind
      /\ Record /\ call # NoCall /\ url_seek \in BOOLEAN /\ memb_ok \in BOOLEAN /\ Holds
      /\ cpos \in Nat /\ rest \in Int /\ rest' = rest /\ out = <<>> /\ far \in Nat
      /\ reader \in Nat /\ lost \in Nat /\ far <= reader - lost /\ nread \in Nat
      /\ nread' = nread /\ call' = NoCall
      /\ loop' = "none" /\ wp' = 0 /\ rp' = 0 /\ pos' = 0 /\ posofs' = 0 /\ posofs = 0
      /\ \/ call.op = "disable" /\ CacheDisable
         \/ call.op = "detach" /\ CacheDetach
         \/ call.op = "reopen" /\ CacheReopen
  <2>1. /\ rest' = rest /\ nread' = nread /\ call' = NoCall
        /\ \/ call.op = "disable" /\ CacheDisable
           \/ call.op = "detach" /\ CacheDetach
           \/ call.op = "reopen" /\ CacheReopen
    BY DEF UrlCacheCall, Return
  <2>2. call.op # "gets"
    BY <2>1
  <2> QED
    BY <2>1, <2>2, CacheFacts DEF Turn
<1>2. At = cpos
  <2>1. At = cpos - 0
    BY <1>1, ToldCache
  <2> QED
    BY <1>1, <2>1
<1>3. out' = <<>> /\ out' \in Seq(Int) /\ Len(out') = 0
  <2>1. out' = out
    BY <1>1 DEF CacheDisable, CacheDetach, CacheReopen
  <2> QED
    BY <1>1, <2>1
<1>4. LimitInv'
  <2>1. Owed = 0 /\ ~SeekingByReading
    BY <1>1 DEF Owed, SeekingByReading
  <2>2. Len(out') <= Owed
    BY <1>3, <2>1
  <2> QED
    BY <1>1, <1>3, <2>1, <2>2, LimitReturns
<1>5. ASSUME call.op \in {"disable", "detach"}, memb_ok' = memb_ok, b' = b, cpos' = cpos,
             reader' = reader, url_seek' \in BOOLEAN, url_seek' => url_seek
      PROVE  /\ StreamInv' /\ At' = At /\ far' = far /\ lost' = lost /\ posofs' = posofs
  <2>1. lost' = lost /\ call.op # "reopen"
    BY <1>5, LostSame
  <2>2. Holds'
    BY <1>1, <1>5, <2>1 DEF Holds
  <2>3. /\ cpos' \in Nat /\ reader' \in Nat /\ reader' >= reader /\ nread' \in Nat
        /\ rest' \in Int /\ memb_ok' \in BOOLEAN
    BY <1>1, <1>5
  <2>4. /\ UrlTypes' /\ CacheInv' /\ far' = Max({far, At'}) /\ posofs' = posofs
        /\ At \in Int /\ At <= far /\ At' = cpos'
    BY <1>1, <1>3, <1>5, <2>1, <2>2, <2>3, CacheReturns
  <2>5. At' = At /\ far' = far
    <3>1. At' = At
      BY <1>2, <1>5, <2>4
    <3>2. Max({far, cpos}) = IF far < cpos THEN cpos ELSE far
      <4>1. far \in Int /\ cpos \in Int
        BY <1>1
      <4> QED
        BY <4>1, LargerOf
    <3> QED
      BY <1>1, <1>2, <2>4, <3>1, <3>2
  <2> QED
    BY <1>1, <1>4, <2>1, <2>4, <2>5, CacheKept
<1>6. CASE call.op = "disable" /\ CacheDisable
  <2>1. /\ memb_ok' = memb_ok /\ b' = b /\ cpos' = cpos /\ reader' = reader /\ url_seek' = FALSE
    BY <1>6 DEF CacheDisable
  <2>2. StreamInv' /\ At' = At /\ far' = far /\ lost' = lost /\ posofs' = posofs
    BY <1>5, <1>6, <2>1
  <2>3. Mode' = "forward" /\ Mode \in {"kept", "forward"}
    BY <1>1, <2>1 DEF Mode
  <2> QED
    BY <1>1, <1>3, <1>6, <2>2, <2>3, SayChange DEF Kept
<1>7. CASE call.op = "detach" /\ CacheDetach
  <2>1. /\ memb_ok' = memb_ok /\ b' = b /\ cpos' = cpos /\ reader' = reader /\ url_seek' = url_seek
    BY <1>7 DEF CacheDetach
  <2>2. StreamInv' /\ At' = At /\ far' = far /\ lost' = lost /\ posofs' = posofs
    BY <1>1, <1>5, <1>7, <2>1
  <2>3. Mode' = Mode
    BY <1>1, <2>1 DEF Mode
  <2> QED
    BY <1>1, <1>3, <1>7, <2>2, <2>3, SayChange DEF Kept
<1>8. CASE call.op = "reopen" /\ CacheReopen
  <2>1. /\ memb_ok' = TRUE /\ b' = NoMemory /\ cpos' = 0 /\ reader' = reader /\ url_seek' = TRUE
        /\ lost' = reader /\ far' = 0
    BY <1>1, <1>8 DEF CacheReopen, Record
  <2>2. At' = 0
    <3>1. cpos' \in Nat /\ rest' \in Int
      BY <1>1, <2>1
    <3> QED
      BY <1>1, <1>3, <2>1, <3>1, ToldCacheAfter
  <2>3. Holds'
    <3>1. Memory(NoMemory, reader) /\ Cursor(NoMemory) = 0 /\ NoMemory.total_size = 0
      BY DEF Memory, Cursor, NoMemory, Nodes
    <3>2. reader - reader = 0
      BY <1>1
    <3> QED
      BY <2>1, <3>1, <3>2 DEF Holds
  <2>4. InCall'
    BY <1>1, Asked DEF InCall
  <2>5. CacheInv'
    <3>1. 0 <= reader - reader
      BY <1>1
    <3> QED
      BY <1>1, <2>1, <2>3, <2>4, <3>1 DEF CacheInv
  <2>6. UrlTypes'
    <3>1. readlimit' \in Nat \union {NoLimit} /\ nread' \in Nat /\ rest' \in Int /\ reader' \in Nat
          /\ posofs' = posofs /\ far' \in Nat /\ lost' \in Nat
      BY <1>1, <2>1 DEF Turn
    <3>2. counted' \in Nat
      <4>1. counted \in Nat
        BY <1>1 DEF UrlTypes
      <4>2. \A c \in Nat : c + 0 \in Nat
        OBVIOUS
      <4> QED
        BY <1>3, <4>1, <4>2, <1>1 DEF Record
    <3>3. At' <= far'
      BY <2>1, <2>2
    <3> QED
      BY <1>1, <1>3, <3>1, <3>2, <3>3, TypesAfter
  <2>7. StreamInv'
    BY <1>1, <1>4, <2>5, <2>6, CacheKept
  <2>8. Mode # "window" /\ Mode' = "kept" /\ lost' >= far + lost
    BY <1>1, <2>1 DEF Mode
  <2> QED
    BY <1>1, <1>3, <1>8, <2>1, <2>2, <2>7, <2>8, SayReopen DEF Kept
<1> QED
  BY <1>1, <1>6, <1>7, <1>8

LEMMA LimitSet ==
  ASSUME Record, call # NoCall, call.op = "limit", Request(call), call' = NoCall,
         readlimit' = call.n, nread' = 0
  PROVE  LimitInv' /\ readlimit' \in Nat \union {NoLimit}
<1>1. counted' = 0 /\ Owed' = 0 /\ call.n \in Nat \union {NoLimit}
  BY DEF Record, Owed, Request, NoLimit
<1>2. 0 + 0 <= 0 /\ \A j \in Nat : 0 <= j
  OBVIOUS
<1> QED
  BY <1>1, <1>2 DEF LimitInv

LEMMA BuffLimit ==
  ASSUME StreamInv, kind = "buff", kind' = kind, Record, call # NoCall, UrlSetReadlimit
  PROVE  Kept
<1>1. /\ UrlTypes /\ BuffInv /\ RingInv /\ BuffTypeOK /\ InLoop /\ Request(call)
  <2>1. UrlTypes /\ BuffInv
    BY DEF StreamInv
  <2> QED
    BY <2>1, Asked DEF BuffInv, RingInv
<1>2. /\ call.op = "limit" /\ call' = NoCall /\ readlimit' = call.n /\ nread' = 0
      /\ buff' = buff /\ reader' = reader /\ out' = out /\ rest' = rest /\ url_seek' = url_seek
  BY DEF UrlSetReadlimit, Return, cache_vars, cache
<1>3. out = <<>> /\ out' = <<>> /\ out' \in Seq(Int)
  BY <1>1, <1>2 DEF UrlTypes
<1>4. /\ loop' = loop /\ posofs' = posofs /\ pos' = pos /\ wp' = wp /\ rp' = rp /\ r' = r
  BY <1>2 DEF buff
<1>5. loop = "none"
  <2>1. loop \in {"none", "gets", "ahead", "toEnd"}
    BY <1>1 DEF BuffTypeOK
  <2> QED
    BY <1>1, <1>2, <2>1 DEF InLoop
<1>6. RingInv'
  BY <1>1, <1>2, Unchanged
<1>7. LimitInv' /\ readlimit' \in Nat \union {NoLimit}
  BY <1>1, <1>2, LimitSet
<1>8. Near /\ reader' >= reader /\ nread' \in Nat
  BY <1>1, <1>2, <1>5 DEF Near, BuffTypeOK
<1>9. /\ UrlTypes' /\ Goes
      /\ At = pos + posofs /\ At \in Nat /\ At' = pos' + posofs' /\ At' \in Nat
      /\ far \in Nat /\ At <= far /\ lost' = 0 /\ far' <= reader' /\ Bound'
      /\ call'.op \in {"skip", "seek"} => rest' = call'.n
  BY <1>2, <1>3, <1>4, <1>6, <1>7, <1>8, BuffMoves
<1>10. InLoop'
  BY <1>2, <1>4, <1>5 DEF InLoop
<1>11. StreamInv'
  BY <1>6, <1>7, <1>9, <1>10, BuffKept DEF BuffInv
<1>12. At' = At /\ far' = far
  BY <1>4, <1>9, StaysPut
<1>13. Mode' = Mode
  BY DEF Mode
<1>14. Says
  BY <1>2, <1>3, <1>9, <1>12, <1>13, SayChange DEF Goes
<1> QED
  BY <1>11, <1>14 DEF Kept

LEMMA CacheLimit ==
  ASSUME StreamInv, kind = "cache", kind' = kind, Record, call # NoCall, UrlSetReadlimit
  PROVE  Kept
<1>1. UrlTypes /\ Request(call)
  <2>1. UrlTypes
    BY DEF StreamInv
  <2> QED
    BY <2>1, Asked
<1>2. /\ call.op = "limit" /\ call' = NoCall /\ readlimit' = call.n /\ nread' = 0
      /\ nread' \in Nat
      /\ buff' = buff /\ reader' = reader /\ out' = out /\ rest' = rest /\ UNCHANGED cache_vars
  BY DEF UrlSetReadlimit, Return
<1>3. LimitInv' /\ readlimit' \in Nat \union {NoLimit}
  BY <1>1, <1>2, LimitSet
<1>4. Turn
  BY <1>2, <1>3 DEF Turn
<1>5. /\ UrlTypes' /\ CacheInv' /\ Goes /\ At' = cpos /\ far \in Nat /\ At \in Int /\ At <= far
  BY <1>2, <1>4, CacheStays
<1>6. At = cpos
  <2>1. At = cpos - 0 /\ cpos \in Nat
    BY <1>2, <1>4, ToldCache, CacheFacts
  <2> QED
    BY <2>1
<1>7. out' = <<>> /\ url_seek' = url_seek
  BY <1>2, <1>4, CacheFacts DEF cache_vars, cache
<1>8. StreamInv'
  BY <1>3, <1>5, CacheKept
<1>9. At' = At /\ far' = far
  BY <1>5, <1>6, StaysPut
<1>10. Says
  BY <1>2, <1>5, <1>7, <1>9, SayChange DEF Goes
<1> QED
  BY <1>8, <1>10 DEF Kept

(* a call begins *)
LEMMA AskKept ==
  ASSUME StreamInv, kind' = kind, Ask, Record
  PROVE  Kept
<1>1. UrlTypes /\ LimitInv /\ kind \in {"buff", "cache"}
  BY DEF StreamInv, UrlTypes
<1>2. /\ call = NoCall /\ call' \in Calls /\ (call'.op = "reopen" => kind = "cache")
      /\ out' = <<>> /\ reader' = reader /\ nread' = nread /\ readlimit' = readlimit
      /\ rest' = IF call'.op \in {"skip", "seek"} THEN call'.n ELSE 0
      /\ buff' = buff /\ memb_ok' = memb_ok /\ b' = b /\ url_seek' = url_seek /\ cpos' = cpos
  BY DEF Ask, cache_vars, cache
<1>3. Request(call') /\ call'.n \in Int /\ call' # NoCall
  BY <1>2, UrlAssumption DEF Request
<1>4. /\ loop' = loop /\ posofs' = posofs /\ pos' = pos /\ wp' = wp /\ rp' = rp /\ r' = r
  BY <1>2 DEF buff
<1>5. url_tell' = url_tell
  BY <1>2, <1>4 DEF url_tell
<1>6. Underway = 0
  BY <1>2, Asked DEF Underway
<1>7. Underway' = 0
  <2>1. Len(out') = 0 /\ (call'.op \in {"skip", "seek"} => call'.n - rest' = 0)
    BY <1>2, <1>3
  <2> QED
    BY <2>1 DEF Underway
<1>8. /\ url_tell \in Int /\ At = url_tell /\ At' = url_tell /\ At <= far /\ far \in Nat
      /\ counted \in Nat /\ nread \in Nat /\ lost \in Nat /\ reader \in Nat /\ posofs \in Nat
      /\ readlimit \in Nat \union {NoLimit}
  <2>1. url_tell \in Int
    <3>1. CASE kind = "buff"
      BY <3>1 DEF StreamInv, BuffInv, RingInv, BuffTypeOK, url_tell
    <3>2. CASE kind = "cache"
      BY <3>2 DEF StreamInv, CacheInv, url_tell
    <3> QED
      BY <1>1, <3>1, <3>2
  <2>2. At = url_tell - 0 /\ At' = url_tell - 0
    BY <1>5, <1>6, <1>7 DEF At
  <2> QED
    BY <1>1, <2>1, <2>2 DEF UrlTypes
<1>9. lost' = lost /\ far' = far
  <2>1. lost' = lost /\ far' = Max({far, At'})
    BY <1>2 DEF Record, At
  <2> QED
    BY <1>8, <2>1, LargerOf
<1>10. counted' \in Nat /\ (readlimit # NoLimit => counted' = counted)
  BY <1>2, <1>3, <1>8 DEF Record
<1>11. UrlTypes'
  <2>1. rest' \in Int /\ out' \in Seq(Int)
    BY <1>2, <1>3
  <2>2. At' <= far' /\ far' \in Nat /\ lost' \in Nat /\ reader' \in Nat /\ posofs' \in Nat
        /\ nread' \in Nat /\ readlimit' \in Nat \union {NoLimit} /\ kind' \in {"buff", "cache"}
    BY <1>1, <1>2, <1>4, <1>8, <1>9
  <2> QED
    BY <1>2, <1>10, <2>1, <2>2 DEF UrlTypes, NoLimit
<1>12. LimitInv'
  <2> SUFFICES ASSUME readlimit # NoLimit
               PROVE  counted' + Owed' <= nread' /\ nread' <= readlimit
    BY <1>2 DEF LimitInv, NoLimit
  <2>1. Owed = 0 /\ ~SeekingByReading
    BY <1>2 DEF Owed, SeekingByReading
  <2>2. counted + 0 <= nread /\ nread <= readlimit
    BY <1>1, <2>1 DEF LimitInv
  <2>3. Owed' = 0
    <3>1. Len(out') = 0
      BY <1>2
    <3> QED
      BY <3>1 DEF Owed
  <2> QED
    BY <1>2, <1>10, <2>2, <2>3
<1>13. ASSUME kind = "buff" PROVE StreamInv'
  <2>1. /\ RingInv /\ lost = 0 /\ far <= reader /\ Bound /\ InLoop
    BY <1>13 DEF StreamInv, BuffInv
  <2>2. RingInv'
    <3>1. loop = "none"
      BY <1>2, <2>1 DEF InLoop
    <3> QED
      BY <1>2, <2>1, <3>1, Unchanged
  <2>3. Bound'
    BY <1>2, <1>4, <1>9, <2>1 DEF Bound, Place
  <2>4. loop = "none"
    BY <1>2, <2>1 DEF InLoop
  <2>5. InLoop'
    BY <1>2, <1>4, <2>4 DEF InLoop
  <2>6. BuffInv'
    BY <1>2, <1>9, <2>1, <2>2, <2>3, <2>5 DEF BuffInv
  <2> QED
    BY <1>11, <1>12, <1>13, <2>6, BuffKept
<1>14. ASSUME kind = "cache" PROVE StreamInv'
  <2>1. CacheInv
    BY <1>14 DEF StreamInv
  <2>2. Holds'
    BY <1>2, <1>9, <2>1 DEF CacheInv, Holds
  <2>3. InCall'
    <3>1. /\ Len(out') = 0 /\ out' = Numbers(At' + lost', Len(out'))
          /\ \A i \in 1..Len(out') : FALSE
      BY <1>2 DEF Numbers
    <3>2. call'.op = "skip" => 0 <= rest' /\ rest' <= call'.n /\ rest' = call'.n
      BY <1>2, <1>3 DEF Request
    <3>3. call'.op = "seek" => rest' = call'.n
      BY <1>2
    <3> QED
      BY <3>1, <3>2, <3>3 DEF InCall
  <2>4. CacheInv'
    BY <1>2, <1>4, <1>9, <2>1, <2>2, <2>3 DEF CacheInv
  <2> QED
    BY <1>11, <1>12, <1>14, <2>4, CacheKept
<1>15. Mode' = Mode
  BY <1>2 DEF Mode
<1>16. Says
  BY <1>2, <1>3, <1>4, <1>8, <1>9, <1>15, SayAsk
<1> QED
  BY <1>1, <1>13, <1>14, <1>16 DEF Kept

LEMMA StillKept ==
  ASSUME StreamInv, UNCHANGED url_vars
  PROVE  Kept
<1>1. /\ buff' = buff /\ reader' = reader /\ call' = call /\ out' = out
      /\ memb_ok' = memb_ok /\ b' = b /\ url_seek' = url_seek /\ cpos' = cpos
      /\ kind' = kind /\ nread' = nread /\ readlimit' = readlimit /\ rest' = rest
      /\ far' = far /\ lost' = lost /\ counted' = counted
  BY DEF url_vars, buff_vars, cache_vars, cache
<1>2. /\ loop' = loop /\ posofs' = posofs /\ pos' = pos /\ wp' = wp /\ rp' = rp /\ r' = r
      /\ moved' = moved /\ left' = left
  BY <1>1 DEF buff
<1>3. At' = At
  BY <1>1, <1>2 DEF At, url_tell, Underway
<1>4. UrlTypes'
  BY <1>1, <1>2, <1>3 DEF StreamInv, UrlTypes, NoLimit
<1>5. LimitInv'
  <2>1. Owed' = Owed
    BY <1>1 DEF Owed
  <2>2. SeekingByReading' = SeekingByReading
    BY <1>1 DEF SeekingByReading, HasSeek, ToGo
  <2> QED
    BY <1>1, <2>1, <2>2 DEF StreamInv, LimitInv, NoLimit
<1>6. ASSUME kind = "buff" PROVE StreamInv'
  <2>1. RingInv /\ lost = 0 /\ far <= reader /\ Bound /\ InLoop
        /\ (call.op \in {"skip", "seek"} => rest = call.n)
    BY <1>6 DEF StreamInv, BuffInv
  <2>2. RingInv'
    BY <1>1, <2>1, Unchanged
  <2>3. Bound'
    BY <1>1, <1>2, <2>1 DEF Bound, Place
  <2>4. GetsSize' = GetsSize /\ (AtLimit' <=> AtLimit) /\ SeekGoal' = SeekGoal
    BY <1>1, <1>2 DEF GetsSize, AtLimit, SeekGoal, Allowed, NoLimit
  <2>5. InLoop'
    BY <1>1, <1>2, <1>3, <2>1, <2>4 DEF InLoop
  <2>6. BuffInv'
    BY <1>1, <2>1, <2>2, <2>3, <2>5 DEF BuffInv
  <2> QED
    BY <1>1, <1>4, <1>5, <1>6, <2>6, BuffKept
<1>7. ASSUME kind = "cache" PROVE StreamInv'
  <2>1. CacheInv
    BY <1>7 DEF StreamInv
  <2>2. Holds'
    BY <1>1, <2>1 DEF CacheInv, Holds
  <2>3. InCall'
    BY <1>1, <1>3, <2>1 DEF CacheInv, InCall
  <2>4. CacheInv'
    BY <1>1, <1>2, <2>1, <2>2, <2>3 DEF CacheInv
  <2> QED
    BY <1>1, <1>4, <1>5, <1>7, <2>4, CacheKept
<1>8. Says
  BY <1>1, <1>2, <1>3 DEF Says, Stream!stream, At
<1>9. kind \in {"buff", "cache"}
  BY DEF StreamInv, UrlTypes
<1> QED
  BY <1>6, <1>7, <1>8, <1>9 DEF Kept

-----------------------------------------------------------------------------
(* 6. Every action, whichever the stream is.                               *)
LEMMA BuffHandles ==
  ASSUME StreamInv, kind = "buff", kind' = kind, Record, call # NoCall, Handle
  PROVE  Kept
<1>1. CASE UrlSetReadlimit
  BY <1>1, BuffLimit
<1>2. ASSUME readlimit' = readlimit, rest' = rest PROVE Step
  BY <1>2 DEF Step
<1>3. ASSUME readlimit' = readlimit, Nothing, rest' = rest, call.op \in {"disable", "detach"}
      PROVE  Kept
  <2>1. Step
    BY <1>2, <1>3
  <2>2. loop = "none"
    BY <1>3, <2>1, BuffFacts
  <2> QED
    BY <1>3, <2>1, <2>2, BuffNothing
<1>4. HasSeek
  BY DEF HasSeek
<1>5. CASE readlimit' = readlimit /\ UrlRead
  BY <1>2, <1>5, BuffUrlRead DEF UrlRead
<1>6. CASE readlimit' = readlimit /\ UrlGetc
  BY <1>2, <1>6, BuffUrlGetc DEF UrlGetc
<1>7. CASE readlimit' = readlimit /\ UrlGets
  <2>1. rest' = rest
    BY <1>7 DEF UrlGets
  <2> QED
    BY <1>2, <1>7, <2>1, BuffUrlGets
<1>8. CASE readlimit' = readlimit /\ UrlSeek
  BY <1>2, <1>8, BuffUrlSeek DEF UrlSeek
<1>9. CASE readlimit' = readlimit /\ UrlSkipBySeek
  BY <1>2, <1>9, BuffUrlSkip DEF UrlSkipBySeek
<1>10. CASE readlimit' = readlimit /\ UrlRewind
  BY <1>2, <1>10, BuffUrlRewind DEF UrlRewind
<1>11. CASE readlimit' = readlimit /\ UrlNotACache
  BY <1>3, <1>11 DEF UrlNotACache
<1>12. ~UrlGetsByByte /\ ~UrlSeekByReading /\ ~UrlSeekRefused /\ ~UrlSkipByReading
       /\ ~UrlCacheCall
  BY <1>4 DEF UrlGetsByByte, UrlSeekByReading, UrlSeekRefused, UrlSkipByReading, UrlCacheCall
<1> QED
  BY <1>1, <1>5, <1>6, <1>7, <1>8, <1>9, <1>10, <1>11, <1>12 DEF Handle

LEMMA CacheHandles ==
  ASSUME StreamInv, kind = "cache", kind' = kind, Record, call # NoCall, Handle
  PROVE  Kept
<1>1. CASE UrlSetReadlimit
  BY <1>1, CacheLimit
<1>2. ASSUME readlimit' = readlimit, buff' = buff PROVE Turn
  <2>1. readlimit' \in Nat \union {NoLimit}
    BY <1>2 DEF StreamInv, UrlTypes
  <2> QED
    BY <1>2, <2>1 DEF Turn
<1>3. CASE readlimit' = readlimit /\ UrlRead
  <2>1. buff' = buff
    BY <1>3 DEF UrlRead, Nothing, Buffered, Cached
  <2> QED
    BY <1>2, <1>3, <2>1, CacheUrlRead
<1>4. CASE readlimit' = readlimit /\ UrlGetc
  <2>1. buff' = buff
    BY <1>4 DEF UrlGetc, Nothing, Buffered, Cached
  <2> QED
    BY <1>2, <1>4, <2>1, CacheUrlGetc
<1>5. CASE readlimit' = readlimit /\ UrlGets
  <2>1. Nothing /\ call.op = "gets" /\ rest' = rest
    BY <1>5 DEF UrlGets, Buffered
  <2>2. buff' = buff
    BY <2>1 DEF Nothing
  <2> QED
    BY <1>2, <1>5, <2>1, <2>2, CacheNothing
<1>6. CASE readlimit' = readlimit /\ UrlGetsByByte
  <2>1. buff' = buff
    BY <1>6 DEF UrlGetsByByte, Nothing, Cached
  <2> QED
    BY <1>2, <1>6, <2>1, CacheUrlGets
<1>7. CASE readlimit' = readlimit /\ UrlSeekByReading
  <2>1. buff' = buff
    BY <1>7 DEF UrlSeekByReading, ReadOn, Nothing, Cached
  <2> QED
    BY <1>2, <1>7, <2>1, CacheSeekReads
<1>8. CASE readlimit' = readlimit /\ UrlSeekRefused
  <2>1. /\ buff' = buff /\ Nothing /\ rest' = rest /\ call.op = "seek" /\ call.whence = "end"
        /\ ~url_seek
    BY <1>8 DEF UrlSeekRefused, Nothing, HasSeek
  <2> QED
    BY <1>2, <1>8, <2>1, CacheSeekNothing
<1>9. CASE readlimit' = readlimit /\ UrlSeek
  <2>1. buff' = buff
    BY <1>9 DEF UrlSeek, Buffered, Cached
  <2> QED
    BY <1>2, <1>9, <2>1, CacheUrlSeek
<1>10. CASE readlimit' = readlimit /\ UrlSkipBySeek
  <2>1. buff' = buff
    BY <1>10 DEF UrlSkipBySeek, Nothing, Buffered, Cached
  <2> QED
    BY <1>2, <1>10, <2>1, CacheSkipSeeks
<1>11. CASE readlimit' = readlimit /\ UrlSkipByReading
  <2>1. buff' = buff
    BY <1>11 DEF UrlSkipByReading, ReadOn, Nothing, Cached
  <2> QED
    BY <1>2, <1>11, <2>1, CacheSkipReads
<1>12. CASE readlimit' = readlimit /\ UrlRewind
  <2>1. buff' = buff
    BY <1>12 DEF UrlRewind, Buffered, Cached
  <2> QED
    BY <1>2, <1>12, <2>1, CacheUrlRewind
<1>13. CASE readlimit' = readlimit /\ UrlCacheCall
  <2>1. buff' = buff
    BY <1>13 DEF UrlCacheCall
  <2> QED
    BY <1>2, <1>13, <2>1, CacheCalls
<1>14. ~UrlNotACache
  BY DEF UrlNotACache
<1> QED
  BY <1>1, <1>3, <1>4, <1>5, <1>6, <1>7, <1>8, <1>9, <1>10, <1>11, <1>12, <1>13, <1>14
  DEF Handle

LEMMA UrlInitHolds ==
  ASSUME UrlInit
  PROVE  StreamInv /\ Stream!Init
<1>1. /\ kind \in {"buff", "cache"} /\ reader \in Nat /\ (kind = "cache" => reader = 0)
      /\ BuffOpen(reader) /\ CacheOpen /\ call = NoCall /\ out = <<>>
      /\ nread = 0 /\ readlimit = NoLimit /\ rest = 0 /\ far = url_tell /\ lost = 0 /\ counted = 0
  BY UrlAssumption DEF UrlInit
<1>2. /\ wp = 0 /\ rp = 0 /\ pos = 0 /\ posofs = reader /\ loop = "none"
      /\ memb_ok = TRUE /\ b = NoMemory /\ cpos = 0 /\ url_seek = TRUE
  BY <1>1 DEF BuffOpen, CacheOpen
<1>3. RingInv
  BY <1>1, InitHolds DEF BuffInit
<1>4. url_tell = reader
  BY <1>1, <1>2 DEF url_tell
<1>5. At = reader
  <2>1. Underway = 0
    BY <1>1, Asked DEF Underway
  <2> QED
    BY <1>1, <1>4, <2>1 DEF At
<1>6. UrlTypes
  BY <1>1, <1>2, <1>4, <1>5 DEF UrlTypes
<1>7. LimitInv
  BY <1>1 DEF LimitInv
<1>8. ASSUME kind = "buff" PROVE StreamInv
  <2>1. Bound
    BY <1>1, <1>4, Sizes DEF Bound
  <2>2. InLoop
    BY <1>1, <1>2 DEF InLoop
  <2>3. call.op \notin {"skip", "seek"}
    BY <1>1, Asked
  <2>4. BuffInv
    BY <1>1, <1>3, <1>4, <2>1, <2>2, <2>3 DEF BuffInv
  <2> QED
    BY <1>6, <1>7, <1>8, <2>4 DEF StreamInv
<1>9. ASSUME kind = "cache" PROVE StreamInv
  <2>1. Memory(NoMemory, 0) /\ Cursor(NoMemory) = 0 /\ NoMemory.total_size = 0
    BY DEF Memory, Cursor, NoMemory, Nodes
  <2>2. Holds
    BY <1>1, <1>2, <1>9, <2>1 DEF Holds
  <2>3. InCall
    BY <1>1, Asked DEF InCall
  <2>4. CacheInv
    BY <1>1, <1>2, <1>4, <1>9, <2>2, <2>3 DEF CacheInv
  <2> QED
    BY <1>6, <1>7, <1>9, <2>4 DEF StreamInv
<1>10. Stream!Init
  BY <1>1, <1>2, <1>4, <1>5 DEF Stream!Init, At
<1> QED
  BY <1>1, <1>8, <1>9, <1>10

LEMMA UrlStep ==
  ASSUME StreamInv, [UrlNext]_url_vars
  PROVE  StreamInv' /\ [Stream!Next]_(Stream!stream)
<1>1. Kept
  <2>1. CASE UNCHANGED url_vars
    BY <2>1, StillKept
  <2>2. CASE UrlNext
    <3>1. kind' = kind /\ Record /\ (Ask \/ (call # NoCall /\ Handle))
      BY <2>2 DEF UrlNext
    <3>2. CASE Ask
      BY <3>1, <3>2, AskKept
    <3>3. CASE call # NoCall /\ Handle
      <4>1. kind \in {"buff", "cache"}
        BY DEF StreamInv, UrlTypes
      <4> QED
        BY <3>1, <3>3, <4>1, BuffHandles, CacheHandles
    <3> QED
      BY <3>1, <3>2, <3>3
  <2> QED
    BY <2>1, <2>2
<1> QED
  BY <1>1 DEF Kept, Says

(* The invariant of a stream holds through every call of url.c and every   *)
(* round of its loops, of a buffered stream as of a cached one, over a     *)
(* reader that gives any part of what it is asked.                         *)
THEOREM StreamInvariant == UrlSpec => []StreamInv
<1>1. UrlInit => StreamInv
  BY UrlInitHolds
<1>2. StreamInv /\ [UrlNext]_url_vars => StreamInv'
  BY UrlStep
<1> QED
  BY <1>1, <1>2, PTL DEF UrlSpec

(* A caller that has set a limit with url_set_readlimit() never gets more *)
(* than that, by bytes, lines, blocks or skips, though url_gets() asks for *)
(* one more than the rest of the limit (url.c:205) and a seek by reading   *)
(* starts the count anew.                                                  *)
THEOREM LimitIsKept == UrlSpec => []LimitKept
<1>1. StreamInv => LimitKept
  <2> SUFFICES ASSUME StreamInv, readlimit # NoLimit PROVE counted <= readlimit
    BY DEF LimitKept
  <2>1. /\ nread \in Nat /\ counted \in Nat /\ readlimit \in Nat /\ out \in Seq(Int)
    BY DEF StreamInv, UrlTypes
  <2>2. Owed \in Nat
    BY <2>1 DEF Owed
  <2>3. counted + Owed <= nread /\ (nread <= readlimit \/ counted = 0)
    BY DEF StreamInv, LimitInv, SeekingByReading
  <2> QED
    BY <2>1, <2>2, <2>3
<1> QED
  BY <1>1, StreamInvariant, PTL

(* The ring holds its bytes in place under the calls of url.c as well,     *)
(* with its limits and skips.                                              *)
THEOREM StreamBytesInPlace == UrlSpec => []RingHolds
<1>1. StreamInv => RingHolds
  <2> SUFFICES ASSUME StreamInv PROVE RingHolds
    OBVIOUS
  <2>1. CASE kind = "buff"
    BY <2>1, Reach DEF StreamInv, BuffInv
  <2>2. CASE kind = "cache"
    <3>1. loop = "none" /\ wp = 0 /\ rp = 0 /\ pos = 0
      BY <2>2 DEF StreamInv, CacheInv
    <3>2. Unread = 0
      BY <3>1 DEF Unread, Place
    <3>3. Filled <= 0 /\ Filled \in Int
      BY <3>1, Sizes DEF Filled, Least
    <3> QED
      BY <3>2, <3>3 DEF RingHolds
  <2>3. kind \in {"buff", "cache"}
    BY DEF StreamInv, UrlTypes
  <2> QED
    BY <2>1, <2>2, <2>3
<1> QED
  BY <1>1, StreamInvariant, PTL

(* Both streams implement ByteStream: every byte returned is the one at    *)
(* the position told, and a seek arrives where it should (url.c, url_buff.c,*)
(* url_cache.c, memb.c).                                                   *)
THEOREM Refinement == UrlSpec => ImplementsByteStream
<1>1. UrlInit => StreamInv /\ Stream!Init
  BY UrlInitHolds
<1>2. StreamInv /\ [UrlNext]_url_vars => StreamInv' /\ [Stream!Next]_(Stream!stream)
  BY UrlStep
<1> QED
  BY <1>1, <1>2, PTL DEF UrlSpec, ImplementsByteStream, Stream!Spec
=============================================================================
