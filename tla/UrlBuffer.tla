----------------------------- MODULE UrlBuffer ------------------------------
(***************************************************************************)
(* The buffered stream of libarc/url_buff.c: a ring of two buffers' size   *)
(* with room for a third behind it, so that a read of a whole buffer fits  *)
(* wherever it begins; what lies beyond the ring is copied to its start.   *)
(* The bytes behind the read pointer remain for a while, and a seek may go *)
(* back to them.                                                           *)
(*                                                                         *)
(* A function of the code is one step, but a round of its loops where it   *)
(* has one: every round may ask the reader again.                          *)
(***************************************************************************)
EXTENDS UrlReader

CONSTANTS URL_BUFF_SIZE

ASSUME SizeAssumption == URL_BUFF_SIZE \in Nat \ {0}

VARIABLES
  buffer, wp, rp, pos, posofs, eof,
  loop,         \* the loop that runs: "none", "gets", "ahead" or "toEnd"
  r, moved, left \* its locals r, n and diff

buff == <<buffer, wp, rp, pos, posofs, eof, loop, r, moved, left>>
buff_vars == <<buff, reader, call, out>>

BASESIZE == 2 * URL_BUFF_SIZE
Unwritten == -1

(* url_buff_open() on a reader that has given `given` bytes *)
BuffOpen(given) ==
  /\ buffer = [k \in 0..(BASESIZE + URL_BUFF_SIZE - 1) |-> Unwritten]
  /\ wp = 0 /\ rp = 0 /\ pos = 0 /\ posofs = given /\ eof = FALSE
  /\ loop = "none" /\ r = 0 /\ moved = 0 /\ left = 0

(* p & BASEMASK, for positions at most one turn ahead *)
Mask(p) == IF p >= BASESIZE THEN p - BASESIZE ELSE p

PrefetchNoCopy(n) ==                                               \* mutant
  /\ reader' = reader + n
  /\ buffer' = [k \in DOMAIN buffer |->
                  IF wp <= k /\ k < wp + n THEN reader + k - wp ELSE buffer[k]]
  /\ wp' = Mask(wp + n)
(* prefetch(), when the reader gives n bytes *)
Prefetch(n) ==
  LET read == [k \in DOMAIN buffer |->
                 IF wp <= k /\ k < wp + n THEN reader + k - wp ELSE buffer[k]]
      beyond == wp + n - BASESIZE
  IN  /\ reader' = reader + n
      /\ buffer' = [k \in DOMAIN buffer |->
                      IF k < beyond THEN read[BASESIZE + k] ELSE read[k]]
      /\ wp' = IF beyond < 0 THEN wp + n ELSE beyond

(* `if(r == w) prefetch()', at the place p *)
Refill(p) ==
  IF p = wp THEN \E n \in Given(URL_BUFF_SIZE) : Prefetch(n)
  ELSE UNCHANGED <<buffer, wp, reader>>

(* the length of the fragment from p on, once refilled, at most n *)
Fragment(p, n) ==
  Least(n, IF wp' < p THEN BASESIZE - p ELSE wp' - p)
Piece(from, n) == [i \in 1..n |-> buffer'[from + i - 1]]

-----------------------------------------------------------------------------
(* url_buff_fgetc(), but for what becomes of the byte *)
Fgetc ==
  IF eof THEN UNCHANGED <<buffer, wp, reader, rp, pos, eof>>
  ELSE /\ Refill(rp)
       /\ IF rp = wp' THEN eof' = TRUE /\ UNCHANGED <<rp, pos>>
          ELSE rp' = Mask(rp + 1) /\ pos' = pos + 1 /\ UNCHANGED eof

BuffFgetc ==
  /\ Fgetc
  /\ out' = IF pos' = pos THEN <<>> ELSE <<buffer'[rp]>>
  /\ UNCHANGED <<posofs, loop, r, moved, left>>

(* url_buff_read() *)
ReadNothing ==
  /\ IF eof THEN UNCHANGED <<buffer, wp, reader>> ELSE Refill(rp) /\ rp = wp'
  /\ eof' = TRUE /\ out' = <<>>
  /\ UNCHANGED <<rp, pos>>

ReadFragments(n) ==
  /\ ~eof /\ Refill(rp) /\ rp # wp'
  /\ LET i == Fragment(rp, n)
         to == Mask(rp + i)
         j == Least(wp', n - i)
     IN  IF i = n \/ to = wp' \/ to # 0
         THEN out' = Piece(rp, i) /\ rp' = to /\ pos' = pos + i
         ELSE /\ out' = Piece(rp, i) \o Piece(0, j)
              /\ rp' = j /\ pos' = pos + i + j
  /\ UNCHANGED eof

BuffRead(n) ==
  /\ ReadNothing \/ ReadFragments(n)
  /\ UNCHANGED <<posofs, loop, r, moved, left>>

-----------------------------------------------------------------------------
(* url_buff_gets(): the early returns, and one round of its loop *)
GetsBegin(maxsiz) ==
  /\ loop = "none" /\ ~eof /\ maxsiz > 1
  /\ loop' = "gets" /\ r' = rp /\ out' = <<>>
  /\ UNCHANGED <<buffer, wp, reader, rp, pos, posofs, eof, moved, left>>
  /\ Continue

GetsNothing(maxsiz) ==
  /\ loop = "none" /\ (eof \/ maxsiz <= 1)
  /\ UNCHANGED <<buff, reader, out>>
  /\ Return

GetsRound(maxsiz) ==
  /\ loop = "gets" /\ Refill(r)
  /\ IF r = wp'
     THEN /\ eof' = TRUE /\ pos' = pos + Len(out) /\ rp' = r
          /\ loop' = "none" /\ r' = 0 /\ Return
          /\ UNCHANGED out
     ELSE /\ out' = Append(out, buffer'[r])
          /\ UNCHANGED eof
          /\ IF buffer'[r] \notin Newlines /\ Len(out') < maxsiz - 1
             THEN r' = Mask(r + 1) /\ Continue /\ UNCHANGED <<pos, rp, loop>>
             ELSE /\ pos' = pos + Len(out') /\ rp' = Mask(r + 1)
                  /\ loop' = "none" /\ r' = 0 /\ Return
  /\ UNCHANGED <<posofs, moved, left>>

BuffGets(maxsiz) ==
  GetsBegin(maxsiz) \/ GetsNothing(maxsiz) \/ GetsRound(maxsiz)

-----------------------------------------------------------------------------
(* How far url_buff_seek() goes back: `filled'. *)
Filled ==
  LET behind == (IF rp - wp <= 0 THEN BASESIZE - 1 + (rp - wp) ELSE rp - wp) - 1
  IN  Least(behind, pos)

Finish ==
  /\ loop' = "none" /\ r' = 0 /\ moved' = 0 /\ left' = 0      \* dead locals
  /\ Return

SeekStay ==
  /\ eof' = FALSE /\ Finish
  /\ UNCHANGED <<rp, pos>>
SeekBack(back) ==
  /\ IF Filled < back THEN UNCHANGED <<rp, pos, eof>>
     ELSE /\ rp' = IF rp < back THEN rp - back + BASESIZE ELSE rp - back
          /\ pos' = pos - back /\ eof' = FALSE
  /\ Finish
SeekAhead(diff) ==
  /\ loop' = "ahead" /\ r' = rp /\ moved' = 0 /\ left' = diff
  /\ Continue
  /\ UNCHANGED <<rp, pos, eof>>

(* the part of url_buff_seek() after the switch *)
SeekBy(diff) ==
  /\ \/ diff = 0 /\ SeekStay
     \/ diff < 0 /\ SeekBack(-diff)
     \/ diff > 0 /\ SeekAhead(diff)
  /\ UNCHANGED <<buffer, wp, reader, posofs, out>>

(* one round of its loop forward *)
AheadRound ==
  LET i == Fragment(r, left)
  IN  /\ loop = "ahead" /\ Refill(r)
      /\ IF r = wp'
         THEN /\ eof' = TRUE /\ pos' = pos + moved /\ rp' = r
              /\ Finish
         ELSE IF left > i
         THEN /\ moved' = moved + i /\ left' = left - i /\ r' = Mask(r + i)
              /\ Continue /\ UNCHANGED <<pos, rp, eof, loop>>
         ELSE /\ pos' = pos + moved + i /\ rp' = Mask(r + i) /\ eof' = FALSE
              /\ Finish
      /\ UNCHANGED <<posofs, out>>

(* SEEK_END reads to the end first. *)
SeekToEnd ==
  /\ loop = "none" /\ loop' = "toEnd" /\ Continue
  /\ UNCHANGED <<buffer, wp, reader, rp, pos, posofs, eof, r, moved, left, out>>
ToEndRound ==
  /\ loop = "toEnd" /\ ~eof
  /\ Fgetc /\ Continue
  /\ UNCHANGED <<posofs, loop, r, moved, left, out>>

(* url_buff_seek() *)
BuffSeek(offset, whence) ==
  \/ whence = "set" /\ loop = "none" /\ SeekBy(offset - (pos + posofs))
  \/ whence = "cur" /\ loop = "none" /\ SeekBy(offset)
  \/ whence = "end" /\ (SeekToEnd \/ ToEndRound)
  \/ whence = "end" /\ loop = "toEnd" /\ eof /\ SeekBy(offset)
  \/ AheadRound

-----------------------------------------------------------------------------
(* the stream with a caller that may ask for anything *)
BuffInit == reader \in Nat /\ BuffOpen(reader) /\ out = <<>> /\ call = NoCall
BuffNext ==
  \/ loop = "none" /\ Continue /\ (BuffFgetc \/ \E n \in Nat \ {0} : BuffRead(n))
  \/ loop \in {"none", "gets"} /\ \E maxsiz \in Int : BuffGets(maxsiz)
  \/ loop # "gets" /\ \E offset \in Int, whence \in {"set", "cur", "end"} :
                        BuffSeek(offset, whence)
BuffSpec == BuffInit /\ [][BuffNext]_buff_vars

-----------------------------------------------------------------------------
(* Every byte within reach lies in its place: those not yet read from the  *)
(* read pointer on to the write pointer, and those that a seek may go back *)
(* to behind it, wherever the ring and the room beyond it were wrapped.    *)
(* Inside a loop the pointer that counts is its local r.                   *)
Place == IF loop \in {"gets", "ahead"} THEN r ELSE rp
Unread == IF wp >= Place THEN wp - Place ELSE wp - Place + BASESIZE
RingHolds ==
  /\ \A j \in 0..(Unread - 1) : buffer[Mask(Place + j)] = reader - Unread + j
  /\ loop \in {"none", "toEnd"} =>
       \A j \in 1..Filled :
         buffer[IF rp < j THEN rp - j + BASESIZE ELSE rp - j] = reader - Unread - j
=============================================================================
