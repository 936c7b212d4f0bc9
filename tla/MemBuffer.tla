----------------------------- MODULE MemBuffer ------------------------------
(***************************************************************************)
(* The growing memory of utils/memb.c: a list of nodes of MEMBASESIZE      *)
(* bytes, written at its tail and read at its cursor.  A buffer is a       *)
(* record; its nodes are numbered from the head, and cur = 0 is NULL.  A   *)
(* node's read position is reset when the cursor enters it and not before. *)
(* The code moves bytes by pieces of nodes, here they move one by one.     *)
(***************************************************************************)
EXTENDS Integers, Sequences

CONSTANTS MEMBASESIZE

ASSUME NodeAssumption == MEMBASESIZE \in Nat \ {0}

NoMemory == [node |-> <<>>, cur |-> 0, total_size |-> 0]   \* init_memb()

Room(b) == MEMBASESIZE - Len(b.node[Len(b.node)].base)
WithNode(b) ==
  [b EXCEPT !.node = Append(@, [base |-> <<>>, pos |-> 0])]

(* rewind_memb() *)
rewind_memb(b) ==
  IF b.node = <<>> THEN b ELSE [b EXCEPT !.cur = 1, !.node[1].pos = 0]

(* the byte x goes into the last node, or into a new one if that is full *)
Put(b, x) ==
  LET c == IF Room(b) = 0 THEN WithNode(b) ELSE b
  IN  [c EXCEPT !.node[Len(c.node)].base = Append(@, x), !.total_size = @ + 1]
WithHead(b) == IF b.node = <<>> THEN [WithNode(b) EXCEPT !.cur = 1] ELSE b
push_memb(b, s) ==
  LET pushed[k \in 0..Len(s)] ==
        IF k = 0 THEN WithHead(b) ELSE Put(pushed[k - 1], s[k])
  IN  pushed[Len(s)]

AtEnd(b) == b.cur = Len(b.node) /\ b.node[b.cur].pos = Len(b.node[b.cur].base)

(* The cursor passes one byte, in its node or, when that is used up, in    *)
(* the next; no node was added without a byte to store.                    *)
Forward(b) ==
  IF b.node[b.cur].pos < Len(b.node[b.cur].base)
  THEN [b EXCEPT !.node[b.cur].pos = @ + 1]
  ELSE [b EXCEPT !.cur = @ + 1, !.node[b.cur + 1].pos = 1]
Passed(b) == b.node[b.cur].base[b.node[b.cur].pos]

(* the loop of read_memb() and skip_read_memb(): n bytes, or as many as    *)
(* there are                                                               *)
Taken(b, n) ==
  LET taken[k \in 0..n] ==
        IF k = 0 THEN [memb |-> b, bytes |-> <<>>]
        ELSE IF AtEnd(taken[k - 1].memb) THEN taken[k - 1]
        ELSE LET on == Forward(taken[k - 1].memb)
             IN  [memb |-> on, bytes |-> Append(taken[k - 1].bytes, Passed(on))]
  IN  taken[n]

ReadyToRead(b) == IF b.cur = 0 THEN rewind_memb(b) ELSE b
read_memb(b, n) ==
  IF b.node = <<>> THEN [memb |-> b, bytes |-> <<>>] ELSE Taken(ReadyToRead(b), n)

(* skip_read_memb() returns how many bytes it passed *)
skip_read_memb(b, n) ==
  IF n <= 0 THEN [memb |-> b, n |-> 0]
  ELSE [memb |-> read_memb(b, n).memb, n |-> Len(read_memb(b, n).bytes)]

(* the cursor moved behind the last byte, as url_cache.c does by itself *)
AtTail(b) ==
  [b EXCEPT !.cur = Len(b.node),
            !.node[Len(b.node)].pos = Len(b.node[Len(b.node)].base)]
=============================================================================
