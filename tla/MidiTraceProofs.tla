-------------------------- MODULE MidiTraceProofs --------------------------
(***************************************************************************)
(* Proofs about MidiTrace, for every way the trace is set up, every length *)
(* of the song and every number of events.                                 *)
(***************************************************************************)
EXTENDS MidiTrace, SequenceTheorems, WellFoundedInduction, TLAPS

-----------------------------------------------------------------------------
(* The inductive invariant *)

Node == [event: Nat, start: Int, ce: BOOLEAN]
Types ==
  /\ mode \in Mode
  /\ current_sample \in Nat /\ offset \in Nat /\ samples \in Nat
  /\ pool \in Nat /\ node \in [1..pool -> Node]
  /\ list \in Seq(1..pool) /\ free_list \in Seq(1..pool)
  /\ pushed \in Seq(Nat) /\ shown \in Seq(Nat) /\ stalled \in BOOLEAN

(* A node waits, or is free, at one place.  Nothing waits without a trace *)
Distinct(s) == \A i, j \in 1..Len(s) : s[i] = s[j] => i = j
Apart(s, t) == \A i \in 1..Len(s), j \in 1..Len(t) : s[i] # t[j]
Lists ==
  /\ Distinct(list) /\ Distinct(free_list) /\ Apart(list, free_list)
  /\ list # <<>> => mode.trace_playing /\ mode.can_trace

(* ShownInOrder, event by event *)
Order ==
  /\ Len(shown) + Len(list) = Len(pushed)
  /\ \A i \in 1..Len(shown) : shown[i] = i
  /\ \A i \in 1..Len(list) : node[list[i]].event = Len(shown) + i

(* A waiting event keeps the time it was pushed at *)
Starts ==
  ~stalled => \A i \in 1..Len(list) : node[list[i]].start = pushed[Len(shown) + i]

IInv == Types /\ Lists /\ Order /\ Starts

-----------------------------------------------------------------------------
(* Sequences *)

(* Every nonempty set of natural numbers has a least element. *)
LEMMA LeastNatural ==
  ASSUME NEW T \in SUBSET Nat, T # {}
  PROVE  \E i \in T : \A j \in T : i <= j
<1>1. PICK i \in T : \A j \in T : <<j, i>> \notin OpToRel(<, Nat)
  BY NatLessThanWellFounded, WFMin
<1>2. \A j \in T : ~(j < i)
  BY <1>1 DEF OpToRel
<1> QED
  BY <1>2

LEMMA SeqFacts ==
  ASSUME NEW S, NEW s \in Seq(S)
  PROVE  /\ Len(s) \in Nat /\ (s = <<>> <=> Len(s) = 0)
         /\ \A i \in 1..Len(s) : s[i] \in S
OBVIOUS

LEMMA ReversedFacts ==
  ASSUME NEW S, NEW s \in Seq(S)
  PROVE  /\ Reversed(s) \in Seq(S) /\ Len(Reversed(s)) = Len(s)
         /\ \A i \in 1..Len(s) : Reversed(s)[i] = s[Len(s) + 1 - i]
<1>1. \A i \in 1..Len(s) : Len(s) + 1 - i \in 1..Len(s)
  OBVIOUS
<1> QED
  BY <1>1 DEF Reversed

LEMMA ReversedDistinct ==
  ASSUME NEW S, NEW s \in Seq(S), Distinct(s)
  PROVE  Distinct(Reversed(s))
<1>1. /\ Len(Reversed(s)) = Len(s) /\ Len(s) \in Nat
      /\ \A i \in 1..Len(s) : Reversed(s)[i] = s[Len(s) + 1 - i]
  BY ReversedFacts
<1> SUFFICES ASSUME NEW i \in 1..Len(s), NEW j \in 1..Len(s),
                    Reversed(s)[i] = Reversed(s)[j]
             PROVE  i = j
  BY <1>1 DEF Distinct
<1>2. /\ Len(s) + 1 - i \in 1..Len(s) /\ Len(s) + 1 - j \in 1..Len(s)
      /\ s[Len(s) + 1 - i] = s[Len(s) + 1 - j]
  BY <1>1
<1>3. Len(s) + 1 - i = Len(s) + 1 - j
  BY <1>2 DEF Distinct
<1> QED
  BY <1>1, <1>3

LEMMA ConcatDistinct ==
  ASSUME NEW S, NEW s \in Seq(S), NEW t \in Seq(S),
         Distinct(s), Distinct(t), Apart(s, t)
  PROVE  Distinct(s \o t)
<1> DEFINE c == s \o t
<1>1. /\ Len(c) = Len(s) + Len(t) /\ Len(s) \in Nat /\ Len(t) \in Nat
      /\ \A i \in 1..Len(s) + Len(t) : c[i] = IF i <= Len(s) THEN s[i] ELSE t[i - Len(s)]
  BY ConcatProperties
<1> HIDE DEF c
<1>2. ASSUME NEW i \in 1..Len(c), NEW j \in 1..Len(c), c[i] = c[j], i <= j
      PROVE  i = j
  <2>1. CASE j <= Len(s)
    <3>1. i \in 1..Len(s) /\ j \in 1..Len(s) /\ s[i] = s[j]
      BY <1>1, <1>2, <2>1
    <3> QED
      BY <3>1 DEF Distinct
  <2>2. CASE i <= Len(s) /\ ~(j <= Len(s))
    <3>1. i \in 1..Len(s) /\ j - Len(s) \in 1..Len(t) /\ s[i] = t[j - Len(s)]
      BY <1>1, <1>2, <2>2
    <3> QED
      BY <3>1 DEF Apart
  <2>3. CASE ~(i <= Len(s)) /\ ~(j <= Len(s))
    <3>1. /\ i - Len(s) \in 1..Len(t) /\ j - Len(s) \in 1..Len(t)
          /\ t[i - Len(s)] = t[j - Len(s)]
      BY <1>1, <1>2, <2>3
    <3>2. i - Len(s) = j - Len(s)
      BY <3>1 DEF Distinct
    <3> QED
      BY <1>1, <3>2
  <2> QED
    BY <1>1, <1>2, <2>1, <2>2, <2>3
<1>3. ASSUME NEW i \in 1..Len(c), NEW j \in 1..Len(c), c[i] = c[j]
      PROVE  i = j
  <2>1. i <= j \/ j <= i
    BY <1>1
  <2> QED
    BY <1>2, <1>3, <2>1
<1> QED
  BY <1>3 DEF Distinct, c

LEMMA EventsFacts ==
  ASSUME Types, NEW s \in Seq(1..pool)
  PROVE  /\ Events(s) \in Seq(Nat) /\ Len(Events(s)) = Len(s)
         /\ \A i \in 1..Len(s) : Events(s)[i] = node[s[i]].event
<1>1. Len(s) \in Nat /\ \A i \in 1..Len(s) : s[i] \in 1..pool
  BY SeqFacts
<1>2. \A i \in 1..Len(s) : node[s[i]].event \in Nat
  BY <1>1 DEF Types, Node
<1> QED
  BY <1>1, <1>2 DEF Events

-----------------------------------------------------------------------------
(* The events that are due, from the head on: how many there are is well   *)
(* defined.                                                                *)
LEMMA DueCountFacts ==
  ASSUME Types
  PROVE  /\ DueCount \in 0..Len(list)
         /\ \A i \in 1..DueCount : Due(list[i])
<1> DEFINE IsDueCount(k) == /\ \A i \in 1..k : Due(list[i])
                            /\ k < Len(list) => ~Due(list[k + 1])
<1>1. Len(list) \in Nat
  BY SeqFacts DEF Types
<1>2. \E k \in 0..Len(list) : IsDueCount(k)
  <2> DEFINE T == {i \in 1..Len(list) : ~Due(list[i])}
  <2>1. CASE T = {}
    <3>1. Len(list) \in 0..Len(list) /\ ~(Len(list) < Len(list))
      BY <1>1
    <3>2. \A i \in 1..Len(list) : Due(list[i])
      BY <2>1
    <3> QED
      BY <3>1, <3>2
  <2>2. CASE T # {}
    <3>1. PICK m \in T : \A j \in T : m <= j
      <4>1. T \in SUBSET Nat
        OBVIOUS
      <4> QED
        BY <2>2, <4>1, LeastNatural
    <3>2. m - 1 \in 0..Len(list) /\ m - 1 + 1 = m
      BY <1>1, <3>1
    <3>3. \A i \in 1..m - 1 : i \in 1..Len(list) /\ ~(m <= i)
      BY <1>1, <3>1
    <3>4. \A i \in 1..m - 1 : Due(list[i])
      BY <3>1, <3>3
    <3>5. ~Due(list[m])
      BY <3>1
    <3>6. IsDueCount(m - 1)
      BY <3>2, <3>4, <3>5
    <3> QED
      BY <3>2, <3>6
  <2> QED
    BY <2>1, <2>2
<1>3. DueCount = CHOOSE k \in 0..Len(list) : IsDueCount(k)
  BY DEF DueCount
<1> HIDE DEF IsDueCount
<1>4. DueCount \in 0..Len(list) /\ IsDueCount(DueCount)
  BY <1>2, <1>3
<1> QED
  BY <1>4 DEF IsDueCount

(* What trace_loop() does to the lists when the first k events are due. *)
LEMMA ShowLists ==
  ASSUME Types, Lists, NEW k \in 0..Len(list), Show(k)
  PROVE  /\ list' \in Seq(1..pool) /\ free_list' \in Seq(1..pool) /\ shown' \in Seq(Nat)
         /\ Len(list') = Len(list) - k
         /\ \A i \in 1..Len(list') : k + i \in 1..Len(list) /\ list'[i] = list[k + i]
         /\ Len(shown') = Len(shown) + k
         /\ \A i \in 1..Len(shown) : shown'[i] = shown[i]
         /\ \A i \in 1..k : shown'[Len(shown) + i] = node[list[i]].event
         /\ Distinct(list') /\ Distinct(free_list') /\ Apart(list', free_list')
<1> DEFINE head == SubSeq(list, 1, k)
           l == Len(list)
           back == Reversed(head)
<1>1. list \in Seq(1..pool) /\ l \in Nat /\ k \in Nat /\ k <= l
      /\ \A i \in 1..l : list[i] \in 1..pool
  BY SeqFacts DEF Types
<1> HIDE DEF l
<1>2. /\ head \in Seq(1..pool) /\ Len(head) = k
      /\ \A i \in 1..k : head[i] = list[i]
  <2>1. \A i \in 1..k : list[i] \in 1..pool
    BY <1>1
  <2>2. /\ head \in Seq(1..pool)
        /\ Len(head) = (IF 1 <= k THEN k - 1 + 1 ELSE 0)
        /\ \A i \in 1..k - 1 + 1 : head[i] = list[1 + i - 1]
    BY <1>1, <2>1, SubSeqProperties
  <2> HIDE DEF head
  <2>3. \A i \in 1..k : head[i] = list[i]
    BY <1>1, <2>2
  <2> QED
    BY <1>1, <2>2, <2>3
<1>3. /\ list' \in Seq(1..pool) /\ Len(list') = l - k
      /\ \A i \in 1..l - k : list'[i] = list[k + i]
  <2> DEFINE rest == SubSeq(list, k + 1, l)
  <2>1. \A i \in k + 1..l : list[i] \in 1..pool
    BY <1>1
  <2>2. /\ rest \in Seq(1..pool)
        /\ Len(rest) = (IF k + 1 <= l THEN l - (k + 1) + 1 ELSE 0)
        /\ \A i \in 1..l - (k + 1) + 1 : rest[i] = list[k + 1 + i - 1]
    BY <1>1, <2>1, SubSeqProperties
  <2> HIDE DEF rest
  <2>3. \A i \in 1..l - k : rest[i] = list[k + i]
    BY <1>1, <2>2
  <2>4. Len(rest) = l - k
    BY <1>1, <2>2
  <2>5. list' = rest
    BY DEF Show, rest, l
  <2> QED
    BY <2>2, <2>3, <2>4, <2>5
<1> HIDE DEF head
<1>4. ASSUME NEW i \in 1..Len(list')
      PROVE  k + i \in 1..l /\ list'[i] = list[k + i]
  BY <1>1, <1>3
<1>5. shown' = shown \o Events(head) /\ free_list' = back \o free_list
  BY DEF Show, head
<1>6. /\ shown' \in Seq(Nat) /\ Len(shown') = Len(shown) + k
      /\ \A i \in 1..Len(shown) : shown'[i] = shown[i]
      /\ \A i \in 1..k : shown'[Len(shown) + i] = node[list[i]].event
  <2>1. /\ Events(head) \in Seq(Nat) /\ Len(Events(head)) = k
        /\ \A i \in 1..k : Events(head)[i] = node[list[i]].event
    BY <1>2, EventsFacts
  <2> DEFINE e == Events(head)
             m == Len(shown)
  <2> HIDE DEF e
  <2>2. shown \in Seq(Nat) /\ m \in Nat
    BY SeqFacts DEF Types
  <2>3. /\ shown' \in Seq(Nat) /\ Len(shown') = m + Len(e)
        /\ \A i \in 1..m + Len(e) : shown'[i] = IF i <= m THEN shown[i] ELSE e[i - m]
    BY <1>5, <2>1, <2>2, ConcatProperties DEF e
  <2> HIDE DEF m
  <2>4. Len(e) = k
    BY <2>1 DEF e
  <2>5. \A i \in 1..m : shown'[i] = shown[i]
    BY <1>1, <2>2, <2>3, <2>4
  <2>6. ASSUME NEW i \in 1..k
        PROVE  shown'[m + i] = e[i]
    <3> DEFINE j == m + i
    <3>1. j \in 1..m + k /\ ~(j <= m) /\ j - m = i
      BY <1>1, <2>2
    <3> HIDE DEF j
    <3>2. shown'[j] = e[j - m]
      BY <2>3, <2>4, <3>1
    <3> QED
      BY <3>1, <3>2 DEF j
  <2> QED
    BY <2>1, <2>3, <2>4, <2>5, <2>6 DEF e, m
<1>7. back \in Seq(1..pool) /\ Len(back) = k /\ free_list \in Seq(1..pool)
      /\ \A i \in 1..k : back[i] = head[k + 1 - i]
  BY <1>2, ReversedFacts DEF Types
<1>8. free_list' \in Seq(1..pool)
  BY <1>5, <1>7, ConcatProperties
<1>9. Distinct(list')
  <2> SUFFICES ASSUME NEW i \in 1..Len(list'), NEW j \in 1..Len(list'), list'[i] = list'[j]
               PROVE  i = j
    BY DEF Distinct
  <2>1. k + i = k + j
    BY <1>4 DEF Lists, Distinct, l
  <2> QED
    BY <1>1, <1>3, <2>1
<1>10. Distinct(free_list')
  <2>1. Distinct(head)
    <3>1. \A i \in 1..k : i \in 1..l
      BY <1>1
    <3> QED
      BY <1>2, <3>1 DEF Lists, Distinct, l
  <2>2. Distinct(back)
    BY <1>2, <2>1, ReversedDistinct
  <2>3. Apart(back, free_list)
    <3> SUFFICES ASSUME NEW i \in 1..k, NEW j \in 1..Len(free_list)
                 PROVE  back[i] # free_list[j]
      BY <1>7 DEF Apart
    <3>1. k + 1 - i \in 1..k /\ k + 1 - i \in 1..l
      BY <1>1
    <3>2. back[i] = list[k + 1 - i]
      BY <1>2, <1>7, <3>1
    <3> QED
      BY <3>1, <3>2 DEF Lists, Apart, l
  <2> QED
    BY <1>5, <1>7, <2>2, <2>3, ConcatDistinct DEF Lists
<1>11. Apart(list', free_list')
  <2> SUFFICES ASSUME NEW i \in 1..Len(list'), NEW j \in 1..Len(free_list')
               PROVE  list'[i] # free_list'[j]
    BY DEF Apart
  <2>1. /\ Len(free_list') = k + Len(free_list) /\ Len(free_list) \in Nat
        /\ free_list'[j] = IF j <= k THEN back[j] ELSE free_list[j - k]
    <3> HIDE DEF back
    <3>1. /\ Len(free_list') = Len(back) + Len(free_list)
          /\ \A m \in 1..Len(back) + Len(free_list) :
               free_list'[m] = IF m <= Len(back) THEN back[m] ELSE free_list[m - Len(back)]
      BY <1>5, <1>7, ConcatProperties
    <3> QED
      BY <1>7, <3>1, SeqFacts
  <2>2. CASE j <= k
    <3>1. k + 1 - j \in 1..k /\ k + 1 - j \in 1..l /\ j \in 1..k
      BY <1>1, <2>1, <2>2
    <3>2. free_list'[j] = list[k + 1 - j]
      BY <1>2, <1>7, <2>1, <2>2, <3>1
    <3>3. k + i \in 1..l /\ list'[i] = list[k + i]
      BY <1>4
    <3>4. k + i # k + 1 - j
      BY <1>1, <1>3, <3>1
    <3> QED
      BY <3>1, <3>2, <3>3, <3>4 DEF Lists, Distinct, l
  <2>3. CASE ~(j <= k)
    <3>1. j - k \in 1..Len(free_list)
      BY <1>1, <2>1, <2>3
    <3> QED
      BY <1>4, <2>1, <2>3, <3>1 DEF Lists, Apart, l
  <2> QED
    BY <2>2, <2>3
<1> QED
  BY <1>3, <1>4, <1>6, <1>8, <1>9, <1>10, <1>11 DEF l

(* Nothing waits any more. *)
LEMMA FlushStep ==
  ASSUME IInv, Flush, UNCHANGED <<mode, pushed>>,
         current_sample' \in Nat, offset' \in Nat, samples' \in Nat
  PROVE  IInv'
<1>1. /\ list' = <<>> /\ free_list' = <<>> /\ pool' = 0 /\ node' = <<>>
      /\ stalled' = FALSE /\ shown' = shown \o Events(list)
  BY DEF Flush
<1>2. /\ shown \in Seq(Nat) /\ Len(shown) \in Nat /\ Len(list) \in Nat
      /\ pushed \in Seq(Nat)
  BY SeqFacts DEF IInv, Types
<1> DEFINE e == Events(list)
<1>3. /\ e \in Seq(Nat) /\ Len(e) = Len(list)
      /\ \A i \in 1..Len(list) : e[i] = node[list[i]].event
  BY EventsFacts DEF IInv, Types
<1> HIDE DEF e
<1>4. /\ shown' \in Seq(Nat) /\ Len(shown') = Len(shown) + Len(list)
      /\ \A i \in 1..Len(shown) + Len(list) :
           shown'[i] = IF i <= Len(shown) THEN shown[i] ELSE e[i - Len(shown)]
  <2>1. shown' = shown \o e
    BY <1>1 DEF e
  <2> DEFINE m == Len(shown)
  <2>2. /\ shown' \in Seq(Nat) /\ Len(shown') = m + Len(e)
        /\ \A i \in 1..m + Len(e) : shown'[i] = IF i <= m THEN shown[i] ELSE e[i - m]
    <3>1. shown \in Seq(Nat) /\ e \in Seq(Nat)
      BY <1>2, <1>3
    <3> QED
      BY <2>1, <3>1, ConcatProperties
  <2> QED
    BY <1>3, <2>2
<1>5. Types'
  <2>1. node' \in [1..pool' -> Node]
    BY <1>1
  <2>2. list' \in Seq(1..pool') /\ free_list' \in Seq(1..pool')
    BY <1>1
  <2> QED
    BY <1>1, <1>4, <2>1, <2>2 DEF IInv, Types
<1>6. Lists'
  BY <1>1 DEF Lists, Distinct, Apart
<1>7. Order'
  <2>1. ASSUME NEW i \in 1..Len(shown')
        PROVE  shown'[i] = i
    <3>1. CASE i <= Len(shown)
      <4>1. i \in 1..Len(shown) /\ i \in 1..Len(shown) + Len(list)
        BY <1>2, <1>4, <3>1
      <4>2. shown'[i] = shown[i]
        BY <1>4, <3>1, <4>1
      <4> QED
        BY <4>1, <4>2 DEF IInv, Order
    <3>2. CASE ~(i <= Len(shown))
      <4>1. i - Len(shown) \in 1..Len(list) /\ i \in 1..Len(shown) + Len(list)
        BY <1>2, <1>4, <3>2
      <4>2. shown'[i] = e[i - Len(shown)]
        BY <1>4, <3>2, <4>1
      <4>3. e[i - Len(shown)] = Len(shown) + (i - Len(shown))
        BY <1>3, <4>1 DEF IInv, Order
      <4> QED
        BY <1>2, <4>1, <4>2, <4>3
    <3> QED
      BY <3>1, <3>2
  <2>2. Len(list') = 0 /\ Len(shown') = Len(pushed')
    BY <1>1, <1>4 DEF IInv, Order
  <2> QED
    BY <1>2, <1>4, <2>1, <2>2 DEF Order
<1>8. Starts'
  BY <1>1 DEF Starts
<1> QED
  BY <1>5, <1>6, <1>7, <1>8 DEF IInv

(* Waiting events lose their head, and the new head may be brought forward. *)
LEMMA TraceLoopStep ==
  ASSUME IInv, TraceLoop
  PROVE  IInv'
<1> DEFINE k == DueCount
           l == Len(list)
<1>1. k \in 0..l /\ l \in Nat /\ Show(k)
      /\ UNCHANGED <<mode, pool, current_sample, offset, samples, pushed>>
  BY DueCountFacts, SeqFacts DEF TraceLoop, IInv, Types, timeVars
<1> HIDE DEF k
<1>2. /\ list' \in Seq(1..pool) /\ free_list' \in Seq(1..pool) /\ shown' \in Seq(Nat)
      /\ Len(list') = l - k
      /\ \A i \in 1..Len(list') : k + i \in 1..l /\ list'[i] = list[k + i]
      /\ Len(shown') = Len(shown) + k
      /\ \A i \in 1..Len(shown) : shown'[i] = shown[i]
      /\ \A i \in 1..k : shown'[Len(shown) + i] = node[list[i]].event
      /\ Distinct(list') /\ Distinct(free_list') /\ Apart(list', free_list')
  BY <1>1, ShowLists DEF IInv
<1>3. Len(shown) \in Nat /\ node \in [1..pool -> Node] /\ pool \in Nat
      /\ stalled \in BOOLEAN
  BY SeqFacts DEF IInv, Types
<1>4. \/ UNCHANGED <<node, stalled>>
      \/ /\ list' # <<>> /\ stalled' = TRUE
         /\ node' = [node EXCEPT ![Head(list')].start = @ - 1]
  BY DEF TraceLoop, Forward
<1>5. /\ node' \in [1..pool -> Node] /\ stalled' \in BOOLEAN
      /\ \A p \in 1..pool : node'[p].event = node[p].event
  <2>1. CASE UNCHANGED <<node, stalled>>
    BY <1>3, <2>1
  <2>2. CASE /\ list' # <<>> /\ stalled' = TRUE
             /\ node' = [node EXCEPT ![Head(list')].start = @ - 1]
    <3> DEFINE h == Head(list')
    <3>1. h \in 1..pool
      <4>1. Len(list') > 0 /\ 1 \in 1..Len(list') /\ h = list'[1]
        BY <1>2, <2>2
      <4> HIDE DEF h
      <4> QED
        BY <1>2, <4>1, SeqFacts
    <3> HIDE DEF h
    <3>2. node[h] \in Node
      BY <1>3, <3>1
    <3>3. node' = [node EXCEPT ![h] = [node[h] EXCEPT !.start = node[h].start - 1]]
      BY <2>2 DEF h
    <3>4. /\ [node[h] EXCEPT !.start = node[h].start - 1] \in Node
          /\ [node[h] EXCEPT !.start = node[h].start - 1].event = node[h].event
      BY <3>2 DEF Node
    <3> QED
      BY <1>3, <2>2, <3>1, <3>3, <3>4
  <2> QED
    BY <1>4, <2>1, <2>2
<1>6. Types'
  BY <1>1, <1>2, <1>5 DEF IInv, Types
<1>7. Lists'
  <2>1. list # <<>>
    BY DEF TraceLoop
  <2> QED
    BY <1>1, <1>2, <2>1 DEF IInv, Lists
<1>8. Order'
  <2>1. ASSUME NEW i \in 1..Len(shown')
        PROVE  shown'[i] = i
    <3>1. CASE i <= Len(shown)
      <4>1. i \in 1..Len(shown)
        BY <1>1, <1>2, <1>3, <3>1
      <4> QED
        BY <1>2, <4>1 DEF IInv, Order
    <3>2. CASE ~(i <= Len(shown))
      <4>1. PICK j \in 1..k : i = Len(shown) + j
        <5>1. i - Len(shown) \in 1..k /\ i = Len(shown) + (i - Len(shown))
          BY <1>1, <1>2, <1>3, <3>2
        <5> QED
          BY <5>1
      <4>2. j \in 1..l
        BY <1>1
      <4> QED
        BY <1>2, <4>1, <4>2 DEF IInv, Order
    <3> QED
      BY <3>1, <3>2
  <2>2. ASSUME NEW i \in 1..Len(list')
        PROVE  node'[list'[i]].event = Len(shown') + i
    <3>1. k + i \in 1..l /\ list'[i] = list[k + i] /\ list'[i] \in 1..pool
      BY <1>2, SeqFacts
    <3>2. node'[list'[i]].event = Len(shown) + (k + i)
      BY <1>5, <3>1 DEF IInv, Order
    <3> QED
      BY <1>1, <1>2, <1>3, <3>2
  <2>3. Len(shown') + Len(list') = Len(pushed')
    <3>1. Len(shown) + l = Len(pushed)
      BY DEF IInv, Order
    <3> HIDE DEF l
    <3>2. Len(shown') + Len(list') = Len(shown) + k + (l - k)
      BY <1>2
    <3>3. \A a, b, c \in Nat : a + b + (c - b) = a + c
      OBVIOUS
    <3>4. Len(shown) + k + (l - k) = Len(shown) + l
      BY <1>1, <1>3, <3>3
    <3> QED
      BY <1>1, <3>1, <3>2, <3>4
  <2> QED
    BY <2>1, <2>2, <2>3 DEF Order
<1>9. Starts'
  <2> SUFFICES ASSUME ~stalled', NEW i \in 1..Len(list')
               PROVE  node'[list'[i]].start = pushed'[Len(shown') + i]
    BY DEF Starts
  <2>1. UNCHANGED <<node, stalled>>
    BY <1>4
  <2>2. k + i \in 1..l /\ list'[i] = list[k + i]
    BY <1>2
  <2>3. node[list[k + i]].start = pushed[Len(shown) + (k + i)]
    BY <2>1, <2>2 DEF IInv, Starts
  <2>4. Len(shown) + (k + i) = Len(shown') + i
    BY <1>1, <1>2, <1>3
  <2> QED
    BY <1>1, <2>1, <2>2, <2>3, <2>4
<1> QED
  BY <1>6, <1>7, <1>8, <1>9 DEF IInv

(* An event is shown at once, or waits in a node of its own. *)
LEMMA PushStep ==
  ASSUME IInv, NEW ce \in BOOLEAN, Push(ce)
  PROVE  IInv'
<1> DEFINE event == Len(pushed) + 1
<1>1. /\ pushed \in Seq(Nat) /\ shown \in Seq(Nat) /\ list \in Seq(1..pool)
      /\ free_list \in Seq(1..pool) /\ pool \in Nat /\ node \in [1..pool -> Node]
      /\ Len(pushed) \in Nat /\ Len(shown) \in Nat /\ Len(list) \in Nat
      /\ Len(free_list) \in Nat /\ current_sample \in Nat
      /\ Len(shown) + Len(list) = Len(pushed)
  BY SeqFacts DEF IInv, Types, Order
<1>2. /\ pushed' = Append(pushed, current_sample)
      /\ UNCHANGED <<mode, current_sample, offset, samples, stalled>>
  BY DEF Push, timeVars
<1>3. /\ pushed' \in Seq(Nat) /\ Len(pushed') = event /\ pushed'[event] = current_sample
      /\ \A i \in 1..Len(pushed) : pushed'[i] = pushed[i]
  BY <1>1, <1>2
<1> HIDE DEF event
<1>4. CASE shown' = Append(shown, event) /\ UNCHANGED listVars
           /\ ~(mode.trace_playing /\ mode.can_trace)
  <2>1. list = <<>> /\ Len(list) = 0 /\ Len(shown) = Len(pushed)
    BY <1>1, <1>4 DEF IInv, Lists
  <2>2. UNCHANGED <<list, free_list, pool, node>>
    BY <1>4 DEF listVars
  <2>3. /\ event = Len(shown) + 1 /\ event \in Nat
        /\ shown' \in Seq(Nat) /\ Len(shown') = event /\ shown'[event] = event
        /\ \A i \in 1..Len(shown) : shown'[i] = shown[i]
    <3>1. event = Len(shown) + 1 /\ event \in Nat
      BY <1>1, <2>1 DEF event
    <3>2. /\ shown' \in Seq(Nat) /\ Len(shown') = Len(shown) + 1
          /\ \A i \in 1..Len(shown) + 1 :
               shown'[i] = IF i = Len(shown) + 1 THEN event ELSE shown[i]
      BY <1>1, <1>4, <3>1, AppendProperties
    <3>3. \A i \in 1..Len(shown) : i \in 1..Len(shown) + 1 /\ i # Len(shown) + 1
      BY <1>1
    <3>4. Len(shown) + 1 \in 1..Len(shown) + 1
      BY <1>1
    <3> QED
      BY <3>1, <3>2, <3>3, <3>4
  <2>4. Types'
    BY <1>1, <1>2, <1>3, <2>2, <2>3 DEF IInv, Types
  <2>5. Lists'
    BY <1>2, <2>2 DEF IInv, Lists, Distinct, Apart
  <2>6. Order'
    <3>1. ASSUME NEW i \in 1..Len(shown')
          PROVE  shown'[i] = i
      <4>1. i = event \/ i \in 1..Len(shown)
        BY <1>1, <2>3
      <4> QED
        BY <2>3, <4>1 DEF IInv, Order
    <3> QED
      BY <1>3, <2>1, <2>2, <2>3, <3>1 DEF Order
  <2>7. Starts'
    BY <2>1, <2>2 DEF Starts
  <2> QED
    BY <2>4, <2>5, <2>6, <2>7 DEF IInv
<1>5. CASE /\ mode.trace_playing /\ mode.can_trace /\ TakesNode
           /\ node' = [i \in 1..pool' |->
                IF i = NewNode THEN [event |-> event, start |-> current_sample, ce |-> ce]
                               ELSE node[i]]
           /\ list' = Append(list, NewNode)
           /\ UNCHANGED shown
  <2> DEFINE p == NewNode
             l == Len(list)
  <2>1. /\ pool' \in Nat /\ 1..pool \subseteq 1..pool' /\ p \in 1..pool'
        /\ free_list' \in Seq(1..pool') /\ Distinct(free_list')
        /\ \A i \in 1..l : list[i] # p
        /\ \A j \in 1..Len(free_list') : free_list'[j] # p
        /\ Apart(list, free_list')
        /\ \A i \in 1..pool' : i # p => i \in 1..pool
    <3>1. CASE free_list = <<>>
      <4>1. p = pool + 1 /\ pool' = pool + 1 /\ free_list' = <<>>
        BY <1>5, <3>1 DEF NewNode, TakesNode
      <4>2. \A i \in 1..l : list[i] \in 1..pool
        BY <1>1, SeqFacts
      <4>3. \A i \in 1..l : list[i] # p
        BY <1>1, <4>1, <4>2
      <4>4. pool' \in Nat /\ 1..pool \subseteq 1..pool' /\ p \in 1..pool'
            /\ \A i \in 1..pool' : i # p => i \in 1..pool
        BY <1>1, <4>1
      <4>5. Len(free_list') = 0 /\ free_list' \in Seq(1..pool')
        BY <4>1
      <4> QED
        BY <4>3, <4>4, <4>5 DEF Distinct, Apart
    <3>2. CASE free_list # <<>>
      <4> DEFINE n == Len(free_list)
      <4>1. p = Head(free_list) /\ pool' = pool /\ free_list' = Tail(free_list)
        BY <1>5, <3>2 DEF NewNode, TakesNode
      <4>2. /\ n \in Nat /\ n > 0 /\ 1 \in 1..n /\ p = free_list[1] /\ Len(free_list') = n - 1
            /\ free_list' \in Seq(1..pool)
            /\ \A j \in 1..n - 1 : free_list'[j] = free_list[j + 1]
        BY <1>1, <3>2, <4>1
      <4> HIDE DEF p
      <4>3. p \in 1..pool
        BY <1>1, <4>2, SeqFacts
      <4> HIDE DEF n
      <4>4. \A j \in 1..n - 1 : j + 1 \in 1..n /\ j + 1 # 1 /\ free_list'[j] = free_list[j + 1]
        BY <4>2
      <4>5. Distinct(free_list')
        <5> SUFFICES ASSUME NEW i \in 1..n - 1, NEW j \in 1..n - 1, free_list'[i] = free_list'[j]
                     PROVE  i = j
          BY <4>2 DEF Distinct
        <5>1. i + 1 = j + 1
          BY <4>4 DEF IInv, Lists, Distinct, n
        <5> QED
          BY <5>1
      <4>6. \A j \in 1..n - 1 : free_list'[j] # p
        BY <4>2, <4>4 DEF IInv, Lists, Distinct, n
      <4>7. \A i \in 1..l : list[i] # p
        BY <4>2 DEF IInv, Lists, Apart, n
      <4>8. Apart(list, free_list')
        BY <4>2, <4>4 DEF IInv, Lists, Apart, n
      <4> QED
        BY <1>1, <4>1, <4>2, <4>3, <4>5, <4>6, <4>7, <4>8
    <3> QED
      BY <3>1, <3>2
  <2>2. /\ node' = [i \in 1..pool' |->
              IF i = p THEN [event |-> event, start |-> current_sample, ce |-> ce] ELSE node[i]]
        /\ list' = Append(list, p)
    BY <1>5
  <2> HIDE DEF p
  <2>3. /\ node' \in [1..pool' -> Node]
        /\ node'[p].event = event /\ node'[p].start = current_sample
        /\ \A i \in 1..pool : i # p => node'[i] = node[i]
    <3>1. [event |-> event, start |-> current_sample, ce |-> ce] \in Node
      BY <1>1 DEF Node, event
    <3>2. \A i \in 1..pool' : i # p => node[i] \in Node
      BY <1>1, <2>1
    <3>3. node' \in [1..pool' -> Node]
      BY <2>2, <3>1, <3>2
    <3> QED
      BY <2>1, <2>2, <3>3
  <2>4. list \in Seq(1..pool')
    <3>1. \A i \in 1..l : list[i] \in 1..pool'
      BY <1>1, <2>1, SeqFacts
    <3>2. list = [i \in 1..l |-> list[i]]
      BY <1>1
    <3> HIDE DEF l
    <3>3. [i \in 1..l |-> list[i]] \in Seq(1..pool')
      BY <1>1, <3>1 DEF l
    <3> QED
      BY <3>2, <3>3
  <2>5. /\ list' \in Seq(1..pool') /\ Len(list') = l + 1 /\ list'[l + 1] = p
        /\ \A i \in 1..l : list'[i] = list[i]
    BY <1>1, <2>1, <2>2, <2>4
  <2>6. \A i \in 1..Len(list') : i = l + 1 \/ i \in 1..l
    BY <1>1, <2>5
  <2>7. ASSUME NEW i \in 1..l
        PROVE  /\ list'[i] = list[i] /\ node'[list'[i]] = node[list[i]]
               /\ Len(shown) + i \in 1..Len(pushed)
    <3>1. list[i] \in 1..pool /\ list[i] # p
      BY <1>1, <2>1, SeqFacts
    <3>2. Len(shown) + i \in 1..Len(pushed)
      BY <1>1
    <3> QED
      BY <2>3, <2>5, <3>1, <3>2
  <2>8. Types'
    BY <1>1, <1>2, <1>3, <1>5, <2>1, <2>3, <2>5 DEF IInv, Types
  <2>9. Lists'
    <3>1. Distinct(list')
      <4> SUFFICES ASSUME NEW i \in 1..Len(list'), NEW j \in 1..Len(list'), list'[i] = list'[j]
                   PROVE  i = j
        BY DEF Distinct
      <4>1. CASE i \in 1..l /\ j \in 1..l
        BY <2>7, <4>1 DEF IInv, Lists, Distinct
      <4>2. CASE i = l + 1 /\ j \in 1..l
        BY <2>1, <2>5, <2>7, <4>2
      <4>3. CASE i \in 1..l /\ j = l + 1
        BY <2>1, <2>5, <2>7, <4>3
      <4> QED
        BY <2>6, <4>1, <4>2, <4>3
    <3>2. Apart(list', free_list')
      <4> SUFFICES ASSUME NEW i \in 1..Len(list'), NEW j \in 1..Len(free_list')
                   PROVE  list'[i] # free_list'[j]
        BY DEF Apart
      <4>1. CASE i = l + 1
        BY <2>1, <2>5, <4>1
      <4>2. CASE i \in 1..l
        BY <2>1, <2>7, <4>2 DEF Apart
      <4> QED
        BY <2>6, <4>1, <4>2
    <3> QED
      BY <1>2, <1>5, <2>1, <3>1, <3>2 DEF Lists
  <2>10. Order'
    <3>1. Len(shown') + Len(list') = Len(pushed')
      BY <1>1, <1>3, <1>5, <2>5 DEF event
    <3>2. \A i \in 1..Len(shown') : shown'[i] = i
      BY <1>5 DEF IInv, Order
    <3>3. ASSUME NEW i \in 1..Len(list')
          PROVE  node'[list'[i]].event = Len(shown') + i
      <4>1. CASE i = l + 1
        <5>1. event = Len(shown) + (l + 1)
          <6>1. \A a, b \in Nat : a + b + 1 = a + (b + 1)
            OBVIOUS
          <6> QED
            BY <1>1, <6>1 DEF event
        <5> QED
          BY <1>5, <2>3, <2>5, <4>1, <5>1
      <4>2. CASE i \in 1..l
        BY <1>5, <2>7, <4>2 DEF IInv, Order
      <4> QED
        BY <2>6, <4>1, <4>2
    <3> QED
      BY <3>1, <3>2, <3>3 DEF Order
  <2>11. Starts'
    <3> SUFFICES ASSUME ~stalled', NEW i \in 1..Len(list')
                 PROVE  node'[list'[i]].start = pushed'[Len(shown') + i]
      BY DEF Starts
    <3>1. CASE i = l + 1
      <4>1. event = Len(shown) + (l + 1)
        <5>1. \A a, b \in Nat : a + b + 1 = a + (b + 1)
          OBVIOUS
        <5> QED
          BY <1>1, <5>1 DEF event
      <4> QED
        BY <1>3, <1>5, <2>3, <2>5, <3>1, <4>1
    <3>2. CASE i \in 1..l
      <4>1. node[list[i]].start = pushed[Len(shown) + i]
        BY <1>2, <3>2 DEF IInv, Starts
      <4> QED
        BY <1>3, <1>5, <2>7, <3>2, <4>1
    <3> QED
      BY <2>6, <3>1, <3>2
  <2> QED
    BY <2>8, <2>9, <2>10, <2>11 DEF IInv
<1> QED
  BY <1>4, <1>5 DEF Push, event

-----------------------------------------------------------------------------
LEMMA Initially ==
  ASSUME ModesAssumption, Init
  PROVE  IInv
<1>1. mode \in Mode
  BY DEF ModesAssumption, Init
<1>2. node \in [1..pool -> Node]
  BY DEF Init
<1>3. /\ list \in Seq(1..pool) /\ free_list \in Seq(1..pool)
      /\ pushed \in Seq(Nat) /\ shown \in Seq(Nat)
      /\ Len(list) = 0 /\ Len(free_list) = 0 /\ Len(pushed) = 0 /\ Len(shown) = 0
  BY DEF Init
<1>4. Types
  BY <1>1, <1>2, <1>3 DEF Init, Types
<1>5. Lists /\ Order
  BY <1>3 DEF Init, Lists, Order, Distinct, Apart
<1>6. Starts
  BY <1>3 DEF Starts
<1> QED
  BY <1>4, <1>5, <1>6 DEF IInv

LEMMA NextStep ==
  ASSUME IInv, [Next]_vars, BoundsAssumption
  PROVE  IInv'
<1>1. CASE Compute \/ Sound \/ UNCHANGED vars
  <2>1. UNCHANGED <<mode, list, free_list, pool, node, pushed, shown, stalled>>
    BY <1>1 DEF Compute, Sound, vars, listVars, histVars
  <2>2. current_sample' \in Nat /\ offset' \in Nat /\ samples' \in Nat
    BY <1>1 DEF Compute, Sound, vars, timeVars, IInv, Types
  <2>3. Types'
    BY <2>1, <2>2 DEF IInv, Types
  <2>4. Lists' /\ Order' /\ Starts'
    BY <2>1 DEF IInv, Lists, Order, Starts, Distinct, Apart
  <2> QED
    BY <2>3, <2>4 DEF IInv
<1>2. CASE \E ce \in BOOLEAN : Push(ce)
  BY <1>2, PushStep
<1>3. CASE TraceLoop
  BY <1>3, TraceLoopStep
<1>4. CASE TraceFlush
  BY <1>4, FlushStep DEF TraceFlush, timeVars, IInv, Types
<1>5. CASE \E t \in 0..MaxTime : Seek(t)
  <2>1. PICK t \in 0..MaxTime : Seek(t)
    BY <1>5
  <2>2. t \in Nat
    BY <2>1 DEF BoundsAssumption
  <2> QED
    BY <2>1, <2>2, FlushStep DEF Seek
<1> QED
  BY <1>1, <1>2, <1>3, <1>4, <1>5 DEF Next

LEMMA Inductive == Spec => []IInv
<1>1. Init => IInv
  BY ModesAssumption, Initially
<1>2. IInv /\ [Next]_vars => IInv'
  BY BoundsAssumption, NextStep
<1> QED
  BY <1>1, <1>2, PTL DEF Spec

(* Every event is shown once and in the order it was pushed, whatever mix  *)
(* of trace_loop(), trace_flush() and jumps shows it.                      *)
THEOREM EventsShownInOrder == Spec => []ShownInOrder
<1>1. IInv => ShownInOrder
  <2> SUFFICES ASSUME IInv
               PROVE  ShownInOrder
    OBVIOUS
  <2> DEFINE e == Events(list)
             c == shown \o e
  <2>1. /\ shown \in Seq(Nat) /\ Len(shown) \in Nat /\ Len(list) \in Nat
        /\ Len(pushed) \in Nat /\ Len(shown) + Len(list) = Len(pushed)
    BY SeqFacts DEF IInv, Types, Order
  <2>2. /\ e \in Seq(Nat) /\ Len(e) = Len(list)
        /\ \A i \in 1..Len(list) : e[i] = node[list[i]].event
    BY EventsFacts DEF IInv, Types
  <2> HIDE DEF e
  <2> DEFINE m == Len(shown)
  <2>3. /\ c \in Seq(Nat) /\ Len(c) = m + Len(e)
        /\ \A i \in 1..m + Len(e) : c[i] = IF i <= m THEN shown[i] ELSE e[i - m]
    <3>1. shown \in Seq(Nat) /\ e \in Seq(Nat)
      BY <2>1, <2>2
    <3> QED
      BY <3>1, ConcatProperties
  <2> HIDE DEF c
  <2>4. ASSUME NEW i \in 1..Len(pushed)
        PROVE  c[i] = i
    <3>1. CASE i <= Len(shown)
      <4>1. i \in 1..Len(shown) /\ i \in 1..Len(shown) + Len(e)
        BY <2>1, <2>2, <3>1
      <4>2. c[i] = shown[i]
        BY <2>3, <3>1, <4>1
      <4> QED
        BY <4>1, <4>2 DEF IInv, Order
    <3>2. CASE ~(i <= Len(shown))
      <4>1. i - Len(shown) \in 1..Len(list) /\ i \in 1..Len(shown) + Len(e)
        BY <2>1, <2>2, <3>2
      <4>2. c[i] = e[i - Len(shown)]
        BY <2>3, <3>2, <4>1
      <4>3. e[i - Len(shown)] = Len(shown) + (i - Len(shown))
        BY <2>2, <4>1 DEF IInv, Order
      <4> QED
        BY <2>1, <4>1, <4>2, <4>3
    <3> QED
      BY <3>1, <3>2
  <2>5. DOMAIN c = 1..Len(pushed) /\ c = [i \in DOMAIN c |-> c[i]]
    BY <2>1, <2>2, <2>3
  <2>6. c = [i \in 1..Len(pushed) |-> i]
    BY <2>4, <2>5
  <2> QED
    BY <2>6 DEF ShownInOrder, c, e
<1> QED
  BY <1>1, Inductive, PTL

(* trace_loop() shows no event before its sample is heard, unless the      *)
(* device stood still and the head was brought forward.                    *)
THEOREM EventsNotEarly == Spec => NotEarly
<1> DEFINE Early == TraceLoop /\ ~stalled /\ mode.clock =>
                      \A i \in Len(shown) + 1..Len(shown') : pushed[shown'[i]] <= Heard
<1>1. IInv /\ [Next]_vars => [Early]_vars
  <2> SUFFICES ASSUME IInv, TraceLoop, ~stalled, mode.clock,
                      NEW i \in Len(shown) + 1..Len(shown')
               PROVE  pushed[shown'[i]] <= Heard
    OBVIOUS
  <2> DEFINE k == DueCount
  <2>1. /\ k \in 0..Len(list) /\ Len(list) \in Nat /\ Len(shown) \in Nat /\ Show(k)
        /\ \A j \in 1..k : Due(list[j])
    BY DueCountFacts, SeqFacts DEF TraceLoop, IInv, Types
  <2> HIDE DEF k
  <2>2. /\ Len(shown') = Len(shown) + k
        /\ \A j \in 1..k : shown'[Len(shown) + j] = node[list[j]].event
    BY <2>1, ShowLists DEF IInv
  <2>3. PICK j \in 1..k : i = Len(shown) + j
    <3>1. i - Len(shown) \in 1..k /\ i = Len(shown) + (i - Len(shown))
      BY <2>1, <2>2
    <3> QED
      BY <3>1
  <2>4. j \in 1..Len(list)
    BY <2>1
  <2>5. shown'[i] = Len(shown) + j
    BY <2>2, <2>3, <2>4 DEF IInv, Order
  <2>6. node[list[j]].start = pushed[Len(shown) + j]
    BY <2>4 DEF IInv, Starts
  <2>7. Heard >= node[list[j]].start
    <3>1. list # <<>>
      BY DEF TraceLoop
    <3>2. Now = Heard
      BY <3>1 DEF Now, IInv, Lists
    <3>3. Due(list[j])
      BY <2>1
    <3> QED
      BY <3>2, <3>3 DEF Due
  <2>8. Heard \in Int /\ node[list[j]].start \in Int
    <3>1. list[j] \in 1..pool
      BY <2>4, SeqFacts DEF IInv, Types
    <3>2. node[list[j]] \in Node
      BY <3>1 DEF IInv, Types
    <3> QED
      BY <3>2 DEF Heard, IInv, Types, Node
  <2> QED
    BY <2>5, <2>6, <2>7, <2>8
<1> QED
  BY <1>1, Inductive, PTL DEF Spec, NotEarly
=============================================================================
