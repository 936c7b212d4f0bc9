-------------------------- MODULE SongReaderProofs --------------------------
(***************************************************************************)
(* The merged list stays in the order of time, and of reading among events *)
(* of one time, for every file, every limit of events and every width of   *)
(* the times; move_channels() keeps channels together and apart, for every *)
(* song and number of channels of a port; groom_list() puts every event at *)
(* the sample of its tick, for every clock and width of counts; and the    *)
(* note steps count beats and bars.                                        *)
(***************************************************************************)
EXTENDS SongReader, FiniteSetTheorems, WellFoundedInduction, TLAPS

-----------------------------------------------------------------------------
(* Every nonempty set of natural numbers has a least element. *)
LEMMA LeastNatural ==
  ASSUME NEW T \in SUBSET Nat, T # {}
  PROVE  \E n \in T : \A m \in T : n <= m
<1>1. PICK n \in T : \A m \in T : <<m, n>> \notin OpToRel(<, Nat)
  BY NatLessThanWellFounded, WFMin
<1>2. \A m \in T : ~(m < n)
  BY <1>1 DEF OpToRel
<1> QED
  BY <1>2

-----------------------------------------------------------------------------
(* The list as the proofs of its order know it: a sequence of records,     *)
(* each numbered, of any channels.                                         *)
IsEntry(e) ==
  e = [kind |-> e.kind, ch |-> e.ch, val |-> e.val, time |-> e.time,
       order |-> e.order]
Entries(events) ==
  /\ \E n \in Nat \ {0} : events = [i \in 1..n |-> events[i]]
  /\ \A i \in 1..Len(events) :
       /\ IsEntry(events[i])
       /\ events[i].time \in Nat /\ events[i].order \in 1..Len(events)
       /\ events[i].kind = "sig" => events[i].val \in Signature
Ordered(events) ==
  \A j \in 1..Len(events) : \A i \in 1..j - 1 : Before(events[i], events[j])

(* What Add() takes and returns *)
WellFormed(l) ==
  /\ l = [events |-> l.events, point |-> l.point, error |-> l.error]
  /\ Entries(l.events) /\ Ordered(l.events)
  /\ l.point \in 1..Len(l.events)
Wanted(e) == e.kind = "sig" => e.val \in Signature

-----------------------------------------------------------------------------
LEMMA Length ==
  ASSUME NEW events, Entries(events)
  PROVE  /\ Len(events) \in Nat \ {0}
         /\ events = [i \in 1..Len(events) |-> events[i]]
<1>1. PICK n \in Nat \ {0} : events = [i \in 1..n |-> events[i]]
  BY DEF Entries
<1>2. DOMAIN events = 1..n
  BY <1>1
<1>3. Len(events) = n
  BY <1>1, <1>2
<1> QED
  BY <1>1, <1>3

LEMMA Sorted ==
  ASSUME NEW events, Entries(events), Ordered(events),
         NEW j \in 1..Len(events), NEW i \in 1..j
  PROVE  /\ events[i].time \in Nat /\ events[j].time \in Nat
         /\ events[i].time <= events[j].time
<1>1. Len(events) \in Nat
  BY Length
<1>2. i \in 1..Len(events)
  BY <1>1
<1>3. events[i].time \in Nat /\ events[j].time \in Nat
  BY <1>2 DEF Entries
<1>4. CASE i = j
  BY <1>3, <1>4
<1>5. CASE i # j
  <2>1. i \in 1..j - 1
    BY <1>1, <1>5
  <2>2. Before(events[i], events[j])
    BY <2>1 DEF Ordered
  <2> QED
    BY <1>3, <2>2 DEF Before
<1> QED
  BY <1>3, <1>4, <1>5

(* The forward scan ends in front of the first later event, or at the end. *)
LEMMA ForwardScan ==
  ASSUME NEW events, Entries(events),
         NEW point \in 1..Len(events), NEW at \in Nat
  PROVE  \E p \in point..Len(events) :
           /\ \A i \in point + 1..p : events[i].time <= at
           /\ p = Len(events) \/ events[p + 1].time > at
<1> DEFINE n == Len(events)
           Later == {i \in point + 1..n : ~(events[i].time <= at)}
<1>1. n \in Nat /\ point \in Nat /\ point >= 1 /\ point <= n
  BY Length
<1>2. \A i \in 1..n : events[i].time \in Nat
  BY DEF Entries
<1> HIDE DEF n
<1>3. CASE Later = {}
  <2>1. \A i \in point + 1..n : events[i].time <= at
    BY <1>3
  <2> QED
    BY <1>1, <2>1 DEF n
<1>4. CASE Later # {}
  <2>1. Later \in SUBSET Nat
    BY <1>1
  <2>2. PICK q \in Later : \A m \in Later : q <= m
    <3> HIDE DEF Later
    <3> QED
      BY <2>1, <1>4, LeastNatural
  <2>3. q \in point + 1..n /\ ~(events[q].time <= at)
    BY <2>2
  <2>4. q - 1 \in point..n /\ q - 1 + 1 = q /\ q \in 1..n
    BY <1>1, <2>3
  <2>5. events[q].time > at
    BY <1>2, <2>3, <2>4
  <2>6. ASSUME NEW i \in point + 1..q - 1
        PROVE  events[i].time <= at
    <3>1. i \in point + 1..n /\ ~(q <= i)
      BY <1>1, <2>3
    <3>2. i \notin Later
      BY <2>2, <3>1
    <3> QED
      BY <3>1, <3>2
  <2> QED
    BY <2>4, <2>5, <2>6 DEF n
<1> QED
  BY <1>3, <1>4

(* The backward scan ends behind the last event that is not later. *)
LEMMA BackwardScan ==
  ASSUME NEW events, Entries(events), NEW at \in Nat,
         NEW point \in 1..Len(events), events[point].time > at
  PROVE  \E p \in 0..point - 1 :
           /\ \A i \in p + 1..point : events[i].time > at
           /\ p = 0 \/ events[p].time <= at
<1> DEFINE n == Len(events)
           Back == {k \in 1..point - 1 : ~(events[point - k].time > at)}
<1>1. n \in Nat /\ point \in Nat /\ point >= 1 /\ point <= n
  BY Length
<1>2. \A i \in 1..n : events[i].time \in Nat
  BY DEF Entries
<1> HIDE DEF n
<1>3. CASE Back = {}
  <2>1. ASSUME NEW i \in 1..point
        PROVE  events[i].time > at
    <3>1. CASE i = point
      BY <3>1
    <3>2. CASE i # point
      <4>1. point - i \in 1..point - 1 /\ point - (point - i) = i
        BY <1>1, <3>2
      <4>2. point - i \notin Back
        BY <1>3
      <4>3. events[point - (point - i)].time > at
        BY <4>1, <4>2
      <4> QED
        BY <4>1, <4>3
    <3> QED
      BY <3>1, <3>2
  <2>2. 0 \in 0..point - 1 /\ 0 + 1 = 1
    BY <1>1
  <2> QED
    BY <2>1, <2>2
<1>4. CASE Back # {}
  <2>1. Back \in SUBSET Nat
    BY <1>1
  <2>2. PICK q \in Back : \A m \in Back : q <= m
    <3> HIDE DEF Back
    <3> QED
      BY <2>1, <1>4, LeastNatural
  <2>3. q \in 1..point - 1 /\ ~(events[point - q].time > at)
    BY <2>2
  <2>4. point - q \in 0..point - 1 /\ point - q \in 1..n
    BY <1>1, <2>3
  <2>5. events[point - q].time <= at
    BY <1>2, <2>3, <2>4
  <2>6. ASSUME NEW i \in point - q + 1..point
        PROVE  events[i].time > at
    <3>1. CASE i = point
      BY <3>1
    <3>2. CASE i # point
      <4>1. /\ point - i \in 1..point - 1 /\ point - (point - i) = i
            /\ ~(q <= point - i)
        BY <1>1, <2>3, <3>2
      <4>2. point - i \notin Back
        BY <2>2, <4>1
      <4>3. events[point - (point - i)].time > at
        BY <4>1, <4>2
      <4> QED
        BY <4>1, <4>3
    <3> QED
      BY <3>1, <3>2
  <2> QED
    BY <2>4, <2>5, <2>6
<1> QED
  BY <1>3, <1>4

(* Wherever the scan starts, it ends between the events that are not later *)
(* and those that are.                                                     *)
LEMMA PlaceSplits ==
  ASSUME NEW events, Entries(events), Ordered(events),
         NEW point \in 1..Len(events), NEW at \in Nat
  PROVE  /\ Place(events, point, at) \in 0..Len(events)
         /\ \A i \in 1..Place(events, point, at) : events[i].time <= at
         /\ \A i \in Place(events, point, at) + 1..Len(events) : events[i].time > at
<1> DEFINE n == Len(events)
           p == Place(events, point, at)
<1>1. n \in Nat /\ point \in Nat /\ point >= 1 /\ point <= n
  BY Length
<1>2. \A i \in 1..n : events[i].time \in Nat
  BY DEF Entries
<1>3. \A j \in 1..n : \A i \in 1..j : events[i].time <= events[j].time
  BY Sorted
<1>4. CASE events[point].time <= at
  <2>1. p = CHOOSE k \in point..n :
                     /\ \A i \in point + 1..k : events[i].time <= at
                     /\ k = n \/ events[k + 1].time > at
    BY <1>4 DEF Place
  <2>2. /\ p \in point..n
        /\ \A i \in point + 1..p : events[i].time <= at
        /\ p = n \/ events[p + 1].time > at
    <3> HIDE DEF p
    <3> QED
      BY <2>1, ForwardScan
  <2> HIDE DEF n, p
  <2>3. ASSUME NEW i \in 1..p
        PROVE  events[i].time <= at
    <3>1. CASE i \in point + 1..p
      BY <2>2, <3>1
    <3>2. CASE i \in 1..point
      <4>1. /\ events[i].time \in Nat /\ events[point].time \in Nat
            /\ events[i].time <= events[point].time
        BY <1>1, <1>2, <1>3, <3>2
      <4> QED
        BY <1>4, <4>1
    <3> QED
      BY <1>1, <2>2, <3>1, <3>2
  <2>4. ASSUME NEW i \in p + 1..n
        PROVE  events[i].time > at
    <3>1. p + 1 \in 1..i /\ i \in 1..n /\ p # n /\ p + 1 \in 1..n
      BY <1>1, <2>2
    <3>2. /\ events[p + 1].time > at /\ events[p + 1].time <= events[i].time
          /\ events[p + 1].time \in Nat /\ events[i].time \in Nat
      BY <1>2, <1>3, <2>2, <3>1
    <3> QED
      BY <3>2
  <2>5. p \in 0..n
    BY <1>1, <2>2
  <2> QED
    BY <2>3, <2>4, <2>5 DEF n, p
<1>5. CASE ~(events[point].time <= at)
  <2>1. p = CHOOSE k \in 0..point - 1 :
                     /\ \A i \in k + 1..point : events[i].time > at
                     /\ k = 0 \/ events[k].time <= at
    BY <1>5 DEF Place
  <2>2. events[point].time > at
    BY <1>1, <1>2, <1>5
  <2>3. /\ p \in 0..point - 1
        /\ \A i \in p + 1..point : events[i].time > at
        /\ p = 0 \/ events[p].time <= at
    <3> HIDE DEF p
    <3> QED
      BY <2>1, <2>2, BackwardScan
  <2> HIDE DEF n, p
  <2>4. ASSUME NEW i \in 1..p
        PROVE  events[i].time <= at
    <3>1. p \in 1..n /\ p # 0 /\ i \in 1..n
      BY <1>1, <2>3
    <3>2. /\ events[i].time <= events[p].time /\ events[p].time <= at
          /\ events[p].time \in Nat /\ events[i].time \in Nat
      BY <1>2, <1>3, <2>3, <3>1
    <3> QED
      BY <3>2
  <2>5. ASSUME NEW i \in p + 1..n
        PROVE  events[i].time > at
    <3>1. CASE i \in p + 1..point
      BY <2>3, <3>1
    <3>2. CASE i \notin p + 1..point
      <4>1. point \in 1..i /\ i \in 1..n /\ point \in 1..n
        BY <1>1, <2>3, <3>2
      <4>2. /\ events[point].time <= events[i].time
            /\ events[point].time \in Nat /\ events[i].time \in Nat
        BY <1>2, <1>3, <4>1
      <4> QED
        BY <2>2, <4>2
    <3> QED
      BY <3>1, <3>2
  <2>6. p \in 0..n
    BY <1>1, <2>3
  <2> QED
    BY <2>4, <2>5, <2>6 DEF n, p
<1> QED
  BY <1>4, <1>5

LEMMA InsertedInOrder ==
  ASSUME NEW events, Entries(events), Ordered(events),
         NEW p \in 0..Len(events),
         NEW e, IsEntry(e), Wanted(e), e.time \in Nat, e.order = Len(events) + 1,
         \A i \in 1..p : events[i].time <= e.time,
         \A i \in p + 1..Len(events) : events[i].time > e.time
  PROVE  /\ Entries(Inserted(events, p, e)) /\ Ordered(Inserted(events, p, e))
         /\ Len(Inserted(events, p, e)) = Len(events) + 1
<1> DEFINE n == Len(events)
           new == Inserted(events, p, e)
<1>1. n \in Nat \ {0} /\ p \in Nat /\ p <= n
  BY Length
<1>2. \A i \in 1..n : /\ IsEntry(events[i]) /\ Wanted(events[i])
                      /\ events[i].time \in Nat /\ events[i].order \in 1..n
  BY DEF Entries, Wanted
<1>3. \A j \in 1..n : \A i \in 1..j - 1 : Before(events[i], events[j])
  BY DEF Ordered
<1>4. new = [i \in 1..n + 1 |-> IF i <= p THEN events[i]
                                ELSE IF i = p + 1 THEN e ELSE events[i - 1]]
  BY DEF Inserted
<1>5. \A i \in 1..p : events[i].time <= e.time
  OBVIOUS
<1>6. \A i \in p + 1..n : events[i].time > e.time
  OBVIOUS
<1>7. e.order = n + 1
  OBVIOUS
<1> HIDE DEF n, new
<1>8. n + 1 \in Nat \ {0} /\ DOMAIN new = 1..n + 1 /\ new = [i \in 1..n + 1 |-> new[i]]
  BY <1>1, <1>4
<1>9. Len(new) = n + 1
  BY <1>8
<1>10. \A i \in 1..n + 1 :
         /\ i <= p => i \in 1..p /\ i \in 1..n /\ new[i] = events[i]
         /\ i = p + 1 => new[i] = e
         /\ i > p + 1 => i - 1 \in p + 1..n /\ i - 1 \in 1..n /\ new[i] = events[i - 1]
  <2> TAKE i \in 1..n + 1
  <2>1. i <= p => i \in 1..p /\ i \in 1..n /\ new[i] = events[i]
    BY <1>1, <1>4
  <2>2. i = p + 1 => new[i] = e
    BY <1>1, <1>4
  <2>3. i > p + 1 => i - 1 \in p + 1..n /\ i - 1 \in 1..n /\ new[i] = events[i - 1]
    BY <1>1, <1>4
  <2> QED
    BY <2>1, <2>2, <2>3
<1>11. ASSUME NEW i \in 1..n + 1
       PROVE  /\ IsEntry(new[i]) /\ Wanted(new[i])
              /\ new[i].time \in Nat /\ new[i].order \in 1..n + 1
  <2>1. CASE i = p + 1
    <3>1. e.order \in 1..n + 1
      BY <1>1, <1>7
    <3> QED
      BY <1>10, <2>1, <3>1
  <2>2. CASE i # p + 1
    <3>1. PICK k \in 1..n : new[i] = events[k]
      BY <1>1, <1>10, <2>2
    <3>2. events[k].order \in 1..n + 1
      BY <1>1, <1>2
    <3> QED
      BY <1>2, <3>1, <3>2
  <2> QED
    BY <2>1, <2>2
<1>12. ASSUME NEW j \in 1..n + 1, NEW i \in 1..j - 1
       PROVE  Before(new[i], new[j])
  <2>1. i \in 1..n + 1 /\ i \in Nat /\ j \in Nat /\ i < j
    BY <1>1
  <2>2. CASE j <= p
    <3>1. i <= p /\ j \in 1..n /\ new[i] = events[i] /\ new[j] = events[j]
      BY <1>1, <1>10, <2>1, <2>2
    <3> QED
      BY <1>3, <3>1
  <2>3. CASE j = p + 1
    <3>1. i <= p /\ i \in 1..p /\ i \in 1..n /\ new[i] = events[i] /\ new[j] = e
      BY <1>1, <1>10, <2>1, <2>3
    <3>2. /\ events[i].time <= e.time /\ events[i].time \in Nat
          /\ events[i].order \in 1..n
      BY <1>2, <1>5, <3>1
    <3>3. events[i].order < e.order
      BY <1>1, <1>7, <3>2
    <3> QED
      BY <3>1, <3>2, <3>3 DEF Before
  <2>4. CASE j > p + 1
    <3>1. j - 1 \in p + 1..n /\ j - 1 \in 1..n /\ new[j] = events[j - 1]
      BY <1>10, <2>4
    <3>2. CASE i <= p
      <4>1. i \in 1..j - 1 - 1 /\ new[i] = events[i]
        BY <1>1, <1>10, <2>1, <2>4, <3>2
      <4> QED
        BY <1>3, <3>1, <4>1
    <3>3. CASE i = p + 1
      <4>1. new[i] = e /\ events[j - 1].time > e.time
        BY <1>6, <1>10, <2>1, <3>1, <3>3
      <4>2. events[j - 1].time \in Nat
        BY <1>2, <3>1
      <4> QED
        BY <3>1, <4>1, <4>2 DEF Before
    <3>4. CASE i > p + 1
      <4>1. new[i] = events[i - 1] /\ i - 1 \in 1..j - 1 - 1
        BY <1>1, <1>10, <2>1, <3>4
      <4> QED
        BY <1>3, <3>1, <4>1
    <3> QED
      BY <1>1, <2>1, <3>2, <3>3, <3>4
  <2> QED
    BY <1>1, <2>1, <2>2, <2>3, <2>4
<1>13. Entries(new)
  BY <1>8, <1>9, <1>11 DEF Entries, Wanted
<1>14. Ordered(new)
  BY <1>9, <1>12 DEF Ordered
<1> QED
  BY <1>9, <1>13, <1>14 DEF n, new

(* readmidi_add_event() keeps the order, or sets the error flag and keeps  *)
(* the list.                                                               *)
LEMMA AddKeepsOrder ==
  ASSUME NEW l, WellFormed(l), NEW at \in Int, NEW e, Wanted(e)
  PROVE  WellFormed(Add(l, at, e)) /\ Len(Add(l, at, e).events) >= Len(l.events)
<1>1. /\ Entries(l.events) /\ Ordered(l.events) /\ l.point \in 1..Len(l.events)
      /\ Len(l.events) \in Nat
  BY Length DEF WellFormed
<1>2. CASE l.error
  BY <1>1, <1>2 DEF Add
<1>3. CASE ~l.error /\ Len(l.events) >= MAX_MIDI_EVENT
  <2>1. Add(l, at, e) = [l EXCEPT !.error = TRUE]
    BY <1>3 DEF Add
  <2>2. Add(l, at, e) = [events |-> l.events, point |-> l.point, error |-> TRUE]
    BY <2>1 DEF WellFormed
  <2> QED
    BY <1>1, <2>2 DEF WellFormed
<1>4. CASE ~l.error /\ ~(Len(l.events) >= MAX_MIDI_EVENT)
  <2> DEFINE time == NotBelow0(at)
             p == Place(l.events, l.point, time)
             r == [kind |-> e.kind, ch |-> e.ch, val |-> e.val, time |-> time,
                   order |-> Len(l.events) + 1]
  <2>1. Add(l, at, e) = [events |-> Inserted(l.events, p, r), point |-> p + 1,
                         error |-> FALSE]
    BY <1>4 DEF Add
  <2>2. time \in Nat
    BY DEF NotBelow0
  <2> HIDE DEF time
  <2>3. /\ p \in 0..Len(l.events)
        /\ \A i \in 1..p : l.events[i].time <= time
        /\ \A i \in p + 1..Len(l.events) : l.events[i].time > time
    BY <1>1, <2>2, PlaceSplits
  <2>4. /\ IsEntry(r) /\ Wanted(r) /\ r.time = time
        /\ r.order = Len(l.events) + 1
    BY DEF IsEntry, Wanted
  <2> HIDE DEF p, r
  <2>5. /\ Entries(Inserted(l.events, p, r)) /\ Ordered(Inserted(l.events, p, r))
        /\ Len(Inserted(l.events, p, r)) = Len(l.events) + 1
    BY <1>1, <2>2, <2>3, <2>4, InsertedInOrder
  <2>6. p + 1 \in 1..Len(l.events) + 1
    BY <1>1, <2>3
  <2>7. WellFormed(Add(l, at, e))
    BY <2>1, <2>5, <2>6 DEF WellFormed
  <2>8. Len(l.events) + 1 >= Len(l.events)
    BY <1>1
  <2> QED
    BY <2>1, <2>5, <2>7, <2>8
<1> QED
  BY <1>2, <1>3, <1>4

-----------------------------------------------------------------------------
(* The inductive invariant: with the order, that the list is a list and    *)
(* that the times added to it are numbers - those of note steps are sums   *)
(* over the signatures collected from it.                                  *)
Table == Seq([time: Nat, sig: Signature])
BeatState ==
  [i: Nat \ {0}, at: Int, n: Nat, meas: Nat, beat: Nat, sig: Signature,
   last: Nat, table: Table]
IInv ==
  /\ setup \in Setup
  /\ WellFormed(List)
  /\ smf_at_time \in Int
  /\ beat \in BeatState /\ beat.i <= Len(evlist)

LEMMA ListFacts ==
  ASSUME WellFormed(List)
  PROVE  /\ Entries(evlist) /\ Ordered(evlist)
         /\ current_midi_point \in 1..Len(evlist)
         /\ Len(evlist) \in Nat \ {0}
BY Length DEF WellFormed, List

(* A step that leaves a well-formed list behind, at least as long *)
LEMMA ListIsKept ==
  ASSUME NEW l, WellFormed(l), Len(l.events) >= Len(evlist), ListIs(l)
  PROVE  WellFormed(List') /\ Len(evlist') >= Len(evlist)
BY DEF ListIs, List, WellFormed

LEMMA WrappedType ==
  ASSUME NEW x \in Int
  PROVE  Wrapped(x) \in Int
<1>1. FRAC * FRAC \in Nat \ {0}
  BY WidthAssumption
<1>2. (FRAC * FRAC) \div 2 \in Int
  BY <1>1
<1>3. ASSUME NEW w \in Nat \ {0}, NEW h \in Int
      PROVE  ((x + h + 1) % w) - h - 1 \in Int
  OBVIOUS
<1> QED
  BY <1>1, <1>2, <1>3 DEF Wrapped, INT_MAX

LEMMA SignatureType ==
  /\ Four4 \in Signature
  /\ \A sig \in Signature : sig.num \in Nat /\ sig.denom \in Nat
BY DEF Four4, Signature

LEMMA SequenceType ==
  ASSUME NEW S, NEW s \in Seq(S), NEW x \in S
  PROVE  /\ <<x>> \in Seq(S) /\ Append(s, x) \in Seq(S) /\ Len(s) \in Nat
         /\ \A k \in 1..Len(s) : s[k] \in S
         /\ Len(s) > 0 => [s EXCEPT ![Len(s)] = x] \in Seq(S)
<1>1. <<x>> \in Seq(S) /\ Append(s, x) \in Seq(S) /\ Len(s) \in Nat
  OBVIOUS
<1>2. \A k \in 1..Len(s) : s[k] \in S
  OBVIOUS
<1>3. ASSUME NEW n \in Nat, n = Len(s), n > 0
      PROVE  [s EXCEPT ![n] = x] \in Seq(S)
  <2>1. s = [i \in 1..n |-> s[i]]
    BY <1>3
  <2>2. [s EXCEPT ![n] = x] = [i \in 1..n |-> IF i = n THEN x ELSE s[i]]
    BY <2>1
  <2>3. [i \in 1..n |-> IF i = n THEN x ELSE s[i]] \in [1..n -> S]
    BY <1>2, <1>3
  <2>4. ASSUME NEW f \in [1..n -> S]
        PROVE  f \in Seq(S)
    OBVIOUS
  <2> QED
    BY <2>2, <2>3, <2>4
<1> QED
  BY <1>1, <1>2, <1>3

LEMMA TableType ==
  ASSUME NEW t \in Table
  PROVE  /\ <<At(0, Four4)>> \in Table /\ Len(t) \in Nat
         /\ \A k \in 1..Len(t) : t[k].sig \in Signature
         /\ \A time \in Nat, sig \in Signature :
              /\ Append(t, At(time, sig)) \in Table
              /\ Len(t) > 0 => [t EXCEPT ![Len(t)] = At(time, sig)] \in Table
<1> DEFINE S == [time: Nat, sig: Signature]
<1>1. \A time \in Nat, sig \in Signature : At(time, sig) \in S
  BY DEF At
<1>2. At(0, Four4) \in S
  BY <1>1, SignatureType
<1>3. \A x \in S : x.sig \in Signature
  OBVIOUS
<1>4. t \in Seq(S) /\ Table = Seq(S)
  BY DEF Table
<1> HIDE DEF S
<1>5. \A x \in S : /\ <<x>> \in Seq(S) /\ Append(t, x) \in Seq(S) /\ Len(t) \in Nat
                   /\ \A k \in 1..Len(t) : t[k] \in S
                   /\ Len(t) > 0 => [t EXCEPT ![Len(t)] = x] \in Seq(S)
  BY <1>4, SequenceType
<1> QED
  BY <1>1, <1>2, <1>3, <1>4, <1>5

LEMMA InitOrdered == Init => IInv
<1> SUFFICES ASSUME Init PROVE IInv
  OBVIOUS
<1>1. setup \in Setup /\ smf_at_time \in Int
  BY SetupsAssumption DEF Init
<1>2. evlist = [i \in 1..1 |-> Head0] /\ Len(evlist) = 1 /\ evlist[1] = Head0
  BY DEF Init
<1>3. evlist = [i \in 1..1 |-> evlist[i]]
  BY <1>2
<1>4. Entries(evlist) /\ Ordered(evlist)
  BY <1>2, <1>3 DEF Entries, Ordered, IsEntry, Head0
<1>5. WellFormed(List)
  BY <1>2, <1>4 DEF WellFormed, List, Init
<1>6. beat \in BeatState
  BY SignatureType DEF Init, NoBeat, BeatState, Table
<1>7. beat.i <= Len(evlist)
  BY <1>2 DEF Init, NoBeat
<1> QED
  BY <1>1, <1>5, <1>6, <1>7 DEF IInv

-----------------------------------------------------------------------------
(* Reading a track *)
LEMMA BeginTrackStep == IInv /\ BeginTrack => IInv'
<1> SUFFICES ASSUME IInv, BeginTrack PROVE IInv'
  OBVIOUS
<1>1. /\ Entries(evlist) /\ Ordered(evlist) /\ Len(evlist) \in Nat \ {0}
  BY ListFacts DEF IInv
<1>2. current_midi_point' \in 1..Len(evlist)
  BY <1>1 DEF BeginTrack
<1>3. smf_at_time' \in Int
  BY SMTT(30), <1>1, <1>2 DEF BeginTrack, Entries
<1>4. WellFormed(List)'
  BY <1>1, <1>2 DEF BeginTrack, WellFormed, List
<1> QED
  BY <1>3, <1>4 DEF IInv, BeginTrack

LEMMA WantedInFile ==
  ASSUME setup \in Setup, NEW e \in setup.events
  PROVE  Wanted(e) /\ Wanted([e EXCEPT !.ch = 1])
<1>1. e \in ([kind: {"on", "off"}, ch: Channels, val: {0}]
             \cup [kind: {"tempo"}, ch: {0}, val: Nat]
             \cup [kind: {"sig"}, ch: {0}, val: Signature]
             \cup [kind: {"text"}, ch: {0}, val: {0}])
  BY DEF Setup
<1>2. CASE e \in [kind: {"sig"}, ch: {0}, val: Signature]
  BY <1>2 DEF Wanted
<1>3. CASE e \notin [kind: {"sig"}, ch: {0}, val: Signature]
  <2>1. e.kind # "sig" /\ [e EXCEPT !.ch = 1].kind # "sig"
    BY <1>1, <1>3
  <2> QED
    BY <2>1 DEF Wanted
<1> QED
  BY <1>2, <1>3

LEMMA ReadEventStep ==
  ASSUME IInv, NEW delta \in setup.deltas, NEW e \in setup.events,
         ReadEvent(delta, e)
  PROVE  IInv'
<1> DEFINE at == Wrapped(smf_at_time + delta)
           quietly == e.kind = "on" /\ ~note_seen /\ at > 0
           before == IF quietly THEN Silent(List, e.ch) ELSE List
           with == Add(before, at, e)
           after == IF e.kind = "sig" THEN Add(with, at, [e EXCEPT !.ch = 1]) ELSE with
<1>1. ListIs(after) /\ smf_at_time' = at /\ UNCHANGED <<setup, beat>>
  BY DEF ReadEvent
<1>2. at \in Int
  <2>1. smf_at_time + delta \in Int
    BY DEF IInv, Setup
  <2> QED
    BY <2>1, WrappedType
<1>3. Wanted(e) /\ Wanted([e EXCEPT !.ch = 1])
  BY WantedInFile DEF IInv
<1>4. /\ WellFormed(List) /\ Len(evlist) \in Nat
      /\ List.events = evlist
  BY ListFacts DEF IInv, List
<1> HIDE DEF at
<1>5. WellFormed(before) /\ Len(before.events) >= Len(evlist)
  <2>1. CASE quietly
    <3> DEFINE one == Add(List, 0, Note("on", e.ch))
               two == Add(one, 0, Note("off", e.ch))
    <3>1. Wanted(Note("on", e.ch)) /\ Wanted(Note("off", e.ch))
      BY DEF Wanted, Note
    <3>2. WellFormed(one) /\ Len(one.events) >= Len(evlist)
      BY <1>4, <3>1, AddKeepsOrder
    <3> HIDE DEF one
    <3>3. WellFormed(two) /\ Len(two.events) >= Len(one.events)
      BY <3>1, <3>2, AddKeepsOrder
    <3> HIDE DEF two
    <3>4. Len(one.events) \in Nat /\ Len(two.events) \in Nat
      BY <3>2, <3>3, Length DEF WellFormed
    <3>5. before = two
      BY <2>1 DEF Silent, one, two
    <3> QED
      BY <1>4, <3>2, <3>3, <3>4, <3>5
  <2>2. CASE ~quietly
    BY <1>4, <2>2
  <2> QED
    BY <2>1, <2>2
<1> HIDE DEF before
<1>6. WellFormed(with) /\ Len(with.events) >= Len(before.events)
  BY <1>2, <1>3, <1>5, AddKeepsOrder
<1> HIDE DEF with
<1>7. /\ WellFormed(after) /\ Len(after.events) \in Nat
      /\ Len(after.events) >= Len(with.events)
  <2>1. CASE e.kind = "sig"
    <3>1. /\ WellFormed(after) /\ Len(after.events) >= Len(with.events)
      BY <1>2, <1>3, <1>6, <2>1, AddKeepsOrder
    <3> QED
      BY <3>1, Length DEF WellFormed
  <2>2. CASE e.kind # "sig"
    <3>1. after = with /\ Len(with.events) \in Nat
      BY <1>6, <2>2, Length DEF WellFormed
    <3> QED
      BY <1>6, <3>1
  <2> QED
    BY <2>1, <2>2
<1> HIDE DEF after
<1>8. Len(before.events) \in Nat /\ Len(with.events) \in Nat
  BY <1>5, <1>6, Length DEF WellFormed
<1>9. Len(after.events) >= Len(evlist)
  BY <1>4, <1>5, <1>6, <1>7, <1>8
<1>10. WellFormed(List') /\ Len(evlist') >= Len(evlist)
  BY <1>1, <1>7, <1>9, ListIsKept
<1>11. Len(evlist') \in Nat
  <2>1. Entries(evlist')
    BY <1>10 DEF WellFormed, List
  <2> QED
    BY <2>1, Length
<1>12. beat'.i <= Len(evlist')
  <2>1. beat.i \in Nat /\ beat.i <= Len(evlist)
    BY DEF IInv, BeatState
  <2> QED
    BY <1>1, <1>4, <1>10, <1>11, <2>1
<1> QED
  BY <1>1, <1>2, <1>10, <1>12 DEF IInv

-----------------------------------------------------------------------------
(* The note steps *)
LEMMA CollectSignatureStep == IInv /\ CollectSignature => IInv'
<1> SUFFICES ASSUME IInv, CollectSignature PROVE IInv'
  OBVIOUS
<1> DEFINE e == evlist[beat.i]
           table == IF IsSignature(e) THEN WithSignature(WithDefault(beat.table, e), e)
                    ELSE beat.table
<1>1. /\ beat' = [beat EXCEPT !.i = @ + 1, !.table = table]
      /\ UNCHANGED <<setup, listVars, trackVars>> /\ beat.i < Len(evlist)
  BY DEF CollectSignature, More
<1>2. /\ Entries(evlist) /\ Len(evlist) \in Nat
      /\ beat.i \in Nat \ {0} /\ beat \in BeatState
  BY ListFacts DEF IInv, BeatState
<1>3. beat.i \in 1..Len(evlist)
  BY <1>1, <1>2
<1>4. e.time \in Nat /\ (IsSignature(e) => e.val \in Signature)
  BY <1>2, <1>3 DEF Entries, IsSignature
<1> HIDE DEF e
<1>5. table \in Table
  <2>1. beat.table \in Table
    BY <1>2 DEF BeatState
  <2>2. WithDefault(beat.table, e) \in Table
    BY <2>1, TableType DEF WithDefault
  <2>3. ASSUME NEW t \in Table, e.val \in Signature
        PROVE  WithSignature(t, e) \in Table
    <3>1. /\ Append(t, At(e.time, e.val)) \in Table
          /\ Len(t) > 0 => [t EXCEPT ![Len(t)] = At(e.time, e.val)] \in Table
      BY <1>4, <2>3, TableType
    <3> QED
      BY <2>3, <3>1 DEF WithSignature
  <2> QED
    BY <1>4, <2>1, <2>2, <2>3
<1> HIDE DEF table
<1>6. beat' \in BeatState /\ beat'.i = beat.i + 1
  <2> DEFINE next == beat.i + 1
  <2>1. next \in Nat \ {0} /\ beat' = [beat EXCEPT !.i = next, !.table = table]
    BY <1>1, <1>2
  <2> HIDE DEF next
  <2>2. beat' \in BeatState /\ beat'.i = next
    BY <1>2, <1>5, <2>1 DEF BeatState
  <2> QED
    BY <2>2 DEF next
<1>7. beat'.i <= Len(evlist')
  BY <1>1, <1>2, <1>6 DEF listVars
<1>8. WellFormed(List') /\ smf_at_time' \in Int /\ setup' \in Setup
  BY <1>1 DEF IInv, WellFormed, List, listVars, trackVars
<1> QED
  BY <1>6, <1>7, <1>8 DEF IInv

LEMMA InsertNoteStepsStep == IInv /\ InsertNoteSteps => IInv'
<1> SUFFICES ASSUME IInv, InsertNoteSteps PROVE IInv'
  OBVIOUS
<1> DEFINE table == IF beat.table = <<>> THEN <<At(0, Four4)>> ELSE beat.table
           last == evlist[beat.i].time
<1>1. /\ beat' = [beat EXCEPT !.last = last, !.table = table]
      /\ UNCHANGED <<setup, evlist, trackVars>> /\ current_midi_point' = 1
  BY DEF InsertNoteSteps
<1>2. /\ Entries(evlist) /\ Ordered(evlist) /\ Len(evlist) \in Nat \ {0}
      /\ beat \in BeatState /\ beat.i \in 1..Len(evlist)
  BY ListFacts DEF IInv, BeatState
<1>3. last \in Nat
  BY <1>2 DEF Entries
<1>4. table \in Table
  <2>1. beat.table \in Table
    BY <1>2 DEF BeatState
  <2> QED
    BY <2>1, TableType
<1> HIDE DEF table, last
<1>5. beat' \in BeatState /\ beat'.i = beat.i
  BY <1>1, <1>2, <1>3, <1>4 DEF BeatState
<1>6. WellFormed(List')
  BY <1>1, <1>2 DEF WellFormed, List
<1>7. smf_at_time' \in Int /\ setup' \in Setup /\ beat'.i <= Len(evlist')
  BY <1>1, <1>5 DEF IInv, trackVars
<1> QED
  BY <1>5, <1>6, <1>7 DEF IInv

LEMMA BeatStep == IInv /\ Beat => IInv'
<1> SUFFICES ASSUME IInv, Beat PROVE IInv'
  OBVIOUS
<1> DEFINE b == Adopted(beat)
           full == b.beat + 1 = b.sig.num
           at == Wrapped(b.at + StepLength(b.sig))
<1>1. /\ ListIs(Add(List, beat.at, Step(b)))
      /\ beat' = [b EXCEPT !.beat = IF full THEN 0 ELSE @ + 1,
                           !.meas = IF full THEN @ + 1 ELSE @, !.at = at]
      /\ UNCHANGED <<setup, trackVars>>
  BY DEF Beat
<1>2. beat \in BeatState /\ beat.i \in Nat /\ beat.at \in Int /\ beat.i <= Len(evlist)
  BY DEF IInv, BeatState
<1>3. b \in BeatState /\ b.i = beat.i
  <2>1. CASE ~Due(beat)
    BY <1>2, <2>1 DEF Adopted
  <2>2. CASE Due(beat)
    <3>1. beat.n + 1 \in 1..Len(beat.table) /\ beat.table \in Table
      <4>1. beat.table \in Table /\ beat.n \in Nat
        BY <1>2 DEF BeatState
      <4>2. Len(beat.table) \in Nat
        BY <4>1, TableType
      <4> QED
        BY <2>2, <4>1, <4>2 DEF Due
    <3>2. beat.table[beat.n + 1].sig \in Signature
      BY <3>1, TableType
    <3> DEFINE sig == beat.table[beat.n + 1].sig
               meas == IF beat.beat # 0 THEN beat.meas + 1 ELSE beat.meas
    <3>3. b = [beat EXCEPT !.n = beat.n + 1, !.sig = sig, !.beat = 0, !.meas = meas]
      BY <2>2 DEF Adopted
    <3>4. meas \in Nat /\ beat.n + 1 \in Nat
      BY <1>2 DEF BeatState
    <3> HIDE DEF sig, meas, b
    <3>5. sig \in Signature
      BY <3>2 DEF sig
    <3> QED
      BY <1>2, <3>3, <3>4, <3>5 DEF BeatState
  <2> QED
    BY <2>1, <2>2
<1>4. at \in Int
  <2>1. b.sig.denom \in Nat /\ b.at \in Int
    BY <1>3, SignatureType DEF BeatState
  <2>2. setup.divisions * 4 \in Int
    BY DEF IInv, Setup
  <2>3. b.sig.denom # 0 => (setup.divisions * 4) \div b.sig.denom \in Int
    BY <2>1, <2>2
  <2>4. b.at + StepLength(b.sig) \in Int
    BY <2>1, <2>3 DEF StepLength
  <2> QED
    BY <2>4, WrappedType
<1>5. Wanted(Step(b))
  BY DEF Wanted, Step, Meta
<1> HIDE DEF b, at, full
<1>6. /\ WellFormed(Add(List, beat.at, Step(b)))
      /\ Len(Add(List, beat.at, Step(b)).events) >= Len(evlist)
  <2>1. WellFormed(List) /\ List.events = evlist
    BY DEF IInv, List
  <2> QED
    BY <1>2, <1>5, <2>1, AddKeepsOrder
<1>7. WellFormed(List') /\ Len(evlist') >= Len(evlist)
  BY <1>1, <1>6, ListIsKept
<1>8. Len(evlist) \in Nat /\ Len(evlist') \in Nat
  <2>1. Entries(evlist')
    BY <1>7 DEF WellFormed, List
  <2> QED
    BY <2>1, Length, ListFacts DEF IInv
<1>9. beat' \in BeatState /\ beat'.i = b.i
  <2> DEFINE beats == IF full THEN 0 ELSE b.beat + 1
             meas == IF full THEN b.meas + 1 ELSE b.meas
  <2>1. beats \in Nat /\ meas \in Nat
    BY <1>3 DEF BeatState
  <2>2. beat' = [b EXCEPT !.beat = beats, !.meas = meas, !.at = at]
    BY <1>1
  <2> HIDE DEF beats, meas
  <2> QED
    BY <1>3, <1>4, <2>1, <2>2 DEF BeatState
<1>10. beat'.i <= Len(evlist')
  BY <1>2, <1>3, <1>7, <1>8, <1>9
<1>11. setup' \in Setup /\ smf_at_time' \in Int
  BY <1>1 DEF IInv, trackVars
<1> QED
  BY <1>7, <1>9, <1>10, <1>11 DEF IInv

-----------------------------------------------------------------------------
(* move_channels() changes nothing but channels *)
LEMMA MoveChannelsStep == IInv /\ MoveChannels => IInv'
<1> SUFFICES ASSUME IInv, MoveChannels PROVE IInv'
  OBVIOUS
<1>1. /\ Entries(evlist) /\ Ordered(evlist) /\ Len(evlist) \in Nat \ {0}
      /\ current_midi_point \in 1..Len(evlist)
  BY ListFacts DEF IInv
<1>2. UNCHANGED <<setup, current_midi_point, readmidi_error_flag, trackVars, beat>>
  BY DEF MoveChannels
<1>3. CASE UNCHANGED evlist
  BY <1>2, <1>3 DEF IInv, WellFormed, List, trackVars
<1>4. CASE ~UNCHANGED evlist
  <2> DEFINE chidx == Chidx
  <2>1. evlist' = [i \in 1..Len(evlist) |->
                     IF OfChannel(evlist[i]) THEN [evlist[i] EXCEPT !.ch = chidx[@]]
                     ELSE evlist[i]]
    BY <1>4 DEF MoveChannels
  <2> HIDE DEF chidx
  <2>2. evlist' = [i \in 1..Len(evlist) |-> evlist'[i]] /\ Len(evlist') = Len(evlist)
    BY <1>1, <2>1
  <2>3. ASSUME NEW i \in 1..Len(evlist)
        PROVE  /\ IsEntry(evlist'[i])
               /\ evlist'[i].time = evlist[i].time /\ evlist'[i].order = evlist[i].order
               /\ evlist'[i].kind = evlist[i].kind /\ evlist'[i].val = evlist[i].val
    <3>1. IsEntry(evlist[i])
      BY <1>1 DEF Entries
    <3>2. CASE OfChannel(evlist[i])
      <4>1. evlist'[i] = [evlist[i] EXCEPT !.ch = chidx[evlist[i].ch]]
        BY <2>1, <3>2
      <4>2. evlist'[i] = [kind |-> evlist[i].kind, ch |-> chidx[evlist[i].ch],
                          val |-> evlist[i].val, time |-> evlist[i].time,
                          order |-> evlist[i].order]
        BY <3>1, <4>1 DEF IsEntry
      <4> QED
        BY <4>2 DEF IsEntry
    <3>3. CASE ~OfChannel(evlist[i])
      BY <2>1, <3>1, <3>3
    <3> QED
      BY <3>2, <3>3
  <2>4. Entries(evlist')
    BY <1>1, <2>2, <2>3 DEF Entries
  <2>5. Ordered(evlist')
    <3>1. ASSUME NEW j \in 1..Len(evlist), NEW i \in 1..j - 1
          PROVE  Before(evlist'[i], evlist'[j])
      <4>1. i \in 1..Len(evlist) /\ Before(evlist[i], evlist[j])
        BY <1>1 DEF Ordered
      <4> QED
        BY <2>3, <4>1 DEF Before
    <3> QED
      BY <2>2, <3>1 DEF Ordered
  <2>6. WellFormed(List')
    BY <1>1, <1>2, <2>2, <2>4, <2>5 DEF WellFormed, List
  <2> QED
    BY <1>2, <2>2, <2>6 DEF IInv, trackVars
<1> QED
  BY <1>3, <1>4

-----------------------------------------------------------------------------
(* Every step keeps the list in order. *)
LEMMA NextOrdered == IInv /\ [Next]_vars => IInv'
<1> SUFFICES ASSUME IInv, [Next]_vars PROVE IInv'
  OBVIOUS
<1>1. ASSUME UNCHANGED <<setup, listVars, smf_at_time, beat>>
      PROVE  IInv'
  BY <1>1 DEF IInv, WellFormed, List, listVars
<1>2. CASE BeginTrack
  BY <1>2, BeginTrackStep
<1>3. CASE \E delta \in setup.deltas, e \in setup.events : ReadEvent(delta, e)
  BY <1>3, ReadEventStep
<1>4. CASE EndOfTrack
  BY <1>1, <1>4 DEF EndOfTrack
<1>5. CASE ReadError
  BY <1>1, <1>5 DEF ReadError, trackVars
<1>6. CASE EndOfFile
  BY <1>1, <1>6 DEF EndOfFile, trackVars
<1>7. CASE CollectSignature
  BY <1>7, CollectSignatureStep
<1>8. CASE InsertNoteSteps
  BY <1>8, InsertNoteStepsStep
<1>9. CASE Beat
  BY <1>9, BeatStep
<1>10. CASE BeatsEnd
  BY <1>1, <1>10 DEF BeatsEnd, trackVars
<1>11. CASE MoveChannels
  BY <1>11, MoveChannelsStep
<1>12. CASE GroomEvent
  BY <1>1, <1>12 DEF GroomEvent, trackVars
<1>13. CASE GroomEnd
  BY <1>1, <1>13 DEF GroomEnd, trackVars
<1>14. CASE UNCHANGED vars
  BY <1>1, <1>14 DEF vars, trackVars
<1> QED
  BY <1>2, <1>3, <1>4, <1>5, <1>6, <1>7, <1>8, <1>9, <1>10, <1>11, <1>12, <1>13,
     <1>14 DEF Next, Reading, Working

(* The order of the list, and where the insertion point and the working   *)
(* loops stand in it, hold in every state of readmidi.c modelled here.     *)
THEOREM Inductive == Spec => []IInv
<1>1. Init => IInv
  BY InitOrdered
<1>2. IInv /\ [Next]_vars => IInv'
  BY NextOrdered
<1> QED
  BY <1>1, <1>2, PTL DEF Spec

(* For every file, every number of tracks and ports, every limit of events *)
(* and every width of the times, the list the player gets its events from  *)
(* is in the order of time, and of reading among events of one time.       *)
THEOREM AlwaysInOrder == Spec => []InOrder
<1>1. IInv => InOrder
  BY DEF IInv, WellFormed, List, Ordered, InOrder
<1> QED
  BY <1>1, Inductive, PTL

(* The point readmidi_add_event() scans from stays on the list. *)
THEOREM PointOnList == Spec => [](current_midi_point \in 1..Len(evlist))
<1>1. IInv => current_midi_point \in 1..Len(evlist)
  BY DEF IInv, WellFormed, List
<1> QED
  BY <1>1, Inductive, PTL


-----------------------------------------------------------------------------
(* move_channels() *)
IsScan(after, n) ==
  after = [i \in 0..n |-> IF i = 0 THEN OwnSlots ELSE Look(after[i - 1], evlist[i])]

(* The loop that looks for channels comes to its end. *)
LEMMA ScanEnds ==
  ASSUME NEW n \in Nat
  PROVE  \E after : IsScan(after, n)
<1> DEFINE T == {m \in Nat : ~\E after : IsScan(after, m)}
<1> SUFFICES ASSUME T # {} PROVE FALSE
  OBVIOUS
<1>1. PICK m \in T : \A k \in T : m <= k
  BY LeastNatural
<1>2. m \in Nat /\ ~\E after : IsScan(after, m)
  OBVIOUS
<1>3. CASE m = 0
  <2> DEFINE after == [i \in 0..0 |-> OwnSlots]
  <2>1. IsScan(after, 0)
    BY DEF IsScan
  <2> QED
    BY <1>2, <1>3, <2>1
<1>4. CASE m # 0
  <2>1. m - 1 \in Nat /\ m - 1 \notin T
    BY <1>1, <1>2, <1>4
  <2>2. PICK before : IsScan(before, m - 1)
    BY <2>1
  <2> DEFINE after == [i \in 0..m |-> IF i = m THEN Look(before[m - 1], evlist[m])
                                      ELSE before[i]]
  <2>3. /\ before = [i \in 0..m - 1 |-> IF i = 0 THEN OwnSlots
                                        ELSE Look(before[i - 1], evlist[i])]
    BY <2>2 DEF IsScan
  <2>4. ASSUME NEW i \in 0..m
        PROVE  after[i] = IF i = 0 THEN OwnSlots ELSE Look(after[i - 1], evlist[i])
    <3>1. CASE i = m
      <4>1. after[m - 1] = before[m - 1] /\ m \in 0..m /\ m - 1 \in 0..m
        BY <1>2, <1>4
      <4> QED
        BY <1>4, <3>1, <4>1
    <3>2. CASE i # m /\ i # 0
      <4>1. /\ i \in 0..m - 1 /\ i - 1 \in 0..m - 1 /\ i - 1 \in 0..m /\ i - 1 # m
        BY <1>2, <3>2
      <4>2. after[i - 1] = before[i - 1] /\ after[i] = before[i]
        BY <3>2, <4>1
      <4> QED
        BY <2>3, <3>2, <4>1, <4>2
    <3>3. CASE i = 0
      <4>1. 0 \in 0..m - 1 /\ after[0] = before[0]
        BY <1>2, <1>4
      <4> QED
        BY <2>3, <3>3, <4>1
    <3> QED
      BY <3>1, <3>2, <3>3
  <2>5. after = [i \in 0..m |-> after[i]]
    OBVIOUS
  <2> HIDE DEF after
  <2>6. IsScan(after, m)
    BY <2>4, <2>5 DEF IsScan
  <2> QED
    BY <1>2, <2>6
<1> QED
  BY <1>3, <1>4

LEMMA ChidxScans ==
  ASSUME Len(evlist) \in Nat
  PROVE  \E after : IsScan(after, Len(evlist)) /\ Chidx = after[Len(evlist)]
<1> DEFINE after == CHOOSE f : f = [i \in 0..Len(evlist) |->
                       IF i = 0 THEN OwnSlots ELSE Look(f[i - 1], evlist[i])]
<1>1. Chidx = after[Len(evlist)]
  BY DEF Chidx
<1>2. \E f : f = [i \in 0..Len(evlist) |->
                       IF i = 0 THEN OwnSlots ELSE Look(f[i - 1], evlist[i])]
  BY ScanEnds DEF IsScan
<1>3. IsScan(after, Len(evlist))
  BY <1>2 DEF IsScan
<1> QED
  BY <1>1, <1>3

-----------------------------------------------------------------------------
(* Ports: a channel has its number on the first port, and the same number  *)
(* in each of the slots.                                                   *)
LEMMA NumberFacts ==
  /\ \A c \in Nat : Number(c) \in 0..REDUCE_CHANNELS - 1
  /\ \A c \in 0..REDUCE_CHANNELS - 1 : Number(c) = c
  /\ \A c \in 0..REDUCE_CHANNELS - 1 : Number(c + REDUCE_CHANNELS) = c
<1> DEFINE R == REDUCE_CHANNELS
<1>1. R \in Nat \ {0}
  BY ChannelsAssumption
<1> HIDE DEF R
<1>2. \A c \in Nat : c % R \in 0..R - 1
  BY <1>1
<1>3. \A c \in 0..R - 1 : c % R = c
  BY <1>1
<1>4. \A c \in 0..R - 1 : (c + R) % R = c
  BY <1>1
<1> QED
  BY <1>2, <1>3, <1>4 DEF R, Number

LEMMA SlotNumber ==
  ASSUME NEW c \in Nat
  PROVE  /\ c % MAX_CHANNELS \in 0..MAX_CHANNELS - 1
         /\ Number(c % MAX_CHANNELS) = Number(c)
<1> DEFINE R == REDUCE_CHANNELS
           m == c % (2 * R)
           q == c \div (2 * R)
<1>1. R \in Nat \ {0} /\ 2 * R \in Nat \ {0} /\ MAX_CHANNELS = 2 * R
  BY ChannelsAssumption
<1>2. m \in 0..2 * R - 1 /\ q \in Int /\ c = (2 * R) * q + m
  <2> DEFINE B == 2 * R
  <2>1. B \in Nat \ {0}
    BY <1>1
  <2> HIDE DEF B
  <2>2. c \div B \in Int /\ c % B \in 0..B - 1
    BY <2>1
  <2>3. c = B * (c \div B) + (c % B)
    BY <2>1
  <2> QED
    BY <2>2, <2>3 DEF B
<1> HIDE DEF R, m, q
<1>3. c = R * (2 * q) + m
  BY <1>1, <1>2
<1>4. 2 * q \in Int
  BY <1>2
<1>8. ASSUME NEW n \in Int
      PROVE  n \div R \in Int /\ n % R \in 0..R - 1 /\ n = R * (n \div R) + (n % R)
  <2>1. n \div R \in Int /\ n % R \in 0..R - 1
    BY <1>1
  <2>2. n = R * (n \div R) + (n % R)
    BY <1>1
  <2> QED
    BY <2>1, <2>2
<1>5. ASSUME NEW k \in Int, NEW n \in Int, NEW r \in 0..R - 1, n = R * k + r
      PROVE  n % R = r
  <2> DEFINE d == n \div R
             t == n % R
  <2>1. d \in Int /\ t \in 0..R - 1 /\ n = R * d + t
    BY <1>8
  <2> HIDE DEF d, t
  <2>2. R * k + r = R * d + t
    BY <1>5, <2>1
  <2>3. ~(d + 1 <= k)
    <3> SUFFICES ASSUME d + 1 <= k PROVE FALSE
      OBVIOUS
    <3>1. R * (d + 1) <= R * k
      BY <1>1, <2>1
    <3>2. R * (d + 1) = R * d + R
      BY <1>1, <2>1
    <3> QED
      BY <1>1, <2>1, <2>2, <3>1, <3>2
  <2>4. ~(k + 1 <= d)
    <3> SUFFICES ASSUME k + 1 <= d PROVE FALSE
      OBVIOUS
    <3>1. R * (k + 1) <= R * d
      BY <1>1, <2>1
    <3>2. R * (k + 1) = R * k + R
      BY <1>1
    <3> QED
      BY <1>1, <2>1, <2>2, <3>1, <3>2
  <2>5. k = d
    BY <2>1, <2>3, <2>4
  <2> QED
    BY <1>1, <2>1, <2>2, <2>5 DEF t
<1>6. CASE m < R
  <2>1. m \in 0..R - 1 /\ c \in Int
    BY <1>1, <1>2, <1>6
  <2>2. c % R = m
    BY <1>3, <1>4, <1>5, <2>1
  <2>3. m % R = m
    BY <1>1, <2>1
  <2> QED
    BY <1>1, <1>2, <2>2, <2>3 DEF Number, R, m
<1>7. CASE m >= R
  <2>1. m - R \in 0..R - 1 /\ c \in Int /\ 2 * q + 1 \in Int
    BY <1>1, <1>2, <1>4, <1>7
  <2>2. c = R * (2 * q + 1) + (m - R)
    BY <1>1, <1>2, <1>3, <1>4
  <2>3. c % R = m - R
    BY <1>5, <2>1, <2>2
  <2>4. m % R = m - R
    <3>1. m = R * 1 + (m - R) /\ m \in Int /\ 1 \in Int
      BY <1>1, <1>2
    <3> QED
      BY <1>5, <2>1, <3>1
  <2> QED
    BY <1>1, <1>2, <2>3, <2>4 DEF Number, R, m
<1> QED
  BY <1>1, <1>2, <1>6, <1>7

(* Another slot of the same number *)
LEMMA OtherSlot ==
  ASSUME NEW s \in 0..MAX_CHANNELS - 1
  PROVE  \E w \in 0..MAX_CHANNELS - 1 : w # s /\ Number(w) = Number(s)
<1>1. REDUCE_CHANNELS \in Nat \ {0} /\ MAX_CHANNELS = 2 * REDUCE_CHANNELS
  BY ChannelsAssumption
<1>2. CASE s < REDUCE_CHANNELS
  <2>1. s \in 0..REDUCE_CHANNELS - 1 /\ s + REDUCE_CHANNELS \in 0..MAX_CHANNELS - 1
    BY <1>1, <1>2
  <2>2. Number(s + REDUCE_CHANNELS) = Number(s)
    BY <2>1, NumberFacts
  <2> QED
    BY <1>1, <2>1, <2>2
<1>3. CASE s >= REDUCE_CHANNELS
  <2> DEFINE w == s - REDUCE_CHANNELS
  <2>1. w \in 0..REDUCE_CHANNELS - 1 /\ w \in 0..MAX_CHANNELS - 1
        /\ w + REDUCE_CHANNELS = s /\ w # s
    BY <1>1, <1>3
  <2>2. Number(w) = w /\ Number(w + REDUCE_CHANNELS) = w
    BY <2>1, NumberFacts
  <2> QED
    BY <2>1, <2>2
<1> QED
  BY <1>1, <1>2, <1>3

-----------------------------------------------------------------------------
(* What the loop of move_channels() keeps of chidx[]: a channel that has a *)
(* slot has one of its own number, whose entry is itself; a slot that is   *)
(* taken has a channel of the song; the used channels of the first port    *)
(* stay; and two channels of the song share a slot only when another slot  *)
(* of their number is taken as well.                                       *)
SlotsOf(x) == \A c \in Channels : x[c] # -1 => Number(x[c]) = Number(c) /\ x[x[c]] = x[c]
Taken(x) == \A s \in 0..MAX_CHANNELS - 1 :
              x[s] # -1 => x[s] = s /\ \E o \in Used : x[o] = s
FirstPort(x) == \A s \in Used : s < REDUCE_CHANNELS => x[s] = s
Crowded(x) ==
  \A c, d \in Used :
    c # d /\ x[c] = x[d] /\ x[c] # -1 =>
      \E w \in 0..MAX_CHANNELS - 1 : w # x[c] /\ Number(w) = Number(c) /\ x[w] # -1
Fair(x) ==
  /\ x \in [Channels -> -1..MAX_CHANNELS - 1]
  /\ SlotsOf(x) /\ Taken(x) /\ FirstPort(x) /\ Crowded(x)

LEMMA SlotsAreChannels ==
  /\ 0..MAX_CHANNELS - 1 \subseteq Channels /\ Channels \subseteq Nat
  /\ MAX_CHANNELS \in Nat \ {0} /\ REDUCE_CHANNELS \in Nat \ {0}
  /\ REDUCE_CHANNELS <= MAX_CHANNELS
BY ChannelsAssumption

LEMMA OwnSlotsFair ==
  ASSUME Used \subseteq Channels
  PROVE  Fair(OwnSlots)
<1> DEFINE x == OwnSlots
<1>1. /\ x = [c \in Channels |-> IF c \in Used /\ c < REDUCE_CHANNELS THEN c ELSE -1]
      /\ Channels \subseteq Nat
  BY SlotsAreChannels DEF OwnSlots
<1> HIDE DEF x
<1>2. \A c \in Channels : x[c] # -1 => c \in Used /\ c < REDUCE_CHANNELS /\ x[c] = c
  BY <1>1
<1>3. x \in [Channels -> -1..MAX_CHANNELS - 1]
  BY <1>1, SlotsAreChannels
<1>4. SlotsOf(x)
  BY <1>2 DEF SlotsOf
<1>5. Taken(x)
  <2> SUFFICES ASSUME NEW s \in 0..MAX_CHANNELS - 1, x[s] # -1
               PROVE  x[s] = s /\ \E o \in Used : x[o] = s
    BY DEF Taken
  <2>1. s \in Channels
    BY SlotsAreChannels
  <2> QED
    BY <1>2, <2>1
<1>6. FirstPort(x)
  BY <1>1 DEF FirstPort
<1>7. Crowded(x)
  BY <1>2 DEF Crowded
<1> QED
  BY <1>3, <1>4, <1>5, <1>6, <1>7 DEF Fair, x

(* A channel of the song that has no slot gets one *)
LEMMA AssignedFair ==
  ASSUME NEW x, Fair(x), Used \subseteq Channels, NEW ch \in Used, x[ch] = -1
  PROVE  /\ Fair(Assigned(x, ch))
         /\ Assigned(x, ch)[ch] # -1
         /\ \A c \in Channels : x[c] # -1 => Assigned(x, ch)[c] = x[c]
<1> DEFINE y == Assigned(x, ch)
           free == Slots(x, ch)
           first == CHOOSE s \in free : \A t \in free : s <= t
<1>1. /\ x \in [Channels -> -1..MAX_CHANNELS - 1]
      /\ ch \in Channels /\ ch \in Nat /\ 0..MAX_CHANNELS - 1 \subseteq Channels
  BY SlotsAreChannels DEF Fair
<1>2. /\ \A c \in Channels : x[c] # -1 => Number(x[c]) = Number(c) /\ x[x[c]] = x[c]
      /\ \A s \in 0..MAX_CHANNELS - 1 : x[s] # -1 => x[s] = s /\ \E o \in Used : x[o] = s
      /\ \A s \in Used : s < REDUCE_CHANNELS => x[s] = s
      /\ \A c, d \in Used :
           c # d /\ x[c] = x[d] /\ x[c] # -1 =>
             \E w \in 0..MAX_CHANNELS - 1 : w # x[c] /\ Number(w) = Number(c) /\ x[w] # -1
  BY DEF Fair, SlotsOf, Taken, FirstPort, Crowded
<1>3. y = IF ch < MAX_CHANNELS THEN [x EXCEPT ![ch] = ch]
          ELSE IF free # {} THEN [x EXCEPT ![ch] = first, ![first] = first]
          ELSE [x EXCEPT ![ch] = ch % MAX_CHANNELS]
  BY DEF Assigned
<1>4. free = {s \in 0..MAX_CHANNELS - 1 : Number(s) = Number(ch) /\ x[s] = -1}
  BY DEF Slots, Number
<1>5. free # {} => first \in free /\ \A t \in free : first <= t
  <2> SUFFICES ASSUME free # {} PROVE \E s \in free : \A t \in free : s <= t
    OBVIOUS
  <2>1. free \in SUBSET Nat
    BY <1>4, SlotsAreChannels
  <2> QED
    BY <2>1, LeastNatural
<1> HIDE DEF y, free, first
(* what is common: ch gets the slot s, which may have been free *)
<1>6. ASSUME NEW s \in 0..MAX_CHANNELS - 1, Number(s) = Number(ch),
             y \in [Channels -> -1..MAX_CHANNELS - 1], y[ch] = s, y[s] = s,
             \A c \in Channels : c # ch /\ c # s => y[c] = x[c],
             x[s] = -1 \/ x[s] = s,
             ch # s => ch >= MAX_CHANNELS,
             ch # s => \/ s \notin Used /\ x[s] = -1
                       \/ \E w \in 0..MAX_CHANNELS - 1 :
                            w # s /\ Number(w) = Number(ch) /\ x[w] # -1
      PROVE  Fair(y) /\ y[ch] # -1 /\ \A c \in Channels : x[c] # -1 => y[c] = x[c]
  <2>1. s # -1 /\ s \in Channels /\ \A c \in Used : c \in Channels
    BY <1>1, SlotsAreChannels
  <2>2. \A c \in Channels : x[c] # -1 => y[c] = x[c]
    BY <1>6, <2>1
  <2>3. SlotsOf(y)
    <3> SUFFICES ASSUME NEW c \in Channels, y[c] # -1
                 PROVE  Number(y[c]) = Number(c) /\ y[y[c]] = y[c]
      BY DEF SlotsOf
    <3>1. CASE c = ch \/ c = s
      BY <1>6, <3>1
    <3>2. CASE c # ch /\ c # s
      <4>1. y[c] = x[c] /\ x[c] # -1
        BY <1>6, <3>2
      <4>2. Number(x[c]) = Number(c) /\ x[x[c]] = x[c] /\ x[c] \in 0..MAX_CHANNELS - 1
        BY <1>1, <1>2, <4>1, SlotsAreChannels
      <4>3. x[c] \in Channels /\ x[x[c]] # -1
        BY <1>1, <4>1, <4>2
      <4> QED
        BY <2>2, <4>1, <4>2, <4>3
    <3> QED
      BY <3>1, <3>2
  <2>4. Taken(y)
    <3> SUFFICES ASSUME NEW t \in 0..MAX_CHANNELS - 1, y[t] # -1
                 PROVE  y[t] = t /\ \E o \in Used : y[o] = t
      BY DEF Taken
    <3>1. CASE t = s
      BY <1>6, <3>1
    <3>2. CASE t # s /\ t = ch
      BY <1>1, <1>6, <3>2, SlotsAreChannels
    <3>3. CASE t # s /\ t # ch
      <4>1. y[t] = x[t] /\ t \in Channels
        BY <1>1, <1>6, <3>3
      <4>2. PICK o \in Used : x[t] = t /\ x[o] = t
        BY <1>2, <4>1
      <4>3. y[o] = t
        BY <2>1, <2>2, <4>2, SlotsAreChannels
      <4> QED
        BY <4>1, <4>2, <4>3
    <3> QED
      BY <3>1, <3>2, <3>3
  <2>5. FirstPort(y)
    BY <1>2, <2>1, <2>2, SlotsAreChannels DEF FirstPort
  <2>6. Crowded(y)
    <3> SUFFICES ASSUME NEW c \in Used, NEW d \in Used, c # d, y[c] = y[d], y[c] # -1
                 PROVE  \E w \in 0..MAX_CHANNELS - 1 :
                          w # y[c] /\ Number(w) = Number(c) /\ y[w] # -1
      BY DEF Crowded
    <3>1. c \in Channels /\ d \in Channels
      BY <2>1
    <3>2. CASE y[c] = s
      <4>1. ch # s /\ ~(s \notin Used /\ x[s] = -1)
        <5> SUFFICES ASSUME ch = s \/ (s \notin Used /\ x[s] = -1) PROVE FALSE
          OBVIOUS
        <5>1. PICK e \in {c, d} : e # ch
          OBVIOUS
        <5>2. e # s /\ e \in Channels /\ y[e] = s /\ x[s] = -1
          BY <3>1, <3>2, <5>1
        <5>3. x[e] = s
          BY <1>6, <5>1, <5>2
        <5>4. x[s] = s
          BY <1>2, <2>1, <5>2, <5>3
        <5> QED
          BY <2>1, <5>2, <5>4
      <4>2. PICK w \in 0..MAX_CHANNELS - 1 : w # s /\ Number(w) = Number(ch) /\ x[w] # -1
        BY <1>6, <4>1
      <4>3. Number(c) = Number(ch)
        BY <1>6, <2>3, <3>1, <3>2 DEF SlotsOf
      <4>4. y[w] # -1
        BY <1>1, <2>2, <4>2
      <4> QED
        BY <3>2, <4>2, <4>3, <4>4
    <3>3. CASE y[c] # s
      <4>1. y[c] = x[c] /\ y[d] = x[d]
        BY <1>6, <3>1, <3>3
      <4>2. PICK w \in 0..MAX_CHANNELS - 1 : w # x[c] /\ Number(w) = Number(c) /\ x[w] # -1
        BY <1>2, <4>1
      <4>3. y[w] # -1
        BY <1>1, <2>2, <4>2
      <4> QED
        BY <4>1, <4>2, <4>3
    <3> QED
      BY <3>2, <3>3
  <2> QED
    BY <1>6, <2>1, <2>2, <2>3, <2>4, <2>5, <2>6 DEF Fair
<1>7. CASE ch < MAX_CHANNELS
  <2>1. y = [x EXCEPT ![ch] = ch] /\ ch \in 0..MAX_CHANNELS - 1
    BY <1>1, <1>3, <1>7, SlotsAreChannels
  <2>2. y \in [Channels -> -1..MAX_CHANNELS - 1]
    BY <1>1, <2>1, SlotsAreChannels
  <2>3. y[ch] = ch /\ \A c \in Channels : c # ch => y[c] = x[c]
    BY <1>1, <2>1
  <2> QED
    BY <1>6, <2>1, <2>2, <2>3 DEF y
<1>8. CASE ch >= MAX_CHANNELS /\ free # {}
  <2>1. /\ first \in 0..MAX_CHANNELS - 1 /\ Number(first) = Number(ch)
        /\ x[first] = -1 /\ first # ch
    BY <1>1, <1>4, <1>5, <1>8, SlotsAreChannels
  <2>2. y = [x EXCEPT ![ch] = first, ![first] = first]
    BY <1>1, <1>3, <1>8, SlotsAreChannels
  <2>3. y \in [Channels -> -1..MAX_CHANNELS - 1]
    BY <1>1, <2>1, <2>2, SlotsAreChannels
  <2>4. /\ y[ch] = first /\ y[first] = first
        /\ \A c \in Channels : c # ch /\ c # first => y[c] = x[c]
    BY <1>1, <2>1, <2>2
  <2>5. first \in Used =>
          \E w \in 0..MAX_CHANNELS - 1 : w # first /\ Number(w) = Number(ch) /\ x[w] # -1
    <3> SUFFICES ASSUME first \in Used
                 PROVE  \E w \in 0..MAX_CHANNELS - 1 :
                          w # first /\ Number(w) = Number(ch) /\ x[w] # -1
      OBVIOUS
    <3>1. first >= REDUCE_CHANNELS /\ first \in Nat
      BY <1>2, <2>1, SlotsAreChannels
    <3> DEFINE w == Number(ch)
    <3>2. w \in 0..REDUCE_CHANNELS - 1 /\ Number(w) = w
      BY <1>1, NumberFacts
    <3> HIDE DEF w
    <3>3. w \in 0..MAX_CHANNELS - 1 /\ w < first
      BY <3>1, <3>2, SlotsAreChannels
    <3>4. w \notin free
      BY <1>5, <1>8, <3>1, <3>3, SlotsAreChannels
    <3> QED
      BY <1>4, <3>2, <3>3, <3>4 DEF w
  <2> QED
    BY <1>6, <1>8, <2>1, <2>3, <2>4, <2>5 DEF y
<1>9. CASE ch >= MAX_CHANNELS /\ free = {}
  <2> DEFINE s == ch % MAX_CHANNELS
  <2>1. s \in 0..MAX_CHANNELS - 1 /\ Number(s) = Number(ch)
    BY <1>1, SlotNumber
  <2>2. y = [x EXCEPT ![ch] = s]
    BY <1>1, <1>3, <1>9, SlotsAreChannels
  <2> HIDE DEF s
  <2>3. \A w \in 0..MAX_CHANNELS - 1 : Number(w) = Number(ch) => x[w] # -1
    BY <1>4, <1>9
  <2>4. x[s] = s /\ s # ch
    BY <1>1, <1>2, <1>9, <2>1, <2>3, SlotsAreChannels
  <2>5. y \in [Channels -> -1..MAX_CHANNELS - 1]
    BY <1>1, <2>1, <2>2, SlotsAreChannels
  <2>6. /\ y[ch] = s /\ y[s] = s /\ \A c \in Channels : c # ch => y[c] = x[c]
    BY <1>1, <2>1, <2>2, <2>4
  <2>7. \E w \in 0..MAX_CHANNELS - 1 : w # s /\ Number(w) = Number(ch) /\ x[w] # -1
    BY <2>1, <2>3, OtherSlot
  <2> QED
    BY <1>6, <1>9, <2>1, <2>4, <2>5, <2>6, <2>7 DEF y
<1> QED
  BY <1>1, <1>7, <1>8, <1>9, SlotsAreChannels DEF y

(* The list holds events a file may hold, each with a number of its own.   *)
Proper(e) ==
  /\ OfChannel(e) => e.ch \in Channels
  /\ e.kind = "tempo" => e.val \in Nat
  /\ e.kind # "eot"
AllProper(events) == \A i \in 1..Len(events) : Proper(events[i])
Distinct(events) ==
  \A i, j \in 1..Len(events) : events[i].order = events[j].order => i = j
Sound == AllProper(evlist) /\ Distinct(evlist)

(* Each round of the loop keeps chidx[] fair, and the channels looked at   *)
(* so far have a slot.                                                     *)
SeenUpTo(x, n) == \A j \in 1..n : OfChannel(evlist[j]) => x[evlist[j].ch] # -1

LEMMA UsedChannels ==
  ASSUME Sound
  PROVE  /\ Used \subseteq Channels
         /\ \A i \in 1..Len(evlist) : OfChannel(evlist[i]) => evlist[i].ch \in Used
BY DEF Sound, AllProper, Proper, Used

LEMMA LookFair ==
  ASSUME Sound, Len(evlist) \in Nat, NEW i \in 1..Len(evlist),
         NEW x, Fair(x), SeenUpTo(x, i - 1)
  PROVE  Fair(Look(x, evlist[i])) /\ SeenUpTo(Look(x, evlist[i]), i)
<1> DEFINE ch == evlist[i].ch
           y == Look(x, evlist[i])
<1>1. \A j \in 1..i : j \in 1..Len(evlist) /\ (j = i \/ j \in 1..i - 1)
  OBVIOUS
<1>2. CASE OfChannel(evlist[i]) /\ x[ch] = -1
  <2>1. y = Assigned(x, ch) /\ ch \in Used /\ Used \subseteq Channels
    BY <1>2, UsedChannels DEF Look
  <2>2. /\ Fair(y) /\ y[ch] # -1
        /\ \A c \in Channels : x[c] # -1 => y[c] = x[c]
    BY <1>2, <2>1, AssignedFair
  <2> HIDE DEF y
  <2>3. SeenUpTo(y, i)
    BY <1>1, <2>1, <2>2, UsedChannels DEF SeenUpTo
  <2> QED
    BY <2>2, <2>3 DEF y
<1>3. CASE ~(OfChannel(evlist[i]) /\ x[ch] = -1)
  <2>1. y = x
    BY <1>3 DEF Look
  <2>2. SeenUpTo(x, i)
    BY <1>1, <1>3 DEF SeenUpTo
  <2> QED
    BY <2>1, <2>2
<1> QED
  BY <1>2, <1>3

LEMMA ChidxFair ==
  ASSUME Sound, Len(evlist) \in Nat
  PROVE  Fair(Chidx) /\ SeenUpTo(Chidx, Len(evlist))
<1> DEFINE n == Len(evlist)
<1>1. PICK after : IsScan(after, n) /\ Chidx = after[n]
  BY ChidxScans
<1>2. \A i \in 0..n : after[i] = IF i = 0 THEN OwnSlots ELSE Look(after[i - 1], evlist[i])
  BY <1>1 DEF IsScan
<1> DEFINE Good(i) == Fair(after[i]) /\ SeenUpTo(after[i], i)
           T == {i \in Nat : i <= n /\ ~Good(i)}
<1>3. n \in Nat
  OBVIOUS
<1> HIDE DEF n
<1>4. T = {}
  <2> SUFFICES ASSUME T # {} PROVE FALSE
    OBVIOUS
  <2>1. PICK m \in T : \A k \in T : m <= k
    BY LeastNatural
  <2>2. m \in Nat /\ m <= n /\ ~Good(m)
    BY <2>1
  <2>3. CASE m = 0
    <3>1. after[0] = OwnSlots
      BY <1>2, <1>3
    <3>2. Fair(OwnSlots)
      BY OwnSlotsFair, UsedChannels
    <3>3. SeenUpTo(OwnSlots, 0)
      BY DEF SeenUpTo
    <3> QED
      BY <2>2, <2>3, <3>1, <3>2, <3>3
  <2>4. CASE m # 0
    <3>1. m \in 1..n /\ m \in 0..n /\ m - 1 \in Nat /\ m - 1 <= n /\ ~(m <= m - 1)
      BY <1>3, <2>2, <2>4
    <3>2. Good(m - 1)
      BY <2>1, <3>1
    <3>3. after[m] = Look(after[m - 1], evlist[m])
      BY <1>2, <2>4, <3>1
    <3>4. Fair(after[m]) /\ SeenUpTo(after[m], m)
      BY <3>1, <3>2, <3>3, LookFair DEF n
    <3> QED
      BY <2>2, <3>4
  <2> QED
    BY <2>3, <2>4
<1>5. Good(n)
  BY <1>3, <1>4
<1> QED
  BY <1>1, <1>5 DEF n

(* Three channels of one number are more than there are ports. *)
LEMMA ThreeShare ==
  ASSUME Len(evlist) \in Nat, Sound,
         NEW c \in Used, NEW d \in Used, NEW o \in Used, c # d, c # o, d # o,
         Number(d) = Number(c), Number(o) = Number(c)
  PROVE  Cardinality(Sharing(c)) > MAX_CHANNELS \div REDUCE_CHANNELS
<1>1. IsFiniteSet(Used)
  <2> DEFINE I == {j \in 1..Len(evlist) : OfChannel(evlist[j])}
             f == [i \in I |-> evlist[i].ch]
  <2>1. IsFiniteSet(I)
    <3>1. IsFiniteSet(1..Len(evlist))
      BY FS_Interval
    <3>2. I \in SUBSET (1..Len(evlist))
      OBVIOUS
    <3> QED
      BY <3>1, <3>2, FS_Subset
  <2>2. f \in Surjection(I, Used)
    BY DEF Surjection, Used
  <2> QED
    BY <2>1, <2>2, FS_Surjection
<1>2. IsFiniteSet(Sharing(c)) /\ {c, d, o} \subseteq Sharing(c)
  <2>1. Sharing(c) \subseteq Used /\ {c, d, o} \subseteq Sharing(c)
    BY DEF Sharing
  <2> QED
    BY <1>1, <2>1, FS_Subset
<1>3. Cardinality({c, d, o}) = 3
  <2> DEFINE one == {c}
             two == one \cup {d}
             three == two \cup {o}
  <2>1. IsFiniteSet(one) /\ Cardinality(one) = 1
    BY FS_Singleton
  <2>2. d \notin one /\ o \notin two
    OBVIOUS
  <2> HIDE DEF one
  <2>3. IsFiniteSet(two) /\ Cardinality(two) = Cardinality(one) + 1
    BY <2>1, <2>2, FS_AddElement
  <2> HIDE DEF two
  <2>4. Cardinality(three) = Cardinality(two) + 1
    BY <2>2, <2>3, FS_AddElement
  <2>5. three = {c, d, o}
    BY DEF one, two
  <2> HIDE DEF three
  <2>6. Cardinality(three) = 3
    BY <2>1, <2>3, <2>4
  <2> QED
    BY <2>5, <2>6
<1>4. Cardinality(Sharing(c)) \in Nat /\ Cardinality({c, d, o}) <= Cardinality(Sharing(c))
  BY <1>2, FS_Subset, FS_CardinalityType
<1>5. MAX_CHANNELS \div REDUCE_CHANNELS = 2
  <2>1. \A R \in Nat \ {0} : (2 * R) \div R = 2
    OBVIOUS
  <2> QED
    BY <2>1, ChannelsAssumption
<1> QED
  BY <1>3, <1>4, <1>5

(* What move_channels() does to the channels *)
LEMMA MoveGood ==
  ASSUME IInv, Sound, MoveChannels, evlist' # evlist
  PROVE  MovedWell
<1> DEFINE x == Chidx
           I == {k \in 1..Len(evlist) : OfChannel(evlist[k])}
<1>1. /\ Entries(evlist) /\ Len(evlist) \in Nat
  BY ListFacts DEF IInv
<1>2. Fair(x) /\ SeenUpTo(x, Len(evlist))
  BY <1>1, ChidxFair
<1>3. evlist' = [i \in 1..Len(evlist) |->
                   IF OfChannel(evlist[i]) THEN [evlist[i] EXCEPT !.ch = x[@]]
                   ELSE evlist[i]]
  BY DEF MoveChannels
<1> HIDE DEF x
<1>4. ASSUME NEW i \in I
      PROVE  /\ evlist'[i].ch = x[evlist[i].ch] /\ evlist[i].ch \in Used
             /\ evlist[i].ch \in Channels /\ x[evlist[i].ch] # -1
             /\ x[evlist[i].ch] \in 0..MAX_CHANNELS - 1
  <2>1. IsEntry(evlist[i])
    BY <1>1 DEF Entries
  <2>2. evlist'[i] = [evlist[i] EXCEPT !.ch = x[evlist[i].ch]]
    BY <1>3
  <2>3. evlist'[i].ch = x[evlist[i].ch]
    BY <2>1, <2>2 DEF IsEntry
  <2>4. evlist[i].ch \in Used /\ evlist[i].ch \in Channels /\ x[evlist[i].ch] # -1
    BY <1>2, UsedChannels DEF SeenUpTo
  <2>5. x[evlist[i].ch] \in -1..MAX_CHANNELS - 1
    BY <1>2, <2>4 DEF Fair
  <2> QED
    BY <2>3, <2>4, <2>5, SlotsAreChannels
<1> SUFFICES ASSUME NEW i \in I, NEW j \in I
             PROVE  LET c == evlist[i].ch  d == evlist[j].ch
                        c1 == evlist'[i].ch  d1 == evlist'[j].ch
                    IN  /\ Number(c1) = Number(c) /\ c1 < MAX_CHANNELS
                        /\ c < REDUCE_CHANNELS => c1 = c
                        /\ c = d => c1 = d1
                        /\ c # d /\ c1 = d1 =>
                             Cardinality(Sharing(c)) > MAX_CHANNELS \div REDUCE_CHANNELS
  BY DEF MovedWell
<1> DEFINE c == evlist[i].ch
           d == evlist[j].ch
<1>5. /\ evlist'[i].ch = x[c] /\ evlist'[j].ch = x[d] /\ c \in Used /\ d \in Used
      /\ c \in Channels /\ d \in Channels /\ x[c] # -1 /\ x[d] # -1
      /\ x[c] \in 0..MAX_CHANNELS - 1 /\ x[d] \in 0..MAX_CHANNELS - 1
  BY <1>4
<1> HIDE DEF c, d
<1>6. Number(x[c]) = Number(c) /\ Number(x[d]) = Number(d)
  BY <1>2, <1>5 DEF Fair, SlotsOf
<1>7. x[c] < MAX_CHANNELS
  BY <1>5, SlotsAreChannels
<1>8. c < REDUCE_CHANNELS => x[c] = c
  BY <1>2, <1>5 DEF Fair, FirstPort
<1>9. ASSUME c # d, x[c] = x[d]
      PROVE  Cardinality(Sharing(c)) > MAX_CHANNELS \div REDUCE_CHANNELS
  <2>1. PICK w \in 0..MAX_CHANNELS - 1 : w # x[c] /\ Number(w) = Number(c) /\ x[w] # -1
    BY <1>2, <1>5, <1>9 DEF Fair, Crowded
  <2>2. PICK o \in Used : x[o] = w
    BY <1>2, <2>1 DEF Fair, Taken
  <2>3. o \in Channels /\ x[o] # -1
    BY <2>1, <2>2, SlotsAreChannels, UsedChannels
  <2>4. Number(o) = Number(c) /\ Number(d) = Number(c)
    BY <1>2, <1>6, <1>9, <2>1, <2>2, <2>3 DEF Fair, SlotsOf
  <2>5. c # o /\ d # o
    BY <1>9, <2>1, <2>2
  <2> QED
    BY <1>1, <1>5, <1>9, <2>4, <2>5, ThreeShare
<1> QED
  BY <1>5, <1>6, <1>7, <1>8, <1>9 DEF c, d

-----------------------------------------------------------------------------
(* readmidi_add_event() keeps the events what they are. *)
SoundList(l) == WellFormed(l) /\ AllProper(l.events) /\ Distinct(l.events)

LEMMA AddSoundList ==
  ASSUME NEW l, SoundList(l), NEW at \in Int, NEW e, Wanted(e), Proper(e)
  PROVE  SoundList(Add(l, at, e))
<1>1. /\ WellFormed(l) /\ AllProper(l.events) /\ WellFormed(Add(l, at, e))
      /\ Distinct(l.events)
  BY AddKeepsOrder DEF SoundList
<1>2. /\ Entries(l.events) /\ Ordered(l.events) /\ l.point \in 1..Len(l.events)
      /\ Len(l.events) \in Nat
  BY <1>1, Length DEF WellFormed
<1>3. CASE l.error
  BY <1>1, <1>3 DEF Add, SoundList
<1>4. CASE ~l.error /\ Len(l.events) >= MAX_MIDI_EVENT
  <2>1. Add(l, at, e) = [l EXCEPT !.error = TRUE]
    BY <1>4 DEF Add
  <2>2. Add(l, at, e) = [events |-> l.events, point |-> l.point, error |-> TRUE]
    BY <1>1, <2>1 DEF WellFormed
  <2> QED
    BY <1>1, <2>2 DEF SoundList
<1>5. CASE ~l.error /\ ~(Len(l.events) >= MAX_MIDI_EVENT)
  <2> DEFINE time == NotBelow0(at)
             p == Place(l.events, l.point, time)
             r == [kind |-> e.kind, ch |-> e.ch, val |-> e.val, time |-> time,
                   order |-> Len(l.events) + 1]
             new == Inserted(l.events, p, r)
  <2>1. Add(l, at, e).events = new
    BY <1>5 DEF Add
  <2>2. time \in Nat
    BY DEF NotBelow0
  <2> HIDE DEF time
  <2>3. p \in 0..Len(l.events)
    BY <1>2, <2>2, PlaceSplits
  <2>4. Proper(r) /\ r.order = Len(l.events) + 1
    BY DEF Proper, OfChannel, GLOBAL_CHANNEL_EVENT_TYPE
  <2> HIDE DEF p, r
  <2>5. /\ Len(new) = Len(l.events) + 1
        /\ \A i \in 1..Len(l.events) + 1 :
             new[i] = IF i <= p THEN l.events[i]
                      ELSE IF i = p + 1 THEN r ELSE l.events[i - 1]
    BY <1>2 DEF Inserted
  <2>6. ASSUME NEW i \in 1..Len(l.events) + 1
        PROVE  Proper(new[i])
    <3>1. CASE i <= p
      <4>1. i \in 1..Len(l.events) /\ new[i] = l.events[i]
        BY <1>2, <2>3, <2>5, <3>1
      <4> QED
        BY <1>1, <4>1 DEF AllProper, Proper
    <3>2. CASE i = p + 1
      <4>1. new[i] = r
        BY <2>3, <2>5, <3>2
      <4> QED
        BY <2>4, <4>1
    <3>3. CASE i > p + 1
      <4>1. i - 1 \in 1..Len(l.events) /\ new[i] = l.events[i - 1]
        BY <1>2, <2>3, <2>5, <3>3
      <4> QED
        BY <1>1, <4>1 DEF AllProper, Proper
    <3> QED
      BY <2>3, <3>1, <3>2, <3>3
  <2> HIDE DEF new
  <2>7. AllProper(new)
    BY <2>5, <2>6 DEF AllProper, Proper
  <2>8. Distinct(new)
    <3> SUFFICES ASSUME NEW i \in 1..Len(l.events) + 1, NEW j \in 1..Len(l.events) + 1,
                        new[i].order = new[j].order
                 PROVE  i = j
      BY <2>5 DEF Distinct
    <3> DEFINE from(k) == IF k <= p THEN k ELSE k - 1
    <3>1. ASSUME NEW k \in 1..Len(l.events) + 1, k # p + 1
          PROVE  /\ from(k) \in 1..Len(l.events) /\ new[k] = l.events[from(k)]
                 /\ new[k].order \in 1..Len(l.events)
      <4>1. from(k) \in 1..Len(l.events) /\ new[k] = l.events[from(k)]
        BY <1>2, <2>3, <2>5, <3>1
      <4> QED
        BY <1>2, <4>1 DEF Entries
    <3>2. p + 1 \in 1..Len(l.events) + 1 /\ new[p + 1].order = Len(l.events) + 1
      BY <1>2, <2>3, <2>4, <2>5
    <3>3. CASE i # p + 1 /\ j # p + 1
      <4> DEFINE a == from(i)
                 b == from(j)
      <4>1. /\ a \in 1..Len(l.events) /\ new[i] = l.events[a]
            /\ b \in 1..Len(l.events) /\ new[j] = l.events[b]
        BY <3>1, <3>3
      <4> HIDE DEF a, b
      <4>2. a = b
        BY <1>1, <4>1 DEF Distinct
      <4> QED
        BY <1>2, <2>3, <3>3, <4>2 DEF a, b
    <3>4. CASE i = p + 1 \/ j = p + 1
      BY <1>2, <3>1, <3>2, <3>4
    <3> QED
      BY <3>3, <3>4
  <2> QED
    BY <1>1, <2>1, <2>7, <2>8 DEF SoundList
<1> QED
  BY <1>3, <1>4, <1>5

LEMMA SoundListIsKept ==
  ASSUME NEW l, SoundList(l), ListIs(l)
  PROVE  Sound'
BY DEF ListIs, SoundList, Sound, AllProper, Proper, Distinct, OfChannel,
       GLOBAL_CHANNEL_EVENT_TYPE

LEMMA ReadEventSound ==
  ASSUME IInv, Sound, NEW delta \in setup.deltas, NEW e \in setup.events,
         ReadEvent(delta, e)
  PROVE  Sound'
<1> DEFINE at == Wrapped(smf_at_time + delta)
           quietly == e.kind = "on" /\ ~note_seen /\ at > 0
           one == Add(List, 0, Note("on", e.ch))
           two == Add(one, 0, Note("off", e.ch))
           before == IF quietly THEN Silent(List, e.ch) ELSE List
           with == Add(before, at, e)
           after == IF e.kind = "sig" THEN Add(with, at, [e EXCEPT !.ch = 1]) ELSE with
<1>1. ListIs(after)
  BY DEF ReadEvent
<1>2. at \in Int
  <2>1. smf_at_time + delta \in Int
    BY DEF IInv, Setup
  <2> QED
    BY <2>1, WrappedType
<1>3. Wanted(e) /\ Wanted([e EXCEPT !.ch = 1])
  BY WantedInFile DEF IInv
<1>4. e \in ([kind: {"on", "off"}, ch: Channels, val: {0}]
             \cup [kind: {"tempo"}, ch: {0}, val: Nat]
             \cup [kind: {"sig"}, ch: {0}, val: Signature]
             \cup [kind: {"text"}, ch: {0}, val: {0}])
  BY DEF IInv, Setup
<1>5. Proper(e) /\ (e.kind = "on" => e.ch \in Channels)
  BY <1>4 DEF Proper, OfChannel, GLOBAL_CHANNEL_EVENT_TYPE
<1>6. e.kind = "sig" => Proper([e EXCEPT !.ch = 1])
  <2>1. [e EXCEPT !.ch = 1].kind = e.kind
    BY <1>4
  <2> QED
    BY <2>1 DEF Proper, OfChannel, GLOBAL_CHANNEL_EVENT_TYPE
<1>7. SoundList(List)
  BY DEF IInv, SoundList, Sound, List
<1> HIDE DEF at
<1>8. SoundList(before)
  <2>1. CASE quietly
    <3>1. /\ Wanted(Note("on", e.ch)) /\ Wanted(Note("off", e.ch))
          /\ Proper(Note("on", e.ch)) /\ Proper(Note("off", e.ch))
      BY <1>5, <2>1 DEF Wanted, Proper, Note
    <3>2. SoundList(one)
      BY <1>7, <3>1, AddSoundList
    <3> HIDE DEF one
    <3>3. SoundList(two)
      BY <3>1, <3>2, AddSoundList
    <3>4. before = two
      BY <2>1 DEF Silent, one
    <3> QED
      BY <3>3, <3>4
  <2>2. CASE ~quietly
    BY <1>7, <2>2
  <2> QED
    BY <2>1, <2>2
<1> HIDE DEF before
<1>9. SoundList(with)
  BY <1>2, <1>3, <1>5, <1>8, AddSoundList
<1> HIDE DEF with
<1>10. SoundList(after)
  BY <1>2, <1>3, <1>6, <1>9, AddSoundList
<1> QED
  BY <1>1, <1>10, SoundListIsKept

LEMMA MoveChannelsSound == IInv /\ Sound /\ MoveChannels => Sound'
<1> SUFFICES ASSUME IInv, Sound, MoveChannels PROVE Sound'
  OBVIOUS
<1>1. CASE UNCHANGED evlist
  BY <1>1 DEF Sound, AllProper, Proper, Distinct, OfChannel, GLOBAL_CHANNEL_EVENT_TYPE
<1>2. CASE ~UNCHANGED evlist
  <2> DEFINE x == Chidx
  <2>1. /\ Entries(evlist) /\ Len(evlist) \in Nat
        /\ Fair(x) /\ SeenUpTo(x, Len(evlist))
    BY ListFacts, ChidxFair DEF IInv
  <2>2. evlist' = [i \in 1..Len(evlist) |->
                     IF OfChannel(evlist[i]) THEN [evlist[i] EXCEPT !.ch = x[@]]
                     ELSE evlist[i]]
    BY <1>2 DEF MoveChannels
  <2> HIDE DEF x
  <2>3. Len(evlist') = Len(evlist)
    BY <2>1, <2>2
  <2>4. ASSUME NEW i \in 1..Len(evlist)
        PROVE  /\ evlist'[i].kind \in {"on", "off"} => evlist'[i].ch \in Channels
               /\ evlist'[i].kind = evlist[i].kind /\ evlist'[i].val = evlist[i].val
               /\ evlist'[i].order = evlist[i].order
    <3>1. IsEntry(evlist[i])
      BY <2>1 DEF Entries
    <3>2. CASE OfChannel(evlist[i])
      <4>1. evlist'[i] = [evlist[i] EXCEPT !.ch = x[evlist[i].ch]]
        BY <2>2, <3>2
      <4>2. /\ evlist'[i].ch = x[evlist[i].ch]
            /\ evlist'[i].kind = evlist[i].kind /\ evlist'[i].val = evlist[i].val
            /\ evlist'[i].order = evlist[i].order
        BY <3>1, <4>1 DEF IsEntry
      <4>3. evlist[i].ch \in Channels /\ x[evlist[i].ch] # -1
        BY <2>1, <3>2, UsedChannels DEF SeenUpTo
      <4>4. x[evlist[i].ch] \in -1..MAX_CHANNELS - 1
        BY <2>1, <4>3 DEF Fair
      <4> QED
        BY <4>2, <4>3, <4>4, SlotsAreChannels
    <3>3. CASE ~OfChannel(evlist[i])
      BY <2>2, <3>3 DEF OfChannel, GLOBAL_CHANNEL_EVENT_TYPE
    <3> QED
      BY <3>2, <3>3
  <2> QED
    BY <2>3, <2>4 DEF Sound, AllProper, Proper, Distinct, OfChannel,
                      GLOBAL_CHANNEL_EVENT_TYPE
<1> QED
  BY <1>1, <1>2

LEMMA NextSound == IInv /\ Sound /\ [Next]_vars => Sound'
<1> SUFFICES ASSUME IInv, Sound, [Next]_vars PROVE Sound'
  OBVIOUS
<1>1. ASSUME UNCHANGED evlist PROVE Sound'
  BY <1>1 DEF Sound, AllProper, OfChannel, GLOBAL_CHANNEL_EVENT_TYPE
<1>2. CASE \E delta \in setup.deltas, e \in setup.events : ReadEvent(delta, e)
  BY <1>2, ReadEventSound
<1>3. CASE Beat
  <2> DEFINE b == Adopted(beat)
  <2>1. ListIs(Add(List, beat.at, Step(b)))
    BY <1>3 DEF Beat
  <2>2. Wanted(Step(b)) /\ Proper(Step(b))
    BY DEF Wanted, Proper, OfChannel, GLOBAL_CHANNEL_EVENT_TYPE, Step, Meta
  <2>3. SoundList(List) /\ beat.at \in Int
    BY DEF IInv, SoundList, Sound, List, BeatState
  <2> HIDE DEF b
  <2> QED
    BY <2>1, <2>2, <2>3, AddSoundList, SoundListIsKept
<1>4. CASE MoveChannels
  BY <1>4, MoveChannelsSound
<1>5. CASE BeginTrack \/ EndOfTrack \/ ReadError \/ EndOfFile
  BY <1>1, <1>5 DEF BeginTrack, EndOfTrack, ReadError, EndOfFile, listVars
<1>6. CASE CollectSignature \/ InsertNoteSteps \/ BeatsEnd
  BY <1>1, <1>6 DEF CollectSignature, InsertNoteSteps, BeatsEnd, listVars
<1>7. CASE GroomEvent \/ GroomEnd
  BY <1>1, <1>7 DEF GroomEvent, GroomEnd, listVars
<1>8. CASE UNCHANGED vars
  BY <1>1, <1>8 DEF vars, listVars
<1> QED
  BY <1>2, <1>3, <1>4, <1>5, <1>6, <1>7, <1>8 DEF Next, Reading, Working

LEMMA InitSound == Init => Sound
BY DEF Init, Sound, AllProper, Proper, Distinct, OfChannel, GLOBAL_CHANNEL_EVENT_TYPE,
       Head0

(* For every song and number of ports, move_channels() leaves the events   *)
(* of a channel together, on their number of a port that exists, leaves    *)
(* the first port alone, and mixes two channels only when the song uses    *)
(* more of their number than there are ports.                              *)
THEOREM ChannelsStayApart == Spec => ChannelsMoved
<1> DEFINE Moved == phase = "move" /\ phase' = "groom" /\ evlist' # evlist => MovedWell
<1>1. Init => Sound
  BY InitSound
<1>2. IInv /\ Sound /\ [Next]_vars => Sound'
  BY NextSound
<1>3. IInv /\ Sound /\ [Next]_vars => [Moved]_vars
  <2> SUFFICES ASSUME IInv, Sound, Next, phase = "move", phase' = "groom",
                      evlist' # evlist
               PROVE  MovedWell
    OBVIOUS
  <2>1. MoveChannels
    BY DEF Next, Reading, Working, BeginTrack, ReadEvent, EndOfTrack, ReadError,
           EndOfFile, CollectSignature, InsertNoteSteps, Beat, BeatsEnd, GroomEvent,
           GroomEnd
  <2> QED
    BY <2>1, MoveGood
<1>4. Spec => [](IInv /\ Sound)
  BY <1>1, <1>2, Inductive, PTL DEF Spec
<1>5. Spec => [][Moved]_vars
  BY <1>3, <1>4, PTL DEF Spec
<1> QED
  BY <1>5 DEF ChannelsMoved


-----------------------------------------------------------------------------
(* The arithmetic of groom_list() *)
LEMMA Widths ==
  /\ FRAC \in Nat \ {0, 1} /\ INT_MAX \in Nat
  /\ FRAC * FRAC \in Nat \ {0} /\ FRAC * FRAC = 2 * (INT_MAX + 1)
<1>1. FRAC \in Nat \ {0, 1} /\ FRAC % 2 = 0
  BY WidthAssumption
<1>2. PICK h \in Nat \ {0} : FRAC = 2 * h
  <2>1. FRAC = 2 * (FRAC \div 2) /\ FRAC \div 2 \in Nat \ {0}
    BY <1>1
  <2> QED
    BY <2>1
<1>3. FRAC * FRAC = 2 * (h * FRAC) /\ h * FRAC \in Nat \ {0}
  BY <1>1, <1>2
<1> DEFINE k == h * FRAC
<1> HIDE DEF k
<1>4. k \in Nat \ {0} /\ FRAC * FRAC = 2 * k
  BY <1>3 DEF k
<1>5. (2 * k) \div 2 = k
  BY <1>4
<1>6. INT_MAX = k - 1
  BY <1>4, <1>5 DEF INT_MAX
<1> QED
  BY <1>1, <1>4, <1>6

LEMMA WrappedValue ==
  ASSUME NEW x \in Nat, x < FRAC * FRAC
  PROVE  Wrapped(x) = IF x <= INT_MAX THEN x ELSE x - FRAC * FRAC
<1> DEFINE H == INT_MAX + 1
           W == FRAC * FRAC
<1>1. H \in Nat \ {0} /\ W = 2 * H /\ x < W
  BY Widths
<1>2. Wrapped(x) = ((x + H) % W) - H
  <2>1. x + INT_MAX + 1 = x + H
    BY Widths
  <2>2. \A a \in Int : a - INT_MAX - 1 = a - H
    BY Widths
  <2>3. (x + H) % W \in Int
    BY <1>1
  <2> QED
    BY <2>1, <2>2, <2>3 DEF Wrapped
<1>3. x <= INT_MAX <=> x < H
  BY Widths
<1> HIDE DEF H, W
<1>4. CASE x < H
  <2>1. (x + H) % W = x + H
    BY <1>1, <1>4
  <2> QED
    BY <1>1, <1>2, <1>3, <1>4, <2>1 DEF W
<1>5. CASE x >= H
  <2>1. (x + H) % W = x + H - W
    BY <1>1, <1>5
  <2>2. Wrapped(x) = x - W
    BY <1>1, <1>2, <2>1
  <2>3. ~(x <= INT_MAX)
    BY <1>1, <1>3, <1>5
  <2> QED
    BY <2>2, <2>3 DEF W
<1> QED
  BY <1>1, <1>4, <1>5

(* The parts carried are exact, and a count that does not fit is negative, *)
(* as long as ticks and gaps are not too long.                             *)
LEMMA Carried ==
  ASSUME NEW st \in Nat, st <= INT_MAX, NEW cum \in 0..FRAC - 1,
         NEW rate \in Nat, rate <= INT_MAX, NEW dt \in Nat, dt <= FRAC,
         NEW c, c = (cum + (rate % FRAC) * dt) % (FRAC * FRAC)
  PROVE  LET q == st + (rate \div FRAC) * dt + (c \div FRAC)
         IN  /\ c % FRAC \in 0..FRAC - 1 /\ q \in Nat
             /\ q * FRAC + (c % FRAC) = st * FRAC + cum + rate * dt
             /\ Wrapped(st + Wrapped((rate \div FRAC) * dt) + (c \div FRAC))
                  = IF q <= INT_MAX THEN q ELSE q - FRAC * FRAC
             /\ q < FRAC * FRAC
<1> DEFINE F == FRAC
           M == INT_MAX
           d == rate \div F
           r == rate % F
           p == c \div F
           u == c % F
           q == st + d * dt + p
<1>1. /\ F \in Nat \ {0, 1} /\ M \in Nat /\ F * F \in Nat \ {0} /\ F * F = 2 * (M + 1)
      /\ cum \in 0..F - 1 /\ dt <= F /\ rate <= M /\ st <= M
  BY Widths
<1>2. c = (cum + r * dt) % (F * F)
  OBVIOUS
<1> HIDE DEF F, M
<1>3. d \in Nat /\ r \in 0..F - 1
  BY <1>1
<1>4. rate = F * d + r
  BY <1>1
<1> HIDE DEF d, r
<1>5. r * dt \in Nat /\ cum + r * dt < F * F
  <2>1. r * dt \in Nat
    BY <1>3
  <2>2. r * dt <= (F - 1) * dt
    BY <1>1, <1>3
  <2>3. (F - 1) * dt <= (F - 1) * F
    BY <1>1
  <2>4. (F - 1) * F = F * F - F
    BY <1>1
  <2>5. (F - 1) * dt \in Nat
    BY <1>1
  <2> QED
    BY <1>1, <2>1, <2>2, <2>3, <2>4, <2>5
<1>6. c = cum + r * dt /\ c \in Nat
  <2>1. \A W \in Nat \ {0} : \A x \in 0..W - 1 : x % W = x
    OBVIOUS
  <2>2. cum + r * dt \in 0..F * F - 1
    BY <1>1, <1>5
  <2> QED
    BY <1>1, <1>2, <2>1, <2>2
<1>7. p \in Nat /\ u \in 0..F - 1
  BY <1>1, <1>6
<1>8. c = F * p + u
  BY <1>1, <1>6
<1> HIDE DEF p, u
<1>9. d * dt \in Nat /\ d * dt <= M
  <2>1. d * dt \in Nat
    BY <1>3
  <2>2. d * dt <= d * F
    BY <1>1, <1>3
  <2>3. d * F <= rate
    BY <1>1, <1>3, <1>4
  <2>4. d * F \in Nat
    BY <1>1, <1>3
  <2> QED
    BY <1>1, <2>1, <2>2, <2>3, <2>4
<1>10. p < F
  <2> SUFFICES ASSUME p >= F PROVE FALSE
    BY <1>1, <1>7
  <2>1. F * p >= F * F
    BY <1>1, <1>7
  <2>2. F * p \in Nat
    BY <1>1, <1>7
  <2> QED
    BY <1>1, <1>5, <1>6, <1>7, <1>8, <2>1, <2>2
<1>11. q \in Nat
  BY <1>7, <1>9
<1>12. q * F + u = st * F + cum + rate * dt
  <2>1. q * F = st * F + (d * dt) * F + p * F
    BY <1>1, <1>7, <1>9
  <2>2. rate * dt = (F * d) * dt + r * dt
    BY <1>1, <1>3, <1>4
  <2>3. (F * d) * dt = (d * dt) * F /\ (d * dt) * F \in Nat /\ F * p = p * F /\ p * F \in Nat
    BY <1>1, <1>3, <1>7
  <2>4. st * F \in Nat
    BY <1>1
  <2> QED
    BY <1>5, <1>6, <1>7, <1>8, <2>1, <2>2, <2>3, <2>4
<1>13. q < F * F
  <2> SUFFICES ASSUME q >= F * F PROVE FALSE
    BY <1>1, <1>11
  <2>1. q * F >= (F * F) * F
    BY <1>1, <1>11
  <2>2. st * F <= M * F
    BY <1>1
  <2>3. rate * dt <= M * F
    <3>1. rate * dt <= rate * F
      BY <1>1
    <3>2. rate * F <= M * F
      BY <1>1
    <3>3. rate * dt \in Nat /\ rate * F \in Nat /\ M * F \in Nat
      BY <1>1
    <3> QED
      BY <3>1, <3>2, <3>3
  <2>4. (F * F) * F = 2 * (M * F) + 2 * F
    <3>1. (F * F) * F = (2 * (M + 1)) * F
      BY <1>1
    <3>2. (2 * (M + 1)) * F = 2 * (M * F) + 2 * F
      BY <1>1
    <3> QED
      BY <3>1, <3>2
  <2>5. st * F \in Nat /\ rate * dt \in Nat /\ M * F \in Nat /\ q * F \in Nat
    BY <1>1, <1>11
  <2> QED
    BY <1>1, <1>7, <1>12, <2>1, <2>2, <2>3, <2>4, <2>5
<1>14. Wrapped(d * dt) = d * dt
  <2>1. d * dt < FRAC * FRAC /\ d * dt <= INT_MAX
    BY <1>1, <1>9 DEF F, M
  <2> QED
    BY <1>9, <2>1, WrappedValue
<1>15. Wrapped(q) = IF q <= INT_MAX THEN q ELSE q - FRAC * FRAC
  BY <1>11, <1>13, WrappedValue DEF F
<1>16. /\ u \in 0..F - 1 /\ q \in Nat
       /\ q * F + u = st * F + cum + rate * dt
       /\ Wrapped(st + Wrapped(d * dt) + p) = IF q <= INT_MAX THEN q ELSE q - FRAC * FRAC
       /\ q < F * F
  BY <1>7, <1>11, <1>12, <1>13, <1>14, <1>15
<1> HIDE DEF q
<1> QED
  BY <1>16 DEF F, d, p, u, q

-----------------------------------------------------------------------------
(* The tempo in force *)
TempoOf(S) ==
  IF S = {} THEN DefaultTempo ELSE evlist[CHOOSE i \in S : \A j \in S : j <= i].val
TemposUpTo(n) == {i \in 1..n : evlist[i].kind = "tempo"}

LEMMA GreatestIndex ==
  ASSUME NEW n \in Nat, NEW S \in SUBSET (1..n), S # {}
  PROVE  \E i \in S : \A j \in S : j <= i
<1> DEFINE T == {n - i : i \in S}
<1>1. T \in SUBSET Nat /\ T # {}
  <2>1. \A i \in S : n - i \in Nat
    OBVIOUS
  <2> QED
    BY <2>1
<1>2. PICK k \in T : \A m \in T : k <= m
  BY <1>1, LeastNatural
<1>3. PICK i \in S : k = n - i
  OBVIOUS
<1>4. ASSUME NEW j \in S PROVE j <= i
  <2>1. n - j \in T /\ j \in Int /\ i \in Int
    OBVIOUS
  <2>2. k <= n - j
    BY <1>2, <2>1
  <2> QED
    BY <1>3, <2>1, <2>2
<1> QED
  BY <1>4

LEMMA TempoType ==
  ASSUME Sound, Len(evlist) \in Nat, NEW n \in 0..Len(evlist),
         NEW S \in SUBSET TemposUpTo(n)
  PROVE  TempoOf(S) \in Nat
<1>1. CASE S = {}
  BY <1>1, TempoAssumption DEF TempoOf
<1>2. CASE S # {}
  <2>1. S \in SUBSET (1..n) /\ n \in Nat
    BY DEF TemposUpTo
  <2>2. \E i \in S : \A j \in S : j <= i
    BY <1>2, <2>1, GreatestIndex
  <2> DEFINE last == CHOOSE i \in S : \A j \in S : j <= i
  <2>3. last \in S
    BY <2>2
  <2>4. TempoOf(S) = evlist[last].val
    BY <1>2 DEF TempoOf
  <2> HIDE DEF last
  <2>5. last \in 1..Len(evlist) /\ evlist[last].kind = "tempo"
    BY <2>1, <2>3 DEF TemposUpTo
  <2> QED
    BY <2>4, <2>5 DEF Sound, AllProper, Proper
<1> QED
  BY <1>1, <1>2

(* The tempo the loop has after n events is the one in force until the     *)
(* next.                                                                   *)
LEMMA TempoBetween ==
  ASSUME IInv, NEW n \in 1..Len(evlist), NEW t \in Nat, evlist[n].time <= t,
         n < Len(evlist) => t < evlist[n + 1].time
  PROVE  TempoAt(t) = TempoOf(TemposUpTo(n))
<1> DEFINE S == {i \in 1..Len(evlist) : evlist[i].kind = "tempo" /\ evlist[i].time <= t}
<1>1. /\ Entries(evlist) /\ Ordered(evlist) /\ Len(evlist) \in Nat
  BY ListFacts DEF IInv
<1>2. \A i \in 1..Len(evlist) : evlist[i].time \in Nat
  BY <1>1 DEF Entries
<1>3. ASSUME NEW i \in 1..Len(evlist)
      PROVE  evlist[i].time <= t <=> i <= n
  <2>1. CASE i <= n
    <3>1. i \in 1..n
      BY <2>1
    <3>2. evlist[i].time <= evlist[n].time
      BY <1>1, <3>1, Sorted
    <3> QED
      BY <1>2, <2>1, <3>2
  <2>2. CASE i > n
    <3>1. n < Len(evlist) /\ n + 1 \in 1..i /\ n + 1 \in 1..Len(evlist)
      BY <1>1, <2>2
    <3>2. evlist[n + 1].time <= evlist[i].time
      BY <1>1, <3>1, Sorted
    <3>3. t < evlist[n + 1].time
      BY <3>1
    <3> QED
      BY <1>2, <2>2, <3>1, <3>2, <3>3
  <2> QED
    BY <1>1, <2>1, <2>2
<1>4. S = TemposUpTo(n)
  BY <1>1, <1>3 DEF TemposUpTo
<1>5. TempoAt(t) = TempoOf(S)
  BY DEF TempoAt, TempoOf
<1> HIDE DEF S
<1> QED
  BY <1>4, <1>5

LEMMA TempoNext ==
  ASSUME Len(evlist) \in Nat, NEW n \in Nat, n < Len(evlist)
  PROVE  TempoOf(TemposUpTo(n + 1)) =
           IF evlist[n + 1].kind = "tempo" THEN evlist[n + 1].val
           ELSE TempoOf(TemposUpTo(n))
<1> DEFINE S == TemposUpTo(n + 1)
<1>1. CASE evlist[n + 1].kind = "tempo"
  <2>1. n + 1 \in S /\ \A j \in S : j \in Int /\ j <= n + 1
    BY <1>1 DEF TemposUpTo
  <2> HIDE DEF S
  <2> DEFINE last == CHOOSE i \in S : \A j \in S : j <= i
  <2>2. last \in S /\ \A j \in S : j <= last
    BY <2>1
  <2>3. last = n + 1
    BY <2>1, <2>2
  <2>4. TempoOf(S) = evlist[last].val
    BY <2>1 DEF TempoOf
  <2> HIDE DEF last
  <2> QED
    BY <1>1, <2>3, <2>4 DEF S
<1>2. CASE evlist[n + 1].kind # "tempo"
  <2>1. TemposUpTo(n + 1) = TemposUpTo(n)
    <3>1. \A i \in 1..n + 1 : i \in 1..n \/ i = n + 1
      OBVIOUS
    <3>2. \A i \in 1..n : i \in 1..n + 1
      OBVIOUS
    <3> QED
      BY <1>2, <3>1, <3>2 DEF TemposUpTo
  <2> QED
    BY <1>2, <2>1
<1> QED
  BY <1>1, <1>2

-----------------------------------------------------------------------------
(* Samples, in parts, from one tick to a later one *)
IsSum(f, from, to) ==
  f = [u \in from..to |-> IF u = from THEN 0 ELSE f[u - 1] + Exact(TempoAt(u - 1))]

LEMMA SumExists ==
  ASSUME NEW from \in Nat, NEW n \in Nat
  PROVE  \E f : IsSum(f, from, from + n)
<1> DEFINE T == {m \in Nat : ~\E f : IsSum(f, from, from + m)}
<1> SUFFICES ASSUME T # {} PROVE FALSE
  OBVIOUS
<1>1. PICK m \in T : \A k \in T : m <= k
  BY LeastNatural
<1>2. m \in Nat /\ ~\E f : IsSum(f, from, from + m)
  OBVIOUS
<1>3. CASE m = 0
  <2> DEFINE f == [u \in from..from |-> 0]
  <2>1. from + m = from
    BY <1>3
  <2>2. IsSum(f, from, from)
    BY DEF IsSum
  <2> QED
    BY <1>2, <2>1, <2>2
<1>4. CASE m # 0
  <2>1. m - 1 \in Nat /\ m - 1 \notin T
    BY <1>1, <1>2, <1>4
  <2>2. PICK g : IsSum(g, from, from + (m - 1))
    BY <2>1
  <2> DEFINE to == from + m
             f == [u \in from..to |-> IF u = to THEN g[to - 1] + Exact(TempoAt(to - 1))
                                      ELSE g[u]]
  <2>3. to \in Nat /\ from < to /\ from + (m - 1) = to - 1
    BY <1>2, <1>4
  <2>4. g = [u \in from..to - 1 |-> IF u = from THEN 0
                                    ELSE g[u - 1] + Exact(TempoAt(u - 1))]
    BY <2>2, <2>3 DEF IsSum
  <2> HIDE DEF to
  <2>5. ASSUME NEW u \in from..to
        PROVE  f[u] = IF u = from THEN 0 ELSE f[u - 1] + Exact(TempoAt(u - 1))
    <3>1. CASE u = to
      <4>1. to - 1 \in from..to /\ to - 1 # to
        BY <2>3
      <4>2. f[to - 1] = g[to - 1]
        BY <4>1
      <4> QED
        BY <2>3, <3>1, <4>2
    <3>2. CASE u # to /\ u # from
      <4>1. u \in from..to - 1 /\ u - 1 \in from..to /\ u - 1 # to
        BY <2>3, <3>2
      <4>2. f[u] = g[u] /\ f[u - 1] = g[u - 1]
        BY <3>2, <4>1
      <4> QED
        BY <2>4, <3>2, <4>1, <4>2
    <3>3. CASE u = from
      <4>1. from \in from..to - 1 /\ from # to
        BY <2>3
      <4>2. f[u] = g[u]
        BY <3>3, <4>1
      <4> QED
        BY <2>4, <3>3, <4>1, <4>2
    <3> QED
      BY <3>1, <3>2, <3>3
  <2>6. f = [u \in from..to |-> f[u]]
    OBVIOUS
  <2> HIDE DEF f
  <2>7. IsSum(f, from, to)
    BY <2>5, <2>6 DEF IsSum
  <2> QED
    BY <1>2, <2>7 DEF to
<1> QED
  BY <1>3, <1>4

LEMMA ElapsedSums ==
  ASSUME NEW from \in Nat, NEW to \in Nat, from <= to
  PROVE  \E f : IsSum(f, from, to) /\ Elapsed(from, to) = f[to]
<1> DEFINE f == CHOOSE g : g = [u \in from..to |->
                  IF u = from THEN 0 ELSE g[u - 1] + Exact(TempoAt(u - 1))]
<1>1. Elapsed(from, to) = f[to]
  BY DEF Elapsed
<1>2. \E g : IsSum(g, from, to)
  <2>1. to - from \in Nat /\ from + (to - from) = to
    OBVIOUS
  <2> QED
    BY <2>1, SumExists
<1>3. \E g : g = [u \in from..to |->
                  IF u = from THEN 0 ELSE g[u - 1] + Exact(TempoAt(u - 1))]
  BY <1>2 DEF IsSum
<1>4. IsSum(f, from, to)
  BY <1>3 DEF IsSum
<1> QED
  BY <1>1, <1>4

LEMMA ElapsedAtStart ==
  ASSUME NEW from \in Nat
  PROVE  Elapsed(from, from) = 0
<1>1. PICK f : IsSum(f, from, from) /\ Elapsed(from, from) = f[from]
  BY ElapsedSums
<1> QED
  BY <1>1 DEF IsSum

(* Two sums agree where both are *)
LEMMA SumsAgree ==
  ASSUME NEW from \in Nat, NEW to \in Nat, from <= to,
         NEW f, IsSum(f, from, to), NEW g, IsSum(g, from, to + 1)
  PROVE  f[to] = g[to]
<1> DEFINE T == {u \in Nat : u \in from..to /\ f[u] # g[u]}
<1> SUFFICES ASSUME T # {} PROVE FALSE
  OBVIOUS
<1>1. PICK u \in T : \A k \in T : u <= k
  BY LeastNatural
<1>2. u \in from..to /\ u \in from..to + 1 /\ f[u] # g[u]
  BY <1>1
<1>3. /\ f = [v \in from..to |-> IF v = from THEN 0 ELSE f[v - 1] + Exact(TempoAt(v - 1))]
      /\ g = [v \in from..to + 1 |-> IF v = from THEN 0 ELSE g[v - 1] + Exact(TempoAt(v - 1))]
  BY DEF IsSum
<1>4. u # from
  BY <1>2, <1>3
<1>5. u - 1 \in from..to /\ u - 1 \in Nat /\ ~(u <= u - 1)
  BY <1>2, <1>4
<1>6. f[u - 1] = g[u - 1]
  BY <1>1, <1>5
<1> QED
  BY <1>2, <1>3, <1>4, <1>6

LEMMA ElapsedNext ==
  ASSUME NEW from \in Nat, NEW to \in Nat, from <= to
  PROVE  Elapsed(from, to + 1) = Elapsed(from, to) + Exact(TempoAt(to))
<1>1. PICK f : IsSum(f, from, to) /\ Elapsed(from, to) = f[to]
  BY ElapsedSums
<1>2. to + 1 \in Nat /\ from <= to + 1 /\ to + 1 # from /\ to + 1 \in from..to + 1
      /\ (to + 1) - 1 = to
  OBVIOUS
<1>3. PICK g : IsSum(g, from, to + 1) /\ Elapsed(from, to + 1) = g[to + 1]
  BY <1>2, ElapsedSums
<1>4. f[to] = g[to]
  BY <1>1, <1>3, SumsAgree
<1>5. g[to + 1] = g[to] + Exact(TempoAt(to))
  BY <1>2, <1>3 DEF IsSum
<1> QED
  BY <1>1, <1>3, <1>4, <1>5

(* A gap at one tempo *)
Steady(at, n, rate) ==
  \A u \in Nat : at <= u /\ u < at + n => Exact(TempoAt(u)) = rate

LEMMA ElapsedGap ==
  ASSUME NEW from \in Nat, NEW to \in Nat, from <= to, NEW n \in Nat, NEW rate \in Nat,
         Elapsed(from, to) \in Nat, Steady(to, n, rate)
  PROVE  Elapsed(from, to + n) = Elapsed(from, to) + rate * n
<1> DEFINE E(k) == Elapsed(from, to + k)
           Right(k) == E(k) = Elapsed(from, to) + rate * k
           T == {k \in Nat : k <= n /\ ~Right(k)}
<1>1. T = {}
  <2> SUFFICES ASSUME T # {} PROVE FALSE
    OBVIOUS
  <2>1. PICK k \in T : \A m \in T : k <= m
    BY LeastNatural
  <2>2. k \in Nat /\ k <= n /\ ~Right(k)
    BY <2>1
  <2>3. CASE k = 0
    <3>1. to + k = to /\ rate * k = 0
      BY <2>3
    <3> QED
      BY <2>2, <3>1
  <2>4. CASE k # 0
    <3> DEFINE u == to + (k - 1)
    <3>1. k - 1 \in Nat /\ k - 1 <= n /\ ~(k <= k - 1)
      BY <2>2, <2>4
    <3>2. Right(k - 1)
      BY <2>1, <3>1
    <3>3. u \in Nat /\ from <= u /\ u + 1 = to + k /\ to <= u /\ u < to + n
      BY <2>2, <3>1
    <3>4. Exact(TempoAt(u)) = rate
      BY <3>3 DEF Steady
    <3>5. Elapsed(from, u + 1) = Elapsed(from, u) + Exact(TempoAt(u))
      BY <3>3, ElapsedNext
    <3>6. Elapsed(from, to + k) = Elapsed(from, to) + rate * (k - 1) + rate
      BY <3>2, <3>3, <3>4, <3>5
    <3>7. rate * (k - 1) + rate = rate * k /\ rate * (k - 1) \in Nat
      BY <2>2, <3>1
    <3> QED
      BY <2>2, <3>6, <3>7
  <2> QED
    BY <2>3, <2>4
<1> QED
  BY <1>1

-----------------------------------------------------------------------------
(* Where the song starts *)
Starter(i) == Starts(Safe(evlist[i]))

LEMMA SafeFacts ==
  ASSUME IInv, NEW i \in 1..Len(evlist)
  PROVE  /\ Safe(evlist[i]).time = evlist[i].time /\ Safe(evlist[i]).kind = evlist[i].kind
         /\ Safe(evlist[i]).val = evlist[i].val /\ Safe(evlist[i]).order = evlist[i].order
         /\ evlist[i].time \in Nat
<1>1. IsEntry(evlist[i]) /\ evlist[i].time \in Nat
  BY ListFacts DEF IInv, Entries
<1> QED
  BY <1>1 DEF Safe, IsEntry

LEMMA StartTimesFacts ==
  ASSUME IInv
  PROVE  /\ StartTimes = {evlist[i].time : i \in {j \in 1..Len(evlist) : Starter(j)}}
         /\ StartTimes \in SUBSET Nat
         /\ StartTimes # {} => Start \in StartTimes /\ \A u \in StartTimes : Start <= u
<1>1. StartTimes = {evlist[i].time : i \in {j \in 1..Len(evlist) : Starter(j)}}
  BY DEF StartTimes, Starter
<1>2. StartTimes \in SUBSET Nat
  BY <1>1, SafeFacts
<1>3. ASSUME StartTimes # {}
      PROVE  Start \in StartTimes /\ \A u \in StartTimes : Start <= u
  <2>1. \E t \in StartTimes : \A u \in StartTimes : t <= u
    BY <1>2, <1>3, LeastNatural
  <2> QED
    BY <2>1 DEF Start
<1> QED
  BY <1>1, <1>2, <1>3

(* Events before the first that starts the song are at sample 0 *)
LEMMA NotStarted ==
  ASSUME IInv, NEW n \in 1..Len(evlist), \A j \in 1..n : ~Starter(j)
  PROVE  SampleAt(evlist[n].time) = 0
<1>1. \A u \in StartTimes : evlist[n].time <= u
  <2> SUFFICES ASSUME NEW u \in StartTimes PROVE evlist[n].time <= u
    OBVIOUS
  <2>1. PICK i \in 1..Len(evlist) : Starter(i) /\ u = evlist[i].time
    BY StartTimesFacts
  <2>2. n \in 1..i
    <3>1. Len(evlist) \in Nat
      BY ListFacts DEF IInv
    <3> QED
      BY <2>1, <3>1
  <2> QED
    BY <2>1, <2>2, Sorted, ListFacts DEF IInv
<1>2. StartTimes = {} \/ evlist[n].time <= Start
  BY <1>1, StartTimesFacts
<1> QED
  BY <1>2 DEF SampleAt

LEMMA FirstStart ==
  ASSUME IInv, NEW n \in 1..Len(evlist), Starter(n), \A j \in 1..n - 1 : ~Starter(j)
  PROVE  StartTimes # {} /\ Start = evlist[n].time
<1>1. evlist[n].time \in StartTimes
  BY StartTimesFacts
<1>2. \A u \in StartTimes : evlist[n].time <= u
  <2> SUFFICES ASSUME NEW u \in StartTimes PROVE evlist[n].time <= u
    OBVIOUS
  <2>1. PICK i \in 1..Len(evlist) : Starter(i) /\ u = evlist[i].time
    BY StartTimesFacts
  <2>2. n \in 1..i
    <3>1. Len(evlist) \in Nat
      BY ListFacts DEF IInv
    <3> QED
      BY <2>1, <3>1
  <2> QED
    BY <2>1, <2>2, Sorted, ListFacts DEF IInv
<1>3. Start \in StartTimes /\ Start <= evlist[n].time
  BY <1>1, StartTimesFacts
<1> QED
  BY <1>1, <1>2, <1>3, StartTimesFacts

-----------------------------------------------------------------------------
(* The loop of groom_list() after n events *)
IsGroom(g) ==
  g = [i |-> g.i, at |-> g.at, st |-> g.st, cum |-> g.cum, counting |-> g.counting,
       tempo |-> g.tempo, out |-> g.out]
Counted(n, g) ==
  /\ IsGroom(g)
  /\ g.at = IF n = 0 THEN 0 ELSE evlist[n].time
  /\ g.tempo = TempoOf(TemposUpTo(n))
  /\ g.cum \in 0..FRAC - 1
  /\ g.counting \in {0, 2}
  /\ g.counting = 2 => g.st = 0 /\ g.cum = 0 /\ \A j \in 1..n : ~Starter(j)
  /\ g.counting = 0 => n # 0 /\ StartTimes # {} /\ Start <= g.at
Exactly(g) ==
  /\ g.st \in 0..INT_MAX
  /\ g.counting = 0 => (g.st * FRAC) + g.cum = Elapsed(Start, g.at)

LEMMA WholePart ==
  ASSUME NEW q \in Nat, NEW u \in 0..FRAC - 1
  PROVE  ((q * FRAC) + u) \div FRAC = q
<1> DEFINE F == FRAC
           x == (q * F) + u
           d == x \div F
           r == x % F
<1>1. F \in Nat \ {0} /\ u \in 0..F - 1
  BY Widths
<1> HIDE DEF F
<1>2. x \in Nat
  BY <1>1
<1> HIDE DEF x
<1>3. d \in Int /\ r \in 0..F - 1
  BY <1>1, <1>2
<1>4. x = F * d + r
  BY <1>1, <1>2
<1> HIDE DEF d, r
<1>5. (q * F) + u = F * d + r
  BY <1>4 DEF x
<1>6. ~(d + 1 <= q)
  <2> SUFFICES ASSUME d + 1 <= q PROVE FALSE
    OBVIOUS
  <2>1. F * (d + 1) <= F * q /\ F * (d + 1) = F * d + F /\ F * q = q * F
    BY <1>1, <1>3
  <2>2. F * d \in Int /\ q * F \in Int
    BY <1>1, <1>3
  <2> QED
    BY <1>1, <1>3, <1>5, <2>1, <2>2
<1>7. ~(q + 1 <= d)
  <2> SUFFICES ASSUME q + 1 <= d PROVE FALSE
    OBVIOUS
  <2>1. F * (q + 1) <= F * d /\ F * (q + 1) = F * q + F /\ F * q = q * F
    BY <1>1, <1>3
  <2>2. F * d \in Int /\ q * F \in Int
    BY <1>1, <1>3
  <2> QED
    BY <1>1, <1>3, <1>5, <2>1, <2>2
<1>8. d = q
  BY <1>3, <1>6, <1>7
<1> QED
  BY <1>8 DEF d, x, F

(* Then the time is that of the last of them. *)
LEMMA CountedTime ==
  ASSUME IInv, NEW n \in 1..Len(evlist), NEW g, Counted(n, g), Exactly(g)
  PROVE  g.at = evlist[n].time /\ g.st = SampleAt(evlist[n].time)
<1>1. g.at = evlist[n].time
  BY DEF Counted
<1>2. CASE g.counting = 2
  <2>1. g.st = 0 /\ \A j \in 1..n : ~Starter(j)
    BY <1>2 DEF Counted
  <2> QED
    BY <1>1, <2>1, NotStarted
<1>3. CASE g.counting = 0
  <2>1. /\ StartTimes # {} /\ Start <= g.at /\ g.cum \in 0..FRAC - 1 /\ g.st \in Nat
        /\ (g.st * FRAC) + g.cum = Elapsed(Start, g.at)
    BY <1>3, Widths DEF Counted, Exactly
  <2>2. g.st = Elapsed(Start, g.at) \div FRAC
    BY <2>1, WholePart
  <2>3. Start \in Nat /\ g.at \in Nat
    BY <1>1, <2>1, StartTimesFacts, SafeFacts
  <2>4. CASE g.at <= Start
    <3>1. g.at = Start
      BY <2>1, <2>3, <2>4
    <3>2. Elapsed(Start, g.at) = 0
      BY <2>3, <3>1, ElapsedAtStart
    <3>3. g.st = 0
      <4>1. \A F \in Nat \ {0} : 0 \div F = 0
        OBVIOUS
      <4> QED
        BY <2>2, <3>2, <4>1, Widths
    <3> QED
      BY <1>1, <2>4, <3>3 DEF SampleAt
  <2>5. CASE ~(g.at <= Start)
    BY <1>1, <2>1, <2>2, <2>5 DEF SampleAt
  <2> QED
    BY <2>4, <2>5
<1> QED
  BY <1>2, <1>3 DEF Counted

(* The tempos of the song have ticks of whole and parts of samples that an *)
(* int32 holds.                                                            *)
LEMMA RateFacts ==
  ASSUME IInv, Sound, NoLongTick, NEW n \in 0..Len(evlist)
  PROVE  LET rate == RateOf(TempoOf(TemposUpTo(n)))
         IN  rate \in Nat /\ rate <= INT_MAX /\ rate = Exact(TempoOf(TemposUpTo(n)))
<1> DEFINE S == TemposUpTo(n)
           tempo == TempoOf(S)
<1>1. Len(evlist) \in Nat /\ n \in Nat
  BY ListFacts DEF IInv
<1>2. S \in SUBSET TemposUpTo(n)
  OBVIOUS
<1>3. tempo \in Nat
  BY <1>1, <1>2, TempoType
<1>4. Fits(tempo)
  <2>1. CASE S = {}
    BY <2>1 DEF NoLongTick, TempoOf
  <2>2. CASE S # {}
    <3>1. S \in SUBSET (1..n)
      BY DEF TemposUpTo
    <3>2. \E i \in S : \A j \in S : j <= i
      BY <1>1, <2>2, <3>1, GreatestIndex
    <3> DEFINE last == CHOOSE i \in S : \A j \in S : j <= i
    <3>3. last \in S
      BY <3>2
    <3>4. tempo = evlist[last].val
      BY <2>2 DEF TempoOf
    <3> HIDE DEF last, tempo
    <3>5. last \in 1..Len(evlist) /\ evlist[last].kind = "tempo"
      BY <1>1, <3>3 DEF TemposUpTo
    <3> QED
      BY <3>4, <3>5 DEF NoLongTick
  <2> QED
    BY <2>1, <2>2
<1> HIDE DEF tempo
<1>5. Exact(tempo) \in Nat
  <2>1. tempo * Clock \in Nat
    BY <1>3, TempoAssumption
  <2>2. setup.divisions \in Nat \ {0}
    BY <1>4 DEF IInv, Setup, Fits
  <2>3. \A a \in Nat : \A b \in Nat \ {0} : a \div b \in Nat
    OBVIOUS
  <2> QED
    BY <2>1, <2>2, <2>3 DEF Exact
<1>6. RateOf(tempo) = Exact(tempo)
  BY <1>4 DEF RateOf
<1>7. Exact(tempo) <= INT_MAX
  BY <1>4 DEF Fits
<1> QED
  BY <1>5, <1>6, <1>7 DEF tempo

(* One gap of the song *)
LEMMA ElapsedOverGap ==
  ASSUME IInv, Sound, NoLongTick, NEW n \in 1..Len(evlist), n < Len(evlist),
         StartTimes # {}, Start <= evlist[n].time,
         Elapsed(Start, evlist[n].time) \in Nat,
         NEW dt, dt = evlist[n + 1].time - evlist[n].time
  PROVE  /\ dt \in Nat
         /\ Elapsed(Start, evlist[n + 1].time) =
              Elapsed(Start, evlist[n].time) + RateOf(TempoOf(TemposUpTo(n))) * dt
<1> DEFINE at == evlist[n].time
           rate == RateOf(TempoOf(TemposUpTo(n)))
<1>1. /\ n \in 0..Len(evlist) /\ n + 1 \in 1..Len(evlist) /\ n \in 1..n + 1
  BY ListFacts DEF IInv
<1>2. rate \in Nat /\ rate = Exact(TempoOf(TemposUpTo(n)))
  BY <1>1, RateFacts
<1>3. at \in Nat /\ evlist[n + 1].time \in Nat /\ at <= evlist[n + 1].time
  BY <1>1, SafeFacts, Sorted, ListFacts DEF IInv
<1>4. dt \in Nat /\ at + dt = evlist[n + 1].time
  BY <1>3
<1>5. Steady(at, dt, rate)
  <2> SUFFICES ASSUME NEW u \in Nat, at <= u, u < at + dt
               PROVE  Exact(TempoAt(u)) = rate
    BY DEF Steady
  <2>1. TempoAt(u) = TempoOf(TemposUpTo(n))
    BY <1>4, TempoBetween
  <2> QED
    BY <1>2, <2>1
<1>6. Start \in Nat /\ Start <= at /\ Elapsed(Start, at) \in Nat
  BY StartTimesFacts
<1> DEFINE from == Start
<1>7. /\ from \in Nat /\ from <= at /\ Elapsed(from, at) \in Nat
      /\ at \in Nat /\ dt \in Nat /\ rate \in Nat
  BY <1>2, <1>3, <1>4, <1>6
<1> HIDE DEF at, rate, from
<1>8. Elapsed(from, at + dt) = Elapsed(from, at) + rate * dt
  BY ONLY <1>5, <1>7, ElapsedGap
<1> QED
  BY <1>4, <1>8 DEF at, rate, from

(* The clock of the loop comes to the next event. *)
LEMMA ClockStep ==
  ASSUME IInv, Sound, NoLongGap, NoLongTick,
         NEW n \in 0..Len(evlist), n < Len(evlist), NEW g, Counted(n, g), Exactly(g),
         NEW c, c = IF g.counting # 0 /\ Starter(n + 1) THEN 1 ELSE g.counting,
         NEW h, h = Clocked([g EXCEPT !.counting = c], Safe(evlist[n + 1]))
  PROVE  /\ Counted(n + 1, h) /\ h.i = g.i /\ h.out = g.out /\ h.st \in Int
         /\ h.st >= 0 => Exactly(h)
         /\ h.st < 0 => SampleAt(evlist[n + 1].time) > INT_MAX
<1> DEFINE e == Safe(evlist[n + 1])
           at == evlist[n + 1].time
           tempo == TempoOf(TemposUpTo(n + 1))
           dt == at - g.at
           g0 == [g EXCEPT !.counting = c]
           s == Samples(g0, dt)
<1>1. /\ Entries(evlist) /\ Ordered(evlist) /\ Len(evlist) \in Nat /\ n \in Nat
      /\ n + 1 \in 1..Len(evlist)
  BY ListFacts DEF IInv
<1>2. e.time = at /\ e.kind = evlist[n + 1].kind /\ e.val = evlist[n + 1].val /\ at \in Nat
  BY <1>1, SafeFacts
<1>3. g0 = [i |-> g.i, at |-> g.at, st |-> g.st, cum |-> g.cum, counting |-> c,
            tempo |-> g.tempo, out |-> g.out]
  <2>1. IsGroom(g)
    BY DEF Counted
  <2> QED
    BY <2>1 DEF IsGroom
<1>4. tempo = IF e.kind = "tempo" THEN e.val ELSE g0.tempo
  <2>1. g0.tempo = TempoOf(TemposUpTo(n))
    BY <1>3 DEF Counted
  <2> QED
    BY <1>1, <1>2, <2>1, TempoNext
<1>6. g0.counting = c /\ g0.tempo = g.tempo /\ g0.st = g.st /\ g0.cum = g.cum
      /\ e.time - g0.at = dt
  BY <1>2, <1>3
<1>10. h = Clocked(g0, e)
  OBVIOUS
<1> HIDE DEF e, at, tempo, dt, g0
<1>5. h = IF dt # 0 /\ g0.counting = 0
          THEN [g0 EXCEPT !.at = e.time, !.st = s.st, !.cum = s.cum, !.tempo = tempo]
          ELSE [g0 EXCEPT !.at = e.time, !.tempo = tempo,
                          !.counting = IF @ = 1 THEN 0 ELSE @]
  BY <1>4, <1>6, <1>10 DEF Clocked
<1> HIDE DEF s
<1>7. CASE dt # 0 /\ c = 0
  <2>1. h = [i |-> g.i, at |-> at, st |-> s.st, cum |-> s.cum, counting |-> 0,
             tempo |-> tempo, out |-> g.out]
    BY <1>2, <1>3, <1>5, <1>7
  <2> HIDE DEF s
  <2>2. h.i = g.i /\ h.out = g.out /\ h.at = at /\ h.counting = 0 /\ h.tempo = tempo
        /\ h.st = s.st /\ h.cum = s.cum /\ IsGroom(h)
    BY <2>1 DEF IsGroom
  <2>3. g.counting = 0
    BY <1>7
  <2>4. n # 0 /\ StartTimes # {} /\ Start <= g.at /\ g.at = evlist[n].time /\ n \in 1..Len(evlist)
    BY <1>1, <2>3 DEF Counted
  <2>5. /\ g.st \in 0..INT_MAX /\ (g.st * FRAC) + g.cum = Elapsed(Start, g.at)
        /\ g.cum \in 0..FRAC - 1
    BY <2>3 DEF Exactly, Counted
  <2> DEFINE rate == RateOf(g.tempo)
  <2>6. rate \in Nat /\ rate <= INT_MAX
    BY RateFacts DEF Counted
  <2>7. Elapsed(Start, g.at) \in Nat
    <3>1. \A a, b, F \in Nat : (a * F) + b \in Nat
      OBVIOUS
    <3>2. g.st \in Nat /\ g.cum \in Nat /\ FRAC \in Nat
      BY <2>5, Widths
    <3> QED
      BY <2>5, <3>1, <3>2
  <2>8. dt \in Nat /\ dt <= FRAC
        /\ Elapsed(Start, at) = Elapsed(Start, g.at) + rate * dt
    <3>1. dt = evlist[n + 1].time - evlist[n].time
      BY <2>4 DEF dt, at
    <3>2. evlist[n + 1].time - evlist[n].time <= FRAC
      <4>1. n + 1 \in 2..Len(evlist) /\ (n + 1) - 1 = n
        BY <1>1, <2>4
      <4> QED
        BY <4>1 DEF NoLongGap
    <3>3. /\ dt \in Nat
          /\ Elapsed(Start, evlist[n + 1].time) =
              Elapsed(Start, evlist[n].time) + RateOf(TempoOf(TemposUpTo(n))) * dt
      BY <1>1, <2>4, <2>7, <3>1, ElapsedOverGap
    <3> QED
      BY <2>4, <3>1, <3>2, <3>3 DEF at, Counted
  <2> DEFINE k == (g.cum + (rate % FRAC) * dt) % (FRAC * FRAC)
             q == g.st + (rate \div FRAC) * dt + (k \div FRAC)
  <2>9. /\ s.st = Wrapped(g.st + Wrapped((rate \div FRAC) * dt) + (k \div FRAC))
        /\ s.cum = k % FRAC
    BY <1>6 DEF s, Samples
  <2> HIDE DEF rate
  <2>10. /\ k % FRAC \in 0..FRAC - 1 /\ q \in Nat
         /\ q * FRAC + (k % FRAC) = g.st * FRAC + g.cum + rate * dt
         /\ Wrapped(g.st + Wrapped((rate \div FRAC) * dt) + (k \div FRAC))
              = IF q <= INT_MAX THEN q ELSE q - FRAC * FRAC
         /\ q < FRAC * FRAC
    <3>1. g.st \in Nat /\ g.st <= INT_MAX
      BY <2>5, Widths
    <3> QED
      BY <2>5, <2>6, <2>8, <3>1, Carried
  <2> HIDE DEF k, q
  <2> DEFINE u == k % FRAC
  <2>11. u \in 0..FRAC - 1 /\ h.cum = u /\ h.st = IF q <= INT_MAX THEN q ELSE q - FRAC * FRAC
    BY <2>2, <2>9, <2>10
  <2>12. (q * FRAC) + u = Elapsed(Start, at)
    BY <2>5, <2>8, <2>10
  <2> HIDE DEF u
  <2>13. Start \in Nat /\ g.at \in Nat /\ Start <= at /\ (dt # 0 => Start < at)
    <3>1. Start \in Nat /\ g.at \in Nat
      BY <2>4, StartTimesFacts, SafeFacts
    <3>2. at = g.at + dt
      BY <1>2, <3>1 DEF dt
    <3> QED
      BY <2>4, <2>8, <3>1, <3>2
  <2>14. Counted(n + 1, h)
    BY <1>1, <2>2, <2>4, <2>11, <2>13 DEF Counted, at, tempo
  <2>15. CASE q <= INT_MAX
    <3>1. h.st = q /\ q \in 0..INT_MAX
      BY <2>10, <2>11, <2>15, Widths
    <3>2. Exactly(h)
      BY <2>2, <2>11, <2>12, <3>1 DEF Exactly
    <3> QED
      BY <2>2, <2>14, <3>1, <3>2
  <2>16. CASE ~(q <= INT_MAX)
    <3>1. h.st = q - FRAC * FRAC /\ h.st < 0 /\ h.st \in Int
      <4>1. h.st = q - FRAC * FRAC
        BY <2>11, <2>16
      <4>2. q \in Nat /\ q < FRAC * FRAC
        BY <2>10
      <4>3. \A W \in Nat : \A x \in Nat : x < W => x - W < 0 /\ x - W \in Int
        OBVIOUS
      <4> QED
        BY <4>1, <4>2, <4>3, Widths
    <3>2. q = Elapsed(Start, at) \div FRAC
      BY <2>10, <2>11, <2>12, WholePart
    <3>3. SampleAt(at) = q
      BY <1>2, <1>7, <2>4, <2>13, <3>2 DEF SampleAt
    <3>4. q > INT_MAX
      BY <2>10, <2>16, Widths
    <3> QED
      BY <2>2, <2>14, <3>1, <3>3, <3>4 DEF at
  <2> QED
    BY <2>15, <2>16
<1>8. CASE ~(dt # 0 /\ c = 0)
  <2> DEFINE d == IF c = 1 THEN 0 ELSE c
  <2>1. h = [i |-> g.i, at |-> at, st |-> g.st, cum |-> g.cum, counting |-> d,
             tempo |-> tempo, out |-> g.out]
    BY <1>2, <1>3, <1>5, <1>6, <1>8
  <2> HIDE DEF d
  <2>2. h.i = g.i /\ h.out = g.out /\ h.at = at /\ h.counting = d /\ h.tempo = tempo
        /\ h.st = g.st /\ h.cum = g.cum /\ IsGroom(h)
    BY <2>1 DEF IsGroom
  <2>3. g.st \in 0..INT_MAX /\ g.cum \in 0..FRAC - 1 /\ g.st \in Int /\ g.st >= 0
    BY Widths DEF Exactly, Counted
  <2>4. n + 1 # 0 /\ h.at = IF n + 1 = 0 THEN 0 ELSE evlist[n + 1].time
    BY <1>1, <2>2 DEF at
  <2>5. CASE g.counting = 0
    <3>1. c = 0 /\ d = 0 /\ dt = 0
      BY <1>8, <2>5 DEF d
    <3>2. n # 0 /\ StartTimes # {} /\ Start <= g.at /\ g.at = evlist[n].time /\ n \in 1..Len(evlist)
      BY <1>1, <2>5 DEF Counted
    <3>3. g.at = at
      <4>1. g.at \in Nat
        BY <3>2, SafeFacts
      <4> QED
        BY <1>2, <3>1, <4>1 DEF dt
    <3>4. Counted(n + 1, h)
      BY <2>2, <2>3, <2>4, <3>1, <3>2, <3>3 DEF Counted, tempo
    <3>5. Exactly(h)
      BY <2>2, <2>5, <3>1, <3>3 DEF Exactly
    <3> QED
      BY <2>2, <2>3, <3>4, <3>5
  <2>6. CASE g.counting = 2 /\ Starter(n + 1)
    <3>1. d = 0
      BY <2>6 DEF d
    <3>2. g.st = 0 /\ g.cum = 0 /\ \A j \in 1..n : ~Starter(j)
      BY <2>6 DEF Counted
    <3>3. StartTimes # {} /\ Start = at
      BY <1>1, <2>6, <3>2, FirstStart DEF at
    <3>4. Elapsed(Start, at) = 0
      BY <1>2, <3>3, ElapsedAtStart
    <3>7. Start <= h.at
      BY <1>2, <2>2, <3>3
    <3>5. Counted(n + 1, h)
      BY <2>2, <2>3, <2>4, <3>1, <3>3, <3>7 DEF Counted, tempo
    <3>6. Exactly(h)
      BY <2>2, <2>3, <3>1, <3>2, <3>4, Widths DEF Exactly
    <3> QED
      BY <2>2, <2>3, <3>5, <3>6
  <2>7. CASE g.counting = 2 /\ ~Starter(n + 1)
    <3>1. d = 2
      BY <2>7 DEF d
    <3>2. g.st = 0 /\ g.cum = 0 /\ \A j \in 1..n : ~Starter(j)
      BY <2>7 DEF Counted
    <3>3. \A j \in 1..n + 1 : ~Starter(j)
      BY <1>1, <2>7, <3>2
    <3>4. Counted(n + 1, h)
      BY <2>2, <2>3, <2>4, <3>1, <3>2, <3>3 DEF Counted, tempo
    <3>5. Exactly(h)
      BY <2>2, <2>3, <3>1 DEF Exactly
    <3> QED
      BY <2>2, <2>3, <3>4, <3>5
  <2> QED
    BY <2>5, <2>6, <2>7 DEF Counted
<1> QED
  BY <1>7, <1>8
-----------------------------------------------------------------------------
(* What groom_list() puts out *)
Listed(s) == \E V : s \in Seq(V)

LEMMA AppendFacts ==
  ASSUME NEW s, Listed(s), NEW x
  PROVE  /\ Listed(Append(s, x)) /\ Len(s) \in Nat /\ Len(Append(s, x)) = Len(s) + 1
         /\ Append(s, x)[Len(s) + 1] = x
         /\ \A i \in 1..Len(s) : Append(s, x)[i] = s[i]
<1>1. PICK V : s \in Seq(V)
  BY DEF Listed
<1> DEFINE W == V \cup {x}
<1>2. s \in Seq(W) /\ x \in W
  <2>1. Len(s) \in Nat /\ s \in [1..Len(s) -> V]
    BY <1>1
  <2>2. s \in [1..Len(s) -> W]
    BY <2>1
  <2>3. \A n \in Nat : \A f \in [1..n -> W] : f \in Seq(W)
    OBVIOUS
  <2> QED
    BY <2>1, <2>2, <2>3
<1> HIDE DEF W
<1>3. Append(s, x) \in Seq(W) /\ Len(Append(s, x)) = Len(s) + 1 /\ Len(s) \in Nat
  BY <1>2
<1>4. Append(s, x)[Len(s) + 1] = x /\ \A i \in 1..Len(s) : Append(s, x)[i] = s[i]
  BY <1>2
<1> QED
  BY <1>3, <1>4 DEF Listed

GoodOut(n, o) ==
  /\ o.kind # "eot"
  /\ \E j \in 1..n : o.order = evlist[j].order /\ o.time = SampleAt(evlist[j].time)
  /\ o.time \in 0..INT_MAX
AllGood(n, out) == Listed(out) /\ \A i \in 1..Len(out) : GoodOut(n, out[i])
LastAt(o, at) == o.kind = "eot" /\ o.time = SampleAt(at) /\ o.time \in 0..INT_MAX

Timed ==
  NoLongGap /\ NoLongTick =>
    /\ phase = "groom" =>
         /\ groom.i \in 1..Len(evlist) + 1
         /\ Counted(groom.i - 1, groom) /\ Exactly(groom)
         /\ AllGood(groom.i - 1, groom.out)
    /\ phase = "overflow" =>
         /\ AllGood(Len(evlist), groom.out)
         /\ SampleAt(groom.at) > INT_MAX
    /\ phase = "done" =>
         \A k \in 1..Len(groom.out) :
           GoodOut(Len(evlist), groom.out[k]) \/ LastAt(groom.out[k], groom.at)
Ungroomed == phase \notin {"groom", "done", "overflow"} => groom = NoGroom

(* What is said of a list stays true while the list stays. *)
LEMMA Same ==
  ASSUME evlist' = evlist, setup' = setup
  PROVE  /\ \A n : TempoOf(TemposUpTo(n))' = TempoOf(TemposUpTo(n))
         /\ \A a, b : Elapsed(a, b)' = Elapsed(a, b)
         /\ StartTimes' = StartTimes /\ Start' = Start
         /\ \A t : SampleAt(t)' = SampleAt(t)
         /\ \A n : Starter(n)' <=> Starter(n)
         /\ NoLongGap' => NoLongGap
         /\ NoLongTick' => NoLongTick
<1>1. \A t : TempoAt(t)' = TempoAt(t)
  BY DEF TempoAt
<1>2. \A a, b : Elapsed(a, b)' = Elapsed(a, b)
  BY DEF Elapsed, TempoAt, Exact
<1>3. StartTimes' = StartTimes /\ Start' = Start
  BY DEF StartTimes, Start, Starts, Safe, IsQuiet, OfChannel, GLOBAL_CHANNEL_EVENT_TYPE
<1>4. \A t : SampleAt(t)' = SampleAt(t)
  BY <1>2, <1>3 DEF SampleAt
<1>5. \A n : TempoOf(TemposUpTo(n))' = TempoOf(TemposUpTo(n))
  BY DEF TempoOf, TemposUpTo
<1>6. \A n : Starter(n)' <=> Starter(n)
  BY DEF Starter, Starts, Safe, IsQuiet, OfChannel, GLOBAL_CHANNEL_EVENT_TYPE
<1>7. NoLongGap' => NoLongGap
  BY DEF NoLongGap
<1>8. NoLongTick' => NoLongTick
  BY DEF NoLongTick, Fits, Exact
<1> QED
  BY <1>2, <1>3, <1>4, <1>5, <1>6, <1>7, <1>8

LEMMA SameOut ==
  ASSUME evlist' = evlist, setup' = setup
  PROVE  /\ \A n, o : GoodOut(n, o)' <=> GoodOut(n, o)
         /\ \A o, at : LastAt(o, at)' <=> LastAt(o, at)
         /\ \A n, g : Counted(n, g)' <=> Counted(n, g)
         /\ \A g : Exactly(g)' <=> Exactly(g)
<1>1. \A n, o : GoodOut(n, o)' <=> GoodOut(n, o)
  BY Same DEF GoodOut
<1>2. \A o, at : LastAt(o, at)' <=> LastAt(o, at)
  BY Same DEF LastAt
<1>3. \A n, g : Counted(n, g)' <=> Counted(n, g)
  BY Same DEF Counted
<1>4. \A g : Exactly(g)' <=> Exactly(g)
  BY Same DEF Exactly
<1> QED
  BY <1>1, <1>2, <1>3, <1>4

LEMMA AllGoodMore ==
  ASSUME NEW n \in Nat, NEW m \in Nat, n <= m, NEW out, AllGood(n, out)
  PROVE  AllGood(m, out)
<1>1. 1..n \subseteq 1..m
  OBVIOUS
<1> QED
  BY <1>1 DEF AllGood, GoodOut

LEMMA AllGoodAppend ==
  ASSUME NEW n, NEW out, AllGood(n, out), NEW o, GoodOut(n, o)
  PROVE  AllGood(n, Append(out, o))
<1> DEFINE new == Append(out, o)
<1>1. /\ Listed(new) /\ Len(out) \in Nat /\ Len(new) = Len(out) + 1
      /\ new[Len(out) + 1] = o /\ \A i \in 1..Len(out) : new[i] = out[i]
  BY AppendFacts DEF AllGood
<1> HIDE DEF new
<1>2. ASSUME NEW i \in 1..Len(new) PROVE GoodOut(n, new[i])
  <2>1. CASE i = Len(out) + 1
    BY <1>1, <2>1
  <2>2. CASE i # Len(out) + 1
    <3>1. i \in 1..Len(out)
      BY <1>1, <2>2
    <3>2. GoodOut(n, out[i]) /\ new[i] = out[i]
      BY <1>1, <3>1 DEF AllGood
    <3> QED
      BY <3>2
  <2> QED
    BY <2>1, <2>2
<1> QED
  BY <1>1, <1>2 DEF AllGood, new

LEMMA MoveChannelsTimed ==
  ASSUME IInv, Sound, IInv', Ungroomed, MoveChannels
  PROVE  Timed' /\ Ungroomed'
<1>1. phase' = "groom" /\ groom' = NoGroom
  BY DEF MoveChannels, Ungroomed
<1>2. Ungroomed'
  BY <1>1 DEF Ungroomed
<1>3. /\ groom'.i = 1 /\ groom'.at = 0 /\ groom'.st = 0 /\ groom'.cum = 0
      /\ groom'.counting = 2 /\ groom'.tempo = DefaultTempo /\ groom'.out = <<>>
      /\ IsGroom(groom')
  BY <1>1 DEF NoGroom, IsGroom
<1>4. Len(evlist') \in Nat
  BY ListFacts, <1>1 DEF IInv, WellFormed, List, Entries
<1>5. groom'.i \in 1..Len(evlist') + 1
  BY <1>3, <1>4
<1>6. Counted(0, groom)'
  <2>1. TempoOf(TemposUpTo(0))' = DefaultTempo
    BY DEF TempoOf, TemposUpTo
  <2>2. 0 \in 0..FRAC - 1
    BY Widths
  <2>3. \A j \in 1..0 : FALSE
    OBVIOUS
  <2> QED
    BY <1>3, <2>1, <2>2, <2>3 DEF Counted
<1>7. Exactly(groom)'
  BY <1>3, Widths DEF Exactly
<1>8. AllGood(0, groom.out)'
  <2>1. <<>> \in Seq({})
    OBVIOUS
  <2> QED
    BY <1>3, <2>1 DEF AllGood, Listed
<1>9. groom'.i - 1 = 0
  BY <1>3
<1> QED
  BY <1>1, <1>2, <1>5, <1>6, <1>7, <1>8, <1>9 DEF Timed

LEMMA GroomEventTimed ==
  ASSUME IInv, Sound, Timed, GroomEvent
  PROVE  Timed'
<1> DEFINE n == groom.i - 1
           raw == evlist[groom.i]
           e == Safe(raw)
           c == IF groom.counting # 0 /\ Starts(e) THEN 1 ELSE groom.counting
           h == Clocked([groom EXCEPT !.counting = c], e)
           kept == [kind |-> e.kind, ch |-> e.ch, val |-> e.val, order |-> e.order,
                    time |-> h.st]
           drops == h.st < 0 \/ Skipped(e, c)
           new == IF drops THEN h.out ELSE Append(h.out, kept)
<1> SUFFICES ASSUME NoLongGap', NoLongTick' PROVE Timed'
  BY DEF Timed
<1>1. /\ evlist' = evlist /\ setup' = setup /\ phase = "groom"
      /\ groom.i <= Len(evlist)
      /\ phase' = IF h.st < 0 THEN "overflow" ELSE "groom"
  BY DEF GroomEvent, listVars
<1>2. groom' = [h EXCEPT !.i = @ + 1, !.out = new]
  <2>1. groom' = [h EXCEPT !.i = @ + 1, !.out = IF h.st < 0 \/ Skipped(e, c) THEN @
                             ELSE Append(@, kept)]
    BY DEF GroomEvent
  <2> HIDE DEF h, kept
  <2> QED
    BY <2>1
<1>3. NoLongGap /\ NoLongTick
  BY <1>1, Same
<1>4. /\ groom.i \in 1..Len(evlist) + 1 /\ Counted(n, groom) /\ Exactly(groom)
      /\ AllGood(n, groom.out)
  BY <1>1, <1>3 DEF Timed
<1>5. /\ Len(evlist) \in Nat /\ n \in 0..Len(evlist) /\ n < Len(evlist)
      /\ n + 1 = groom.i /\ n + 1 \in 1..Len(evlist) /\ n \in Nat /\ n + 1 \in Nat
  BY <1>1, <1>4, ListFacts DEF IInv
<1>6. /\ Counted(n + 1, h) /\ h.i = groom.i /\ h.out = groom.out /\ h.st \in Int
      /\ h.st >= 0 => Exactly(h)
      /\ h.st < 0 => SampleAt(raw.time) > INT_MAX
  <2>1. c = IF groom.counting # 0 /\ Starter(n + 1) THEN 1 ELSE groom.counting
    BY <1>5 DEF Starter
  <2>2. h = Clocked([groom EXCEPT !.counting = c], Safe(evlist[n + 1]))
    BY <1>5
  <2> HIDE DEF h, c
  <2>3. /\ Counted(n + 1, h) /\ h.i = groom.i /\ h.out = groom.out /\ h.st \in Int
        /\ h.st >= 0 => Exactly(h)
        /\ h.st < 0 => SampleAt(evlist[n + 1].time) > INT_MAX
    BY <1>3, <1>4, <1>5, <2>1, <2>2, ClockStep
  <2> QED
    BY <1>5, <2>3
<1>7. /\ e.kind = raw.kind /\ e.order = raw.order /\ raw.kind # "eot"
      /\ raw = evlist[n + 1]
  <2>1. groom.i \in 1..Len(evlist)
    BY <1>5
  <2>2. e.kind = raw.kind /\ e.order = raw.order
    BY <2>1, SafeFacts
  <2>3. raw.kind # "eot"
    BY <2>1 DEF Sound, AllProper, Proper
  <2> QED
    BY <1>5, <2>2, <2>3
<1>8. kept.kind = e.kind /\ kept.order = e.order /\ kept.time = h.st
  OBVIOUS
<1> HIDE DEF h, kept, e, c, raw
<1>9. AllGood(n + 1, new)
  <2>1. AllGood(n + 1, h.out)
    BY <1>4, <1>5, <1>6, AllGoodMore
  <2>2. CASE drops
    BY <2>1, <2>2
  <2>3. CASE ~drops
    <3>1. h.st >= 0 /\ Exactly(h)
      BY <1>6, <2>3
    <3>2. h.st = SampleAt(evlist[n + 1].time)
      BY <1>5, <1>6, <3>1, CountedTime
    <3>3. h.st \in 0..INT_MAX
      BY <3>1 DEF Exactly
    <3>4. GoodOut(n + 1, kept)
      <4>1. n + 1 \in 1..n + 1
        BY <1>5
      <4> QED
        BY <1>7, <1>8, <3>2, <3>3, <4>1 DEF GoodOut
    <3>5. AllGood(n + 1, Append(h.out, kept))
      BY <2>1, <3>4, AllGoodAppend
    <3> QED
      BY <2>3, <3>5
  <2> QED
    BY <2>2, <2>3
<1> HIDE DEF new, drops
<1>10. /\ groom'.i = n + 2 /\ groom'.at = h.at /\ groom'.st = h.st /\ groom'.cum = h.cum
       /\ groom'.counting = h.counting /\ groom'.tempo = h.tempo /\ groom'.out = new
       /\ IsGroom(groom')
  <2>1. h = [i |-> h.i, at |-> h.at, st |-> h.st, cum |-> h.cum, counting |-> h.counting,
             tempo |-> h.tempo, out |-> h.out]
    BY <1>6 DEF Counted, IsGroom
  <2>2. groom' = [i |-> h.i + 1, at |-> h.at, st |-> h.st, cum |-> h.cum,
                  counting |-> h.counting, tempo |-> h.tempo, out |-> new]
    BY <1>2, <2>1
  <2>3. h.i + 1 = n + 2
    BY <1>5, <1>6
  <2> HIDE DEF n
  <2> QED
    BY <2>2, <2>3 DEF IsGroom
<1>11. groom'.i - 1 = n + 1 /\ groom'.i \in 1..Len(evlist') + 1
  BY <1>1, <1>5, <1>10
<1> HIDE DEF n
<1>12. Counted(n + 1, groom') /\ (h.st >= 0 => Exactly(groom'))
  BY <1>6, <1>10 DEF Counted, Exactly
<1>13. AllGood(n + 1, groom'.out) /\ AllGood(Len(evlist), groom'.out)
  BY <1>5, <1>9, <1>10, AllGoodMore
<1>14. CASE h.st >= 0
  <2>1. phase' = "groom"
    BY <1>1, <1>6, <1>14
  <2>2. Counted(groom.i - 1, groom)' /\ Exactly(groom)'
    BY <1>1, <1>11, <1>12, <1>14, SameOut
  <2>3. AllGood(groom.i - 1, groom.out)'
    BY <1>1, <1>11, <1>13, SameOut DEF AllGood
  <2> QED
    BY <1>11, <2>1, <2>2, <2>3 DEF Timed
<1>15. CASE h.st < 0
  <2>1. phase' = "overflow"
    BY <1>1, <1>15
  <2>2. AllGood(Len(evlist), groom.out)'
    BY <1>1, <1>13, SameOut DEF AllGood
  <2>3. groom'.at = raw.time
    <3>1. h.at = evlist[n + 1].time
      BY <1>5, <1>6 DEF Counted
    <3> QED
      BY <1>7, <1>10, <3>1
  <2>4. SampleAt(groom.at)' > INT_MAX
    BY <1>1, <1>6, <1>15, <2>3, Same
  <2> QED
    BY <2>1, <2>2, <2>4 DEF Timed
<1> QED
  BY <1>6, <1>14, <1>15

LEMMA GroomEndTimed ==
  ASSUME IInv, Sound, Timed, GroomEnd
  PROVE  Timed'
<1> DEFINE n == Len(evlist)
           o == [kind |-> "eot", ch |-> 0, val |-> 0, order |-> 0, time |-> groom.st]
           new == Append(groom.out, o)
<1> SUFFICES ASSUME NoLongGap', NoLongTick' PROVE Timed'
  BY DEF Timed
<1>1. /\ evlist' = evlist /\ setup' = setup /\ phase = "groom" /\ phase' = "done"
      /\ groom.i > n /\ groom' = [groom EXCEPT !.out = new]
  BY DEF GroomEnd, listVars
<1>2. NoLongGap /\ NoLongTick
  BY <1>1, Same
<1>3. /\ groom.i \in 1..n + 1 /\ Counted(groom.i - 1, groom) /\ Exactly(groom)
      /\ AllGood(groom.i - 1, groom.out)
  BY <1>1, <1>2 DEF Timed
<1>4. n \in 1..Len(evlist) /\ groom.i - 1 = n
  BY <1>1, <1>3, ListFacts DEF IInv
<1>5. o.kind = "eot" /\ o.time = groom.st
  OBVIOUS
<1> HIDE DEF o
<1>6. groom'.at = groom.at /\ groom'.out = new
  <2>1. groom = [i |-> groom.i, at |-> groom.at, st |-> groom.st, cum |-> groom.cum,
                 counting |-> groom.counting, tempo |-> groom.tempo, out |-> groom.out]
    BY <1>3 DEF Counted, IsGroom
  <2> HIDE DEF new
  <2> QED
    BY <1>1, <2>1
<1>7. LastAt(o, groom.at)
  <2>1. Counted(n, groom) /\ Exactly(groom)
    BY <1>3, <1>4
  <2>2. groom.at = evlist[n].time /\ groom.st = SampleAt(evlist[n].time)
    BY <1>4, <2>1, CountedTime
  <2>3. groom.st \in 0..INT_MAX
    BY <2>1 DEF Exactly
  <2> QED
    BY <1>5, <2>2, <2>3 DEF LastAt
<1>8. /\ Len(groom.out) \in Nat /\ Len(new) = Len(groom.out) + 1
      /\ new[Len(groom.out) + 1] = o /\ \A i \in 1..Len(groom.out) : new[i] = groom.out[i]
  BY <1>3, AppendFacts DEF AllGood
<1> HIDE DEF new
<1>9. ASSUME NEW k \in 1..Len(new) PROVE GoodOut(n, new[k]) \/ LastAt(new[k], groom.at)
  <2>1. CASE k = Len(groom.out) + 1
    BY <1>7, <1>8, <2>1
  <2>2. CASE k # Len(groom.out) + 1
    <3>1. k \in 1..Len(groom.out)
      BY <1>8, <2>2
    <3> QED
      BY <1>3, <1>4, <1>8, <3>1 DEF AllGood
  <2> QED
    BY <2>1, <2>2
<1> HIDE DEF n
<1>10. n = Len(evlist')
  BY <1>1 DEF n
<1>11. \A k \in 1..Len(groom'.out) :
         GoodOut(Len(evlist), groom.out[k])' \/ LastAt(groom.out[k], groom.at)'
  BY <1>1, <1>6, <1>9, <1>10, SameOut
<1> QED
  BY <1>1, <1>11 DEF Timed

LEMMA OtherTimed ==
  ASSUME Timed, Ungroomed, UNCHANGED <<setup, evlist, groom, phase>>
  PROVE  Timed' /\ Ungroomed'
<1>1. Ungroomed'
  BY DEF Ungroomed
<1>2. /\ \A n, o : GoodOut(n, o)' <=> GoodOut(n, o)
      /\ \A o, at : LastAt(o, at)' <=> LastAt(o, at)
      /\ \A n, g : Counted(n, g)' <=> Counted(n, g)
      /\ \A g : Exactly(g)' <=> Exactly(g)
      /\ \A t : SampleAt(t)' = SampleAt(t)
      /\ NoLongGap' => NoLongGap
      /\ NoLongTick' => NoLongTick
  BY Same, SameOut
<1>3. \A n, out : AllGood(n, out)' <=> AllGood(n, out)
  BY <1>2 DEF AllGood
<1>4. Timed'
  BY <1>2, <1>3 DEF Timed
<1> QED
  BY <1>1, <1>4

-----------------------------------------------------------------------------
(* With opt_preserve_silence a note starts the song at 0 *)
Occurs(events, t) ==
  \E i \in 1..Len(events) : events[i].kind = "on" /\ events[i].time = t
Rested(events) == (\E t \in Nat : Occurs(events, t)) => Occurs(events, 0)
Rests ==
  setup.preserve =>
    Rested(evlist) /\ (note_seen => readmidi_error_flag \/ Occurs(evlist, 0))

LEMMA AddOccurs ==
  ASSUME NEW l, WellFormed(l), NEW at \in Int, NEW e
  PROVE  LET m == Add(l, at, e)
         IN  \/ m.error /\ m.events = l.events
             \/ \A t \in Nat : Occurs(m.events, t) <=>
                                 Occurs(l.events, t) \/ (e.kind = "on" /\ t = NotBelow0(at))
<1>1. /\ Entries(l.events) /\ Ordered(l.events) /\ l.point \in 1..Len(l.events)
      /\ Len(l.events) \in Nat
  BY Length DEF WellFormed
<1>2. CASE l.error
  BY <1>2 DEF Add
<1>3. CASE ~l.error /\ Len(l.events) >= MAX_MIDI_EVENT
  <2>1. Add(l, at, e) = [l EXCEPT !.error = TRUE]
    BY <1>3 DEF Add
  <2>2. Add(l, at, e) = [events |-> l.events, point |-> l.point, error |-> TRUE]
    BY <2>1 DEF WellFormed
  <2> QED
    BY <2>2
<1>4. CASE ~l.error /\ ~(Len(l.events) >= MAX_MIDI_EVENT)
  <2> DEFINE time == NotBelow0(at)
             p == Place(l.events, l.point, time)
             r == [kind |-> e.kind, ch |-> e.ch, val |-> e.val, time |-> time,
                   order |-> Len(l.events) + 1]
             new == Inserted(l.events, p, r)
  <2>1. Add(l, at, e).events = new
    BY <1>4 DEF Add
  <2>2. time \in Nat
    BY DEF NotBelow0
  <2>3. time = NotBelow0(at)
    OBVIOUS
  <2> HIDE DEF time
  <2>4. p \in 0..Len(l.events)
    BY <1>1, <2>2, PlaceSplits
  <2>5. r.kind = e.kind /\ r.time = time
    OBVIOUS
  <2> HIDE DEF p, r
  <2>6. /\ Len(new) = Len(l.events) + 1
        /\ \A i \in 1..Len(l.events) + 1 :
             new[i] = IF i <= p THEN l.events[i]
                      ELSE IF i = p + 1 THEN r ELSE l.events[i - 1]
    BY <1>1 DEF Inserted
  <2> HIDE DEF new
  <2> DEFINE n == Len(l.events)
  <2>7. ASSUME NEW i \in 1..n
        PROVE  \E k \in 1..n + 1 : new[k] = l.events[i]
    <3>1. CASE i <= p
      <4>1. i \in 1..n + 1 /\ new[i] = l.events[i]
        BY <1>1, <2>4, <2>6, <3>1
      <4> QED
        BY <4>1
    <3>2. CASE i > p
      <4>1. i + 1 \in 1..n + 1 /\ ~(i + 1 <= p) /\ i + 1 # p + 1 /\ (i + 1) - 1 = i
        BY <1>1, <2>4, <3>2
      <4>2. new[i + 1] = l.events[i]
        BY <2>6, <4>1
      <4> QED
        BY <4>1, <4>2
    <3> QED
      BY <1>1, <2>4, <3>1, <3>2
  <2>8. ASSUME NEW k \in 1..n + 1
        PROVE  new[k] = r \/ \E i \in 1..n : new[k] = l.events[i]
    <3>1. CASE k <= p
      <4>1. k \in 1..n /\ new[k] = l.events[k]
        BY <1>1, <2>4, <2>6, <3>1
      <4> QED
        BY <4>1
    <3>2. CASE k > p + 1
      <4>1. k - 1 \in 1..n /\ ~(k <= p) /\ k # p + 1
        BY <1>1, <2>4, <3>2
      <4>2. new[k] = l.events[k - 1]
        BY <2>6, <4>1
      <4> QED
        BY <4>1, <4>2
    <3>3. CASE k = p + 1
      <4>1. ~(k <= p)
        BY <2>4, <3>3
      <4> QED
        BY <2>6, <3>3, <4>1
    <3> QED
      BY <1>1, <2>4, <3>1, <3>2, <3>3
  <2>9. p + 1 \in 1..n + 1 /\ new[p + 1] = r
    <3>1. p + 1 \in 1..n + 1 /\ ~(p + 1 <= p)
      BY <1>1, <2>4
    <3> QED
      BY <2>6, <3>1
  <2>10. Len(new) = n + 1
    BY <2>6
  <2> HIDE DEF n
  <2>11. ASSUME NEW t \in Nat
         PROVE  Occurs(new, t) <=>
                  Occurs(l.events, t) \/ (e.kind = "on" /\ t = NotBelow0(at))
    <3>1. ASSUME Occurs(new, t)
          PROVE  Occurs(l.events, t) \/ (e.kind = "on" /\ t = NotBelow0(at))
      <4>1. PICK k \in 1..n + 1 : new[k].kind = "on" /\ new[k].time = t
        BY <2>10, <3>1 DEF Occurs
      <4> QED
        BY <2>3, <2>5, <2>8, <4>1 DEF Occurs, n
    <3>2. ASSUME Occurs(l.events, t) PROVE Occurs(new, t)
      <4>1. PICK i \in 1..n : l.events[i].kind = "on" /\ l.events[i].time = t
        BY <3>2 DEF Occurs, n
      <4>2. PICK k \in 1..n + 1 : new[k] = l.events[i]
        BY <2>7
      <4> QED
        BY <2>10, <4>1, <4>2 DEF Occurs
    <3>3. ASSUME e.kind = "on", t = NotBelow0(at) PROVE Occurs(new, t)
      BY <2>3, <2>5, <2>9, <2>10, <3>3 DEF Occurs
    <3> QED
      BY <3>1, <3>2, <3>3
  <2> QED
    BY <2>1, <2>11
<1> QED
  BY <1>2, <1>3, <1>4

(* An event other than a note on, or one at 0, or any behind one at 0 *)
LEMMA AddRested ==
  ASSUME NEW l, WellFormed(l), Rested(l.events), NEW at \in Int, NEW e,
         \/ e.kind # "on" \/ at <= 0 \/ l.error \/ Occurs(l.events, 0)
  PROVE  LET m == Add(l, at, e)
         IN  /\ Rested(m.events)
             /\ Occurs(l.events, 0) => Occurs(m.events, 0)
             /\ l.error => m.error
             /\ e.kind = "on" /\ at <= 0 => m.error \/ Occurs(m.events, 0)
<1> DEFINE m == Add(l, at, e)
           Good == /\ Rested(m.events)
                   /\ Occurs(l.events, 0) => Occurs(m.events, 0)
                   /\ l.error => m.error
                   /\ e.kind = "on" /\ at <= 0 => m.error \/ Occurs(m.events, 0)
<1>1. l.error => m = l
  BY DEF Add
<1>2. \/ m.error /\ m.events = l.events
      \/ \A t \in Nat : Occurs(m.events, t) <=>
                          Occurs(l.events, t) \/ (e.kind = "on" /\ t = NotBelow0(at))
  BY AddOccurs
<1>3. at <= 0 => NotBelow0(at) = 0
  BY DEF NotBelow0
<1> HIDE DEF m
<1>4. ASSUME l.error \/ (m.error /\ m.events = l.events) PROVE Good
  <2>1. m.error /\ m.events = l.events
    BY <1>1, <1>4
  <2> QED
    BY <2>1
<1>5. ASSUME ~l.error, ~(m.error /\ m.events = l.events) PROVE Good
  <2>1. \A t \in Nat : Occurs(m.events, t) <=>
                       Occurs(l.events, t) \/ (e.kind = "on" /\ t = NotBelow0(at))
    BY <1>2, <1>5
  <2>2. Occurs(m.events, 0) <=>
          Occurs(l.events, 0) \/ (e.kind = "on" /\ 0 = NotBelow0(at))
    BY <2>1
  <2>3. Rested(m.events)
    <3> SUFFICES ASSUME NEW t \in Nat, Occurs(m.events, t), ~Occurs(m.events, 0)
                 PROVE  FALSE
      BY DEF Rested
    <3>1. Occurs(l.events, t) \/ e.kind = "on"
      BY <2>1
    <3> QED
      BY <1>3, <1>5, <2>2, <3>1 DEF Rested
  <2> QED
    BY <1>3, <1>5, <2>2, <2>3
<1>6. Good
  BY <1>4, <1>5
<1> QED
  BY <1>6 DEF m

LEMMA ReadEventRests ==
  ASSUME IInv, Rests, NEW delta \in setup.deltas, NEW e \in setup.events,
         ReadEvent(delta, e), setup.preserve
  PROVE  Rests'
<1> DEFINE at == Wrapped(smf_at_time + delta)
           quietly == e.kind = "on" /\ ~note_seen /\ at > 0
           on == Note("on", e.ch)
           off == Note("off", e.ch)
           one == Add(List, 0, on)
           two == Add(one, 0, off)
           before == IF quietly THEN Silent(List, e.ch) ELSE List
           with == Add(before, at, e)
           second == [e EXCEPT !.ch = 1]
           after == IF e.kind = "sig" THEN Add(with, at, second) ELSE with
           Past(l) == l.error \/ Occurs(l.events, 0)
<1>1. /\ ListIs(after) /\ setup' = setup /\ ~readmidi_error_flag
      /\ note_seen' = (note_seen \/ quietly)
  BY DEF ReadEvent
<1>2. at \in Int
  <2>1. smf_at_time + delta \in Int
    BY DEF IInv, Setup
  <2> QED
    BY <2>1, WrappedType
<1>3. Wanted(e) /\ Wanted(second)
  BY WantedInFile DEF IInv
<1>4. e.kind = "sig" => second.kind # "on"
  <2>1. e \in ([kind: {"on", "off"}, ch: Channels, val: {0}]
               \cup [kind: {"tempo"}, ch: {0}, val: Nat]
               \cup [kind: {"sig"}, ch: {0}, val: Signature]
               \cup [kind: {"text"}, ch: {0}, val: {0}])
    BY DEF IInv, Setup
  <2>2. [e EXCEPT !.ch = 1].kind = e.kind
    BY <2>1
  <2> QED
    BY <2>2
<1>5. /\ WellFormed(List) /\ List.events = evlist /\ List.error = readmidi_error_flag
      /\ Rested(List.events) /\ (note_seen => Past(List))
  BY DEF IInv, List, Rests
<1> HIDE DEF at, second
<1>6. /\ WellFormed(before) /\ Rested(before.events)
      /\ note_seen \/ quietly => Past(before)
      /\ e.kind = "on" => at <= 0 \/ Past(before)
  <2>1. CASE quietly
    <3>1. Wanted(on) /\ Wanted(off) /\ on.kind = "on" /\ off.kind # "on" /\ 0 \in Int /\ 0 <= 0
      BY DEF Wanted, Note
    <3> HIDE DEF on, off
    <3>2. WellFormed(one)
      BY <1>5, <3>1, AddKeepsOrder
    <3>3. Rested(one.events) /\ Past(one)
      BY <1>5, <3>1, AddRested
    <3> HIDE DEF one
    <3>4. WellFormed(two)
      BY <3>1, <3>2, AddKeepsOrder
    <3>5. /\ Rested(two.events)
          /\ Occurs(one.events, 0) => Occurs(two.events, 0)
          /\ one.error => two.error
      BY <3>1, <3>2, <3>3, AddRested
    <3>6. before = two
      BY <2>1 DEF Silent, one, on, off
    <3> QED
      BY <3>3, <3>4, <3>5, <3>6
  <2>2. CASE ~quietly
    <3>1. before = List
      BY <2>2
    <3>2. e.kind = "on" => at <= 0 \/ note_seen
      BY <1>2, <2>2
    <3> HIDE DEF before
    <3> QED
      BY <1>5, <2>2, <3>1, <3>2
  <2> QED
    BY <2>1, <2>2
<1> HIDE DEF before, quietly
<1>7. /\ WellFormed(with)
      /\ Rested(with.events) /\ (Past(before) => Past(with))
  <2>1. WellFormed(with)
    BY <1>2, <1>3, <1>6, AddKeepsOrder
  <2>2. /\ Rested(with.events)
        /\ Occurs(before.events, 0) => Occurs(with.events, 0)
        /\ before.error => with.error
    BY <1>2, <1>6, AddRested
  <2> QED
    BY <2>1, <2>2
<1> HIDE DEF with
<1>8. Rested(after.events) /\ (Past(with) => Past(after))
  <2>1. CASE e.kind = "sig"
    <3>1. after = Add(with, at, second)
      BY <2>1
    <3> HIDE DEF after
    <3>2. /\ Rested(after.events)
          /\ Occurs(with.events, 0) => Occurs(after.events, 0)
          /\ with.error => after.error
      BY <1>2, <1>4, <1>7, <2>1, <3>1, AddRested
    <3> QED
      BY <3>2
  <2>2. CASE e.kind # "sig"
    <3>1. after = with
      BY <2>2
    <3> HIDE DEF after
    <3> QED
      BY <1>7, <3>1
  <2> QED
    BY <2>1, <2>2
<1> HIDE DEF after
<1>9. evlist' = after.events /\ readmidi_error_flag' = after.error
  BY <1>1 DEF ListIs
<1>10. Rested(evlist)' /\ (note_seen' => (readmidi_error_flag \/ Occurs(evlist, 0))')
  <2>1. Rested(evlist)'
    BY <1>8, <1>9 DEF Rested, Occurs
  <2>2. note_seen' => Past(after)
    BY <1>1, <1>6, <1>7, <1>8
  <2> QED
    BY <1>9, <2>1, <2>2 DEF Occurs
<1> QED
  BY <1>10 DEF Rests

LEMMA BeatRests ==
  ASSUME IInv, Rests, Beat, setup.preserve
  PROVE  Rests'
<1> DEFINE b == Adopted(beat)
           e == Step(b)
           m == Add(List, beat.at, e)
<1>1. ListIs(m) /\ setup' = setup /\ note_seen' = note_seen
  BY DEF Beat, trackVars
<1>2. e.kind # "on"
  BY DEF Step, Meta
<1>3. /\ WellFormed(List) /\ List.events = evlist /\ List.error = readmidi_error_flag
      /\ Rested(List.events) /\ beat.at \in Int
  BY DEF IInv, List, Rests, BeatState
<1> HIDE DEF e
<1>4. /\ Rested(m.events)
      /\ Occurs(List.events, 0) => Occurs(m.events, 0)
      /\ List.error => m.error
  BY <1>2, <1>3, AddRested
<1> HIDE DEF m
<1>5. evlist' = m.events /\ readmidi_error_flag' = m.error
  BY <1>1 DEF ListIs
<1>6. Rested(evlist)' /\ (Occurs(evlist, 0) => Occurs(evlist, 0)')
  BY <1>3, <1>4, <1>5 DEF Rested, Occurs
<1> QED
  BY <1>1, <1>3, <1>4, <1>5, <1>6 DEF Rests

LEMMA MoveChannelsRests ==
  ASSUME IInv, Rests, MoveChannels
  PROVE  Rests'
<1>1. CASE UNCHANGED evlist
  BY <1>1 DEF MoveChannels, Rests, Rested, Occurs, trackVars
<1>2. CASE ~UNCHANGED evlist
  <2> DEFINE x == Chidx
  <2>1. Entries(evlist) /\ Len(evlist) \in Nat
    BY ListFacts DEF IInv
  <2>2. evlist' = [i \in 1..Len(evlist) |->
                     IF OfChannel(evlist[i]) THEN [evlist[i] EXCEPT !.ch = x[@]]
                     ELSE evlist[i]]
    BY <1>2 DEF MoveChannels
  <2> HIDE DEF x
  <2>3. Len(evlist') = Len(evlist)
    BY <2>1, <2>2
  <2>4. ASSUME NEW i \in 1..Len(evlist)
        PROVE  evlist'[i].kind = evlist[i].kind /\ evlist'[i].time = evlist[i].time
    <3>1. IsEntry(evlist[i])
      BY <2>1 DEF Entries
    <3>2. CASE OfChannel(evlist[i])
      <4>1. evlist'[i] = [evlist[i] EXCEPT !.ch = x[evlist[i].ch]]
        BY <2>2, <3>2
      <4> QED
        BY <3>1, <4>1 DEF IsEntry
    <3>3. CASE ~OfChannel(evlist[i])
      BY <2>2, <3>3
    <3> QED
      BY <3>2, <3>3
  <2>5. \A t : Occurs(evlist, t)' <=> Occurs(evlist, t)
    BY <2>3, <2>4 DEF Occurs
  <2> QED
    BY <2>5 DEF MoveChannels, Rests, Rested, trackVars
<1> QED
  BY <1>1, <1>2

(* The note that starts the song is at 0 when no channel is quiet. *)
LEMMA StartsAtOnce ==
  ASSUME IInv, Rests, setup.preserve, setup.quiet = {},
         NEW i \in 1..Len(evlist), evlist[i].kind = "on"
  PROVE  Start = 0
<1>1. ASSUME NEW k \in 1..Len(evlist), evlist[k].kind = "on"
      PROVE  evlist[k].time \in StartTimes
  <2>1. Safe(evlist[k]).kind = "on"
    BY <1>1, SafeFacts
  <2>2. Starter(k)
    BY <2>1 DEF Starter, Starts, IsQuiet
  <2> QED
    BY <2>2, StartTimesFacts
<1>2. evlist[i].time \in Nat
  BY SafeFacts
<1>3. Occurs(evlist, 0)
  BY <1>2 DEF Rests, Rested, Occurs
<1>4. PICK k \in 1..Len(evlist) : evlist[k].kind = "on" /\ evlist[k].time = 0
  BY <1>3 DEF Occurs
<1>5. 0 \in StartTimes
  BY <1>1, <1>4
<1>6. Start \in Nat /\ Start <= 0
  BY <1>5, StartTimesFacts
<1> QED
  BY <1>6

-----------------------------------------------------------------------------
LEMMA InitTimed == Init => Timed /\ Ungroomed /\ Rests
<1> SUFFICES ASSUME Init PROVE Timed /\ Ungroomed /\ Rests
  OBVIOUS
<1>1. Timed /\ Ungroomed
  BY DEF Init, Timed, Ungroomed
<1>2. \A t \in Nat : ~Occurs(evlist, t)
  BY DEF Init, Occurs, Head0
<1> QED
  BY <1>1, <1>2 DEF Init, Rests, Rested

LEMMA NextTimed ==
  ASSUME IInv, Sound, IInv', Timed, Ungroomed, [Next]_vars
  PROVE  Timed' /\ Ungroomed'
<1>1. ASSUME phase \notin {"groom", "done", "overflow"}, groom' = groom,
             phase' \notin {"groom", "done", "overflow"}
      PROVE  Timed' /\ Ungroomed'
  BY <1>1 DEF Timed, Ungroomed
<1>2. CASE BeginTrack \/ EndOfTrack \/ ReadError \/ EndOfFile
  BY <1>1, <1>2 DEF BeginTrack, EndOfTrack, ReadError, EndOfFile
<1>3. CASE \E delta \in setup.deltas, e \in setup.events : ReadEvent(delta, e)
  BY <1>1, <1>3 DEF ReadEvent
<1>4. CASE CollectSignature \/ InsertNoteSteps \/ BeatsEnd
  BY <1>1, <1>4 DEF CollectSignature, InsertNoteSteps, BeatsEnd
<1>5. CASE Beat
  BY <1>1, <1>5 DEF Beat
<1>6. CASE MoveChannels
  BY <1>6, MoveChannelsTimed
<1>7. CASE GroomEvent
  <2>1. phase = "groom" /\ phase' \in {"overflow", "groom"}
    BY <1>7 DEF GroomEvent
  <2> QED
    BY <1>7, <2>1, GroomEventTimed DEF Ungroomed
<1>8. CASE GroomEnd
  <2>1. phase' = "done"
    BY <1>8 DEF GroomEnd
  <2> QED
    BY <1>8, <2>1, GroomEndTimed DEF Ungroomed
<1>9. CASE UNCHANGED vars
  BY <1>9, OtherTimed DEF vars, listVars
<1> QED
  BY <1>2, <1>3, <1>4, <1>5, <1>6, <1>7, <1>8, <1>9 DEF Next, Reading, Working

LEMMA NextRests ==
  ASSUME IInv, Rests, [Next]_vars
  PROVE  Rests'
<1>1. ASSUME UNCHANGED <<setup, evlist, readmidi_error_flag, note_seen>> PROVE Rests'
  BY <1>1 DEF Rests, Rested, Occurs
<1>2. CASE BeginTrack
  BY <1>2 DEF BeginTrack, Rests, Rested, Occurs
<1>3. CASE \E delta \in setup.deltas, e \in setup.events : ReadEvent(delta, e)
  <2>1. PICK delta \in setup.deltas, e \in setup.events : ReadEvent(delta, e)
    BY <1>3
  <2>2. CASE setup.preserve
    BY <2>1, <2>2, ReadEventRests
  <2>3. CASE ~setup.preserve
    BY <2>1, <2>3 DEF ReadEvent, Rests
  <2> QED
    BY <2>2, <2>3
<1>4. CASE Beat
  <2>1. CASE setup.preserve
    BY <1>4, <2>1, BeatRests
  <2>2. CASE ~setup.preserve
    BY <1>4, <2>2 DEF Beat, Rests
  <2> QED
    BY <2>1, <2>2
<1>5. CASE MoveChannels
  BY <1>5, MoveChannelsRests
<1>6. CASE EndOfTrack \/ ReadError \/ EndOfFile
  BY <1>1, <1>6 DEF EndOfTrack, ReadError, EndOfFile, listVars, trackVars
<1>7. CASE CollectSignature \/ InsertNoteSteps \/ BeatsEnd
  BY <1>1, <1>7 DEF CollectSignature, InsertNoteSteps, BeatsEnd, listVars, trackVars
<1>8. CASE GroomEvent \/ GroomEnd
  BY <1>1, <1>8 DEF GroomEvent, GroomEnd, listVars, trackVars
<1>9. CASE UNCHANGED vars
  BY <1>1, <1>9 DEF vars, listVars, trackVars
<1> QED
  BY <1>2, <1>3, <1>4, <1>5, <1>6, <1>7, <1>8, <1>9 DEF Next, Reading, Working

(* The number of an event put out finds the event it was *)
LEMMA GoodOnTick ==
  ASSUME IInv, Sound, NEW o, GoodOut(Len(evlist), o)
  PROVE  o.kind # "eot" /\ o.time = SampleAt(TickOf(o.order)) /\ o.time <= INT_MAX
<1>1. PICK j \in 1..Len(evlist) :
        o.order = evlist[j].order /\ o.time = SampleAt(evlist[j].time)
  BY DEF GoodOut
<1> DEFINE k == CHOOSE i \in 1..Len(evlist) : evlist[i].order = o.order
<1>2. k \in 1..Len(evlist) /\ evlist[k].order = o.order
  BY <1>1
<1>3. TickOf(o.order) = evlist[k].time
  BY DEF TickOf
<1> HIDE DEF k
<1>4. k = j
  BY <1>1, <1>2 DEF Sound, Distinct
<1>5. o.kind # "eot" /\ o.time \in 0..INT_MAX
  BY DEF GoodOut
<1>6. o.time <= INT_MAX
  BY <1>5, Widths
<1> QED
  BY <1>1, <1>3, <1>4, <1>5, <1>6

LEMMA TimedOnTick ==
  ASSUME IInv, Sound, Timed, Rests
  PROVE  OnTick
<1> DEFINE tick(o) == IF o.kind = "eot" THEN groom.at ELSE TickOf(o.order)
<1> SUFFICES ASSUME phase \in {"done", "overflow"}, NoLongGap, NoLongTick
             PROVE  /\ \A i \in 1..Len(groom.out) :
                         /\ groom.out[i].time = SampleAt(tick(groom.out[i]))
                         /\ groom.out[i].time <= INT_MAX
                    /\ phase = "overflow" => SampleAt(groom.at) > INT_MAX
                    /\ setup.preserve /\ setup.quiet = {}
                         /\ (\E i \in 1..Len(evlist) : evlist[i].kind = "on") => Start = 0
  BY DEF OnTick
<1>1. ASSUME NEW i \in 1..Len(groom.out)
      PROVE  /\ groom.out[i].time = SampleAt(tick(groom.out[i]))
             /\ groom.out[i].time <= INT_MAX
  <2> DEFINE o == groom.out[i]
  <2>1. GoodOut(Len(evlist), o) \/ LastAt(o, groom.at)
    BY DEF Timed, AllGood
  <2> HIDE DEF o
  <2>2. CASE GoodOut(Len(evlist), o)
    <3>1. o.kind # "eot" /\ o.time = SampleAt(TickOf(o.order)) /\ o.time <= INT_MAX
      BY <2>2, GoodOnTick
    <3> QED
      BY <3>1 DEF o
  <2>3. CASE LastAt(o, groom.at)
    <3>1. o.kind = "eot" /\ o.time = SampleAt(groom.at) /\ o.time <= INT_MAX
      BY <2>3, Widths DEF LastAt
    <3> QED
      BY <3>1 DEF o
  <2> QED
    BY <2>1, <2>2, <2>3
<1>2. phase = "overflow" => SampleAt(groom.at) > INT_MAX
  BY DEF Timed
<1>3. ASSUME setup.preserve, setup.quiet = {},
             \E i \in 1..Len(evlist) : evlist[i].kind = "on"
      PROVE  Start = 0
  BY <1>3, StartsAtOnce
<1> QED
  BY <1>1, <1>2, <1>3

(* For every song, every clock and every width of the counts: each event   *)
(* groom_list() puts out is at the sample its tick falls on, a song is     *)
(* given up only where a time does not fit, and with opt_preserve_silence  *)
(* the song starts at its first tick - as long as no gap between events    *)
(* and no tick is longer than the counts hold.                             *)
THEOREM SamplesExact == Spec => []OnTick
<1>1. Init => Sound /\ Timed /\ Ungroomed /\ Rests
  BY InitSound, InitTimed
<1>2. IInv /\ IInv' /\ Sound /\ Timed /\ Ungroomed /\ Rests /\ [Next]_vars
        => (Sound /\ Timed /\ Ungroomed /\ Rests)'
  BY NextSound, NextTimed, NextRests
<1>3. IInv /\ Sound /\ Timed /\ Rests => OnTick
  BY TimedOnTick
<1> QED
  BY <1>1, <1>2, <1>3, Inductive, PTL DEF Spec

-----------------------------------------------------------------------------
(* Note steps.  What is in force, and which step follows which, does not   *)
(* depend on where an event stands in the list: it is said here of sets of *)
(* records, which a new step leaves alone or adds one to.                  *)
Records(events) == {events[i] : i \in 1..Len(events)}
SignaturesOf(X) == {x \in X : IsSignature(x)}
StepsOf(X) == {x \in X : x.kind = "step"}
Until(x, y) == x = y \/ Before(x, y)

(* v is in force at t by the signatures E *)
Rules(E, t, v) ==
  \/ v = Four4 /\ \A x \in E : x.time > t
  \/ \E x \in E : x.time <= t /\ x.val = v /\ \A y \in E : y.time <= t => Until(y, x)

(* The table as it comes about from the signatures E, for the times T *)
Ascends(E, table) ==
  /\ table # <<>> => table[1].time = 0
  /\ \A k \in 2..Len(table) :
       /\ table[k - 1].time < table[k].time
       /\ \E x \in E : x.time = table[k].time
       /\ table[k].sig = table[k - 1].sig =>
            \E x, y \in E : x # y /\ x.time = table[k].time /\ y.time = table[k].time
Row(table, k, t) == table[k].time <= t /\ (k < Len(table) => t < table[k + 1].time)
Governs(E, table, T) ==
  \A k \in 1..Len(table), t \in T : Row(table, k, t) => Rules(E, t, table[k].sig)
TableFor(E, table, T) == Ascends(E, table) /\ Governs(E, table, T)

(* the ticks of a step in a file of q divisions *)
Ticks(q, sig) == IF sig.denom = 0 THEN 0 ELSE (q * 4) \div sig.denom

(* the steps P and the signatures E, as Regular and Beats say it *)
Neighbours(P, d, e) == Before(d, e) /\ \A x \in P : Until(x, d) \/ Until(e, x)
Within(E, d, e) == {x \in E : d.time < x.time /\ x.time <= e.time}
Limits(q, E, last) ==
  \A sig \in {Four4} \cup {x.val : x \in E} :
    sig.num <= 15 /\ Ticks(q, sig) + last <= INT_MAX
Spaced(E, P) ==
  \A d, e \in P : Neighbours(P, d, e) =>
    \A x, y \in Within(E, d, e) : x.time = y.time
Succeeds(q, E, d, e) ==
  \E v, w : /\ Rules(E, d.time, v) /\ Rules(E, e.time, w)
            /\ e.time = d.time + Ticks(q, v)
            /\ IF d.val.beat = v.num \/ w # v THEN NewBar(d, e)
               ELSE SameBar(d, e) \/ (NewBar(d, e) /\ \E x, y \in Within(E, d, e) : x # y)
InStep(q, E, P) ==
  /\ \A d, e \in P : Neighbours(P, d, e) => Succeeds(q, E, d, e)
  /\ \A d \in P : (\A x \in P : Until(d, x)) =>
       d.time = 0 /\ d.val = [meas |-> 1, beat |-> 1]

(* where the loop stands behind the last step d *)
Stands(q, b, d) ==
  /\ b.n \in 1..Len(b.table)
  /\ Row(b.table, b.n, d.time)
  /\ b.sig = b.table[b.n].sig
  /\ d.time < b.last /\ b.at = d.time + Ticks(q, b.sig)
  /\ d.val.meas = (IF b.beat = 0 THEN b.meas ELSE b.meas + 1) % 4096
  /\ d.val.beat = IF b.beat = 0 THEN b.sig.num ELSE b.beat
  /\ b.beat < b.sig.num
Beginning(b) == b.at = 0 /\ b.n = 0 /\ b.meas = 0 /\ b.beat = 0 /\ b.sig = Four4
Ahead(q, E, P, b) ==
  /\ b.sig = Four4 \/ \E x \in E : x.val = b.sig
  /\ Limits(q, E, b.last) => b.at >= 0 /\ \A x \in P : x.time <= b.at
Going(q, E, P, b) ==
  /\ Ahead(q, E, P, b)
  /\ TableFor(E, b.table, 0..b.last - 1) /\ b.table # <<>>
  /\ Limits(q, E, b.last) /\ Spaced(E, P) =>
       /\ InStep(q, E, P)
       /\ \/ P = {} /\ Beginning(b)
          \/ \E d \in P : (\A x \in P : Until(x, d)) /\ Stands(q, b, d)

Collected == {evlist[i] : i \in {j \in 1..beat.i - 1 : IsSignature(evlist[j])}}
InTime ==
  /\ phase \in {"track", "events", "steps"} => StepsOf(Records(evlist)) = {} /\ Beginning(beat)
  /\ phase \in {"track", "events"} => beat.i = 1 /\ beat.table = <<>>
  /\ phase = "steps" =>
       TableFor(Collected, beat.table, Nat) /\ (beat.table = <<>> => Collected = {})
  /\ phase = "beat" /\ ~readmidi_error_flag =>
       Going(setup.divisions, SignaturesOf(Records(evlist)), StepsOf(Records(evlist)), beat)
  /\ phase = "move" => Beats

LEMMA RecordFacts ==
  ASSUME NEW events, Entries(events), Ordered(events)
  PROVE  /\ \A x \in Records(events) :
              /\ x.time \in Nat /\ x.order \in Nat /\ x.order <= Len(events)
              /\ x.kind = "sig" => x.val \in Signature
         /\ \A i, j \in 1..Len(events) : Before(events[i], events[j]) <=> i < j
         /\ \A i, j \in 1..Len(events) : Until(events[i], events[j]) <=> i <= j
         /\ \A i, j \in 1..Len(events) : events[i] = events[j] => i = j
<1>1. Len(events) \in Nat
  BY Length
<1>2. \A i \in 1..Len(events) : /\ events[i].time \in Nat /\ events[i].order \in 1..Len(events)
                                /\ events[i].kind = "sig" => events[i].val \in Signature
  BY DEF Entries
<1>3. \A i, j \in 1..Len(events) : i < j => Before(events[i], events[j])
  BY <1>1 DEF Ordered
<1>4. \A i, j \in 1..Len(events) :
        ~(Before(events[i], events[j]) /\ Before(events[j], events[i]))
  BY <1>1, <1>2 DEF Before
<1>5. \A i, j \in 1..Len(events) : Before(events[i], events[j]) <=> i < j
  <2> SUFFICES ASSUME NEW i \in 1..Len(events), NEW j \in 1..Len(events),
                      Before(events[i], events[j])
               PROVE  i < j
    BY <1>3
  <2>1. ~Before(events[j], events[i])
    BY <1>4
  <2>2. i # j
    BY <1>4
  <2> QED
    BY <1>1, <1>3, <2>1, <2>2
<1>6. \A i, j \in 1..Len(events) : events[i] = events[j] => i = j
  <2> SUFFICES ASSUME NEW i \in 1..Len(events), NEW j \in 1..Len(events),
                      events[i] = events[j], i # j
               PROVE  FALSE
    OBVIOUS
  <2>1. i < j \/ j < i
    BY <1>1
  <2> QED
    BY <1>3, <1>4, <2>1
<1>7. \A i, j \in 1..Len(events) : Until(events[i], events[j]) <=> i <= j
  BY <1>1, <1>5, <1>6 DEF Until
<1>8. \A x \in Records(events) :
         /\ x.time \in Nat /\ x.order \in Nat /\ x.order <= Len(events)
         /\ x.kind = "sig" => x.val \in Signature
  BY <1>1, <1>2 DEF Records
<1> QED
  BY <1>5, <1>6, <1>7, <1>8

(* readmidi_add_event() adds a record behind all others of its time. *)
LEMMA InsertedRecords ==
  ASSUME NEW events, NEW p, NEW e, Len(events) \in Nat, p \in 0..Len(events)
  PROVE  Records(Inserted(events, p, e)) = Records(events) \cup {e}
<1> DEFINE n == Len(events)
           new == Inserted(events, p, e)
<1>1. /\ new = [i \in 1..n + 1 |->
                  IF i <= p THEN events[i] ELSE IF i = p + 1 THEN e ELSE events[i - 1]]
      /\ Len(new) = n + 1
  BY DEF Inserted
<1>2. p \in Nat /\ p <= n /\ n \in Nat
  OBVIOUS
<1> HIDE DEF new
<1>3. ASSUME NEW i \in 1..n + 1
      PROVE  new[i] \in Records(events) \cup {e}
  <2>1. CASE i <= p
    <3>1. new[i] = events[i] /\ i \in 1..n
      BY <1>1, <1>2, <2>1
    <3> QED
      BY <3>1 DEF Records
  <2>2. CASE i = p + 1
    BY <1>1, <1>2, <2>2
  <2>3. CASE i > p + 1
    <3>1. new[i] = events[i - 1] /\ i - 1 \in 1..n
      BY <1>1, <1>2, <2>3
    <3> QED
      BY <3>1 DEF Records
  <2> QED
    BY <1>2, <2>1, <2>2, <2>3
<1>4. ASSUME NEW i \in 1..n
      PROVE  events[i] \in Records(new)
  <2>1. CASE i <= p
    <3>1. new[i] = events[i] /\ i \in 1..Len(new)
      BY <1>1, <1>2, <2>1
    <3> QED
      BY <3>1 DEF Records
  <2>2. CASE i > p
    <3>1. new[i + 1] = events[i] /\ i + 1 \in 1..Len(new)
      BY <1>1, <1>2, <2>2
    <3> QED
      BY <3>1 DEF Records
  <2> QED
    BY <1>2, <2>1, <2>2
<1>5. e \in Records(new)
  <2>1. new[p + 1] = e /\ p + 1 \in 1..Len(new)
    BY <1>1, <1>2
  <2> QED
    BY <2>1 DEF Records
<1>6. Records(new) \subseteq Records(events) \cup {e}
  BY <1>1, <1>3 DEF Records
<1>7. Records(events) \subseteq Records(new)
  BY <1>4 DEF Records
<1> QED
  BY <1>5, <1>6, <1>7 DEF new

(* m is l with a record of e at the time `at` added to it *)
AddsRecord(l, m, at, e) ==
  /\ ~l.error /\ ~m.error
  /\ \E r : /\ Records(m.events) = Records(l.events) \cup {r}
            /\ r.kind = e.kind /\ r.ch = e.ch /\ r.val = e.val
            /\ r.time = NotBelow0(at) /\ r.order = Len(l.events) + 1
LEMMA AddRecords ==
  ASSUME NEW l, WellFormed(l), NEW at \in Int, NEW e
  PROVE  \/ Add(l, at, e).error /\ Add(l, at, e).events = l.events
         \/ AddsRecord(l, Add(l, at, e), at, e)
<1>1. /\ Entries(l.events) /\ Ordered(l.events) /\ l.point \in 1..Len(l.events)
      /\ Len(l.events) \in Nat
  BY Length DEF WellFormed
<1>2. CASE l.error
  BY <1>2 DEF Add
<1>3. CASE ~l.error /\ Len(l.events) >= MAX_MIDI_EVENT
  <2>1. Add(l, at, e) = [l EXCEPT !.error = TRUE]
    BY <1>3 DEF Add
  <2>2. Add(l, at, e) = [events |-> l.events, point |-> l.point, error |-> TRUE]
    BY <2>1 DEF WellFormed
  <2> QED
    BY <2>2
<1>4. CASE ~l.error /\ ~(Len(l.events) >= MAX_MIDI_EVENT)
  <2> DEFINE time == NotBelow0(at)
             p == Place(l.events, l.point, time)
             r == [kind |-> e.kind, ch |-> e.ch, val |-> e.val, time |-> time,
                   order |-> Len(l.events) + 1]
  <2>1. Add(l, at, e) = [events |-> Inserted(l.events, p, r), point |-> p + 1,
                         error |-> FALSE]
    BY <1>4 DEF Add
  <2>2. time \in Nat
    BY DEF NotBelow0
  <2>3. /\ r.kind = e.kind /\ r.ch = e.ch /\ r.val = e.val
        /\ r.time = NotBelow0(at) /\ r.order = Len(l.events) + 1
    OBVIOUS
  <2> HIDE DEF time
  <2>4. p \in 0..Len(l.events)
    BY <1>1, <2>2, PlaceSplits
  <2> HIDE DEF p, r
  <2>5. Records(Inserted(l.events, p, r)) = Records(l.events) \cup {r}
    BY <1>1, <2>4, InsertedRecords
  <2>6. ~Add(l, at, e).error /\ Add(l, at, e).events = Inserted(l.events, p, r)
    BY <2>1
  <2> QED
    BY <1>4, <2>3, <2>5, <2>6 DEF AddsRecord
<1> QED
  BY <1>2, <1>3, <1>4

(* An event of the file is no note step. *)
LEMMA AddNoStep ==
  ASSUME NEW l, WellFormed(l), StepsOf(Records(l.events)) = {}, NEW at \in Int,
         NEW e, Wanted(e), e.kind # "step"
  PROVE  WellFormed(Add(l, at, e)) /\ StepsOf(Records(Add(l, at, e).events)) = {}
<1>1. WellFormed(Add(l, at, e))
  BY AddKeepsOrder
<1>a. \/ Add(l, at, e).error /\ Add(l, at, e).events = l.events
      \/ AddsRecord(l, Add(l, at, e), at, e)
  BY AddRecords
<1>2. \/ Add(l, at, e).events = l.events
      \/ \E r : r.kind = e.kind /\ Records(Add(l, at, e).events) = Records(l.events) \cup {r}
  BY <1>a DEF AddsRecord
<1>3. StepsOf(Records(Add(l, at, e).events)) = {}
  BY <1>2 DEF StepsOf
<1> QED
  BY <1>1, <1>3

LEMMA ReadEventNoStep ==
  ASSUME IInv, StepsOf(Records(evlist)) = {},
         NEW delta \in setup.deltas, NEW e \in setup.events, ReadEvent(delta, e)
  PROVE  StepsOf(Records(evlist')) = {}
<1> DEFINE at == Wrapped(smf_at_time + delta)
           quietly == e.kind = "on" /\ ~note_seen /\ at > 0
           on == Note("on", e.ch)
           off == Note("off", e.ch)
           one == Add(List, 0, on)
           two == Add(one, 0, off)
           before == IF quietly THEN Silent(List, e.ch) ELSE List
           with == Add(before, at, e)
           second == [e EXCEPT !.ch = 1]
           after == IF e.kind = "sig" THEN Add(with, at, second) ELSE with
           Good(l) == WellFormed(l) /\ StepsOf(Records(l.events)) = {}
<1>1. ListIs(after)
  BY DEF ReadEvent
<1>2. Good(List)
  BY DEF IInv, List
<1>3. at \in Int
  <2>1. delta \in Nat /\ smf_at_time \in Int
    BY DEF IInv, Setup
  <2> QED
    BY <2>1, WrappedType
<1>4. /\ Wanted(e) /\ Wanted(second)
      /\ Wanted(on) /\ Wanted(off)
  BY WantedInFile DEF IInv, Wanted, Note
<1>5. /\ e.kind # "step" /\ second.kind # "step"
      /\ on.kind # "step" /\ off.kind # "step"
  <2>1. e \in ([kind: {"on", "off"}, ch: Channels, val: {0}]
             \cup [kind: {"tempo"}, ch: {0}, val: Nat]
             \cup [kind: {"sig"}, ch: {0}, val: Signature]
             \cup [kind: {"text"}, ch: {0}, val: {0}])
    BY DEF IInv, Setup
  <2>2. e.kind \in {"on", "off", "tempo", "sig", "text"} /\ second.kind = e.kind
    BY <2>1
  <2> QED
    BY <2>2 DEF Note
<1>9. Silent(List, e.ch) = two
  BY DEF Silent
<1> HIDE DEF at, second, on, off
<1>6. ASSUME NEW l, Good(l), NEW t \in Int, NEW x, Wanted(x), x.kind # "step"
      PROVE  Good(Add(l, t, x))
  BY <1>6, AddNoStep
<1> HIDE DEF Good
<1>0. 0 \in Int
  OBVIOUS
<1>7. Good(one)
  BY <1>0, <1>2, <1>4, <1>5, <1>6
<1> HIDE DEF one
<1>8. Good(two)
  BY <1>0, <1>4, <1>5, <1>6, <1>7
<1> HIDE DEF two
<1>10. Good(before)
  BY <1>2, <1>8, <1>9
<1> HIDE DEF before
<1>11. Good(with)
  BY <1>3, <1>4, <1>5, <1>6, <1>10
<1> HIDE DEF with
<1>12. Good(after)
  BY <1>3, <1>4, <1>5, <1>6, <1>11
<1> HIDE DEF after
<1> QED
  BY <1>1, <1>12 DEF Good, ListIs

-----------------------------------------------------------------------------
(* The table of time signatures *)
Times(E) == \A x \in E : x.time \in Nat /\ x.order \in Nat
Behind(E, e) == \A x \in E : Before(x, e)

(* What comes later does not change what is in force. *)
LEMMA RulesLater ==
  ASSUME NEW E, NEW D, NEW t \in Nat, NEW v, Rules(E, t, v), E \subseteq D, Times(D),
         \A x \in D \ E : x.time > t
  PROVE  Rules(D, t, v)
<1>1. CASE v = Four4 /\ \A x \in E : x.time > t
  BY <1>1 DEF Rules
<1>2. CASE \E x \in E : x.time <= t /\ x.val = v /\ \A y \in E : y.time <= t => Until(y, x)
  <2>1. PICK x \in E : x.time <= t /\ x.val = v /\ \A y \in E : y.time <= t => Until(y, x)
    BY <1>2
  <2>2. \A y \in D : y.time <= t => y \in E
    BY DEF Times
  <2> QED
    BY <2>1, <2>2 DEF Rules
<1> QED
  BY <1>1, <1>2 DEF Rules

LEMMA RulesLast ==
  ASSUME NEW E, NEW e, Behind(E, e), NEW t, e.time <= t
  PROVE  Rules(E \cup {e}, t, e.val)
<1>1. \A y \in E \cup {e} : Until(y, e)
  BY DEF Behind, Until
<1> QED
  BY <1>1 DEF Rules

(* The rows of the table are not later than the signatures behind them. *)
LEMMA RowsBefore ==
  ASSUME NEW E, Times(E), NEW table \in Table, Ascends(E, table), NEW e, e.time \in Nat,
         Behind(E, e), NEW k \in 1..Len(table)
  PROVE  table[k].time \in Nat /\ table[k].time <= e.time
<1>1. Len(table) \in Nat
  BY TableType
<1>2. CASE k = 1
  <2>1. table # <<>>
    BY <1>1, <1>2
  <2>2. table[1].time = 0
    BY <2>1 DEF Ascends
  <2> QED
    BY <1>2, <2>2
<1>3. CASE k # 1
  <2>1. k \in 2..Len(table)
    BY <1>1, <1>3
  <2>2. PICK x \in E : x.time = table[k].time
    BY <2>1 DEF Ascends
  <2>3. Before(x, e)
    BY DEF Behind
  <2> QED
    BY <2>2, <2>3 DEF Before, Times
<1> QED
  BY <1>2, <1>3

LEMMA NoRowYet ==
  ASSUME NEW e, e.time = 0, e.val \in Signature
  PROVE  TableFor({e}, <<At(0, e.val)>>, Nat)
<1> DEFINE s == <<At(0, e.val)>>
<1>1. Len(s) = 1 /\ s[1].time = 0 /\ s[1].sig = e.val
  BY DEF At
<1> HIDE DEF s
<1>2. Ascends({e}, s)
  BY <1>1 DEF Ascends
<1>3. Behind({}, e) /\ {} \cup {e} = {e}
  BY DEF Behind
<1>4. ASSUME NEW k \in 1..Len(s), NEW t \in Nat
      PROVE  Rules({e}, t, s[k].sig)
  <2>1. k = 1 /\ e.time <= t
    BY <1>1
  <2>2. Rules({} \cup {e}, t, e.val)
    BY <1>3, <2>1, RulesLast
  <2> QED
    BY <1>1, <1>3, <2>1, <2>2
<1>5. Governs({e}, s, Nat)
  BY <1>4 DEF Governs
<1> QED
  BY <1>2, <1>5 DEF s, TableFor

LEMMA DefaultRow == TableFor({}, <<At(0, Four4)>>, Nat)
<1> DEFINE s == <<At(0, Four4)>>
<1>1. Len(s) = 1 /\ s[1].time = 0 /\ s[1].sig = Four4
  BY DEF At
<1> HIDE DEF s
<1>2. Ascends({}, s)
  BY <1>1 DEF Ascends
<1>3. Governs({}, s, Nat)
  BY <1>1 DEF Governs, Rules
<1> QED
  BY <1>2, <1>3 DEF s, TableFor

(* A signature is passed over, replaces the last row or becomes a new one. *)
LEMMA NextRow ==
  ASSUME NEW E, Times(E), NEW table \in Table, TableFor(E, table, Nat), Len(table) > 0,
         NEW e, e.time \in Nat, e.order \in Nat, e.val \in Signature, Behind(E, e)
  PROVE  TableFor(E \cup {e}, WithSignature(table, e), Nat)
<1> DEFINE n == Len(table)
           D == E \cup {e}
<1>1. n \in Nat \ {0} /\ Ascends(E, table) /\ Governs(E, table, Nat) /\ Times(D)
  BY TableType DEF TableFor, Times
<1>2. \A k \in 1..n : table[k].time \in Nat /\ table[k].time <= e.time
  BY <1>1, RowsBefore
<1>3. ASSUME NEW k \in 1..n, NEW t \in Nat, Row(table, k, t), t < e.time
      PROVE  Rules(D, t, table[k].sig)
  <2>1. Rules(E, t, table[k].sig)
    BY <1>1, <1>3 DEF Governs
  <2> QED
    BY <1>1, <1>3, <2>1, RulesLater
<1>4. \A t \in Nat : e.time <= t => Rules(D, t, e.val)
  BY RulesLast
<1>5. \A k \in 2..n :
        /\ table[k - 1].time < table[k].time
        /\ \E x \in D : x.time = table[k].time
        /\ table[k].sig = table[k - 1].sig =>
             \E x, y \in D : x # y /\ x.time = table[k].time /\ y.time = table[k].time
  BY <1>1 DEF Ascends
<1>6. table[1].time = 0
  <2>1. table # <<>>
    BY <1>1
  <2> QED
    BY <1>1, <2>1 DEF Ascends
<1> HIDE DEF D
<1>7. CASE table[n].sig = e.val
  <2>1. WithSignature(table, e) = table
    BY <1>1, <1>7 DEF WithSignature
  <2>2. Ascends(D, table)
    BY <1>5, <1>6 DEF Ascends
  <2>3. ASSUME NEW k \in 1..n, NEW t \in Nat, Row(table, k, t)
        PROVE  Rules(D, t, table[k].sig)
    <3>1. CASE t < e.time
      BY <1>3, <2>3, <3>1
    <3>2. CASE t >= e.time
      <4>1. k = n
        BY <1>1, <1>2, <2>3, <3>2 DEF Row
      <4> QED
        BY <1>4, <1>7, <3>2, <4>1
    <3> QED
      BY <1>2, <3>1, <3>2
  <2> QED
    BY <2>1, <2>2, <2>3 DEF TableFor, Governs, D
<1>8. CASE table[n].sig # e.val /\ table[n].time = e.time
  <2> DEFINE w == [table EXCEPT ![n] = At(e.time, e.val)]
  <2>1. WithSignature(table, e) = w
    BY <1>1, <1>8 DEF WithSignature
  <2>2. /\ Len(w) = n /\ w[n].time = e.time /\ w[n].sig = e.val
        /\ \A k \in 1..n : k # n => w[k] = table[k]
    <3>1. table \in Seq([time: Nat, sig: Signature]) /\ n \in DOMAIN table
      BY <1>1 DEF Table
    <3> QED
      BY <1>1, <3>1 DEF At
  <2> HIDE DEF w
  <2>3. \A k \in 1..n : w[k].time = table[k].time
    BY <1>8, <2>2
  <2>4. w[1].time = 0 /\ w # <<>>
    BY <1>1, <1>6, <2>2, <2>3
  <2>5. ASSUME NEW k \in 2..n
        PROVE  /\ w[k - 1].time < w[k].time
               /\ \E x \in D : x.time = w[k].time
               /\ w[k].sig = w[k - 1].sig =>
                    \E x, y \in D : x # y /\ x.time = w[k].time /\ y.time = w[k].time
    <3>1. k \in 1..n /\ k - 1 \in 1..n
      BY <1>1
    <3>2. w[k].time = table[k].time /\ w[k - 1].time = table[k - 1].time
      BY <2>3, <3>1
    <3>3. w[k - 1].time < w[k].time /\ \E x \in D : x.time = w[k].time
      BY <1>5, <3>2
    <3>4. CASE k # n
      <4>1. w[k] = table[k] /\ w[k - 1] = table[k - 1]
        BY <1>1, <2>2, <3>1, <3>4
      <4> QED
        BY <1>5, <3>3, <4>1
    <3>5. CASE k = n
      <4>1. PICK x \in E : x.time = table[n].time
        BY <1>1, <3>5 DEF Ascends
      <4>2. Before(x, e) /\ x.time = e.time /\ x \in D /\ e \in D
        BY <1>8, <4>1 DEF Behind, D
      <4>3. x # e
        BY <4>2 DEF Before
      <4>4. x.time = w[k].time /\ e.time = w[k].time
        BY <3>5, <2>2, <4>2
      <4> QED
        BY <3>3, <4>2, <4>3, <4>4
    <3> QED
      BY <3>4, <3>5
  <2>6. Ascends(D, w)
    BY <2>2, <2>4, <2>5 DEF Ascends
  <2>7. ASSUME NEW k \in 1..n, NEW t \in Nat, Row(w, k, t)
        PROVE  Rules(D, t, w[k].sig)
    <3>1. Row(table, k, t)
      BY <1>1, <2>2, <2>3, <2>7 DEF Row
    <3>2. CASE t < e.time
      <4>1. k # n
        BY <1>8, <3>1, <3>2 DEF Row
      <4> QED
        BY <1>3, <2>2, <3>1, <3>2, <4>1
    <3>3. CASE t >= e.time
      <4>1. k = n
        BY <1>1, <1>2, <3>1, <3>3 DEF Row
      <4> QED
        BY <1>4, <2>2, <3>3, <4>1
    <3> QED
      BY <3>2, <3>3
  <2> QED
    BY <2>1, <2>2, <2>6, <2>7 DEF TableFor, Governs, D
<1>9. CASE table[n].sig # e.val /\ table[n].time # e.time
  <2> DEFINE w == Append(table, At(e.time, e.val))
  <2>1. WithSignature(table, e) = w
    BY <1>1, <1>9 DEF WithSignature
  <2>2. /\ Len(w) = n + 1 /\ w[n + 1].time = e.time /\ w[n + 1].sig = e.val
        /\ \A k \in 1..n : w[k] = table[k]
    <3>1. Listed(table)
      BY DEF Table, Listed
    <3> QED
      BY <1>1, <3>1, AppendFacts DEF At
  <2> HIDE DEF w
  <2>3. table[n].time < e.time
    BY <1>1, <1>2, <1>9
  <2>4. w[1].time = 0 /\ w # <<>>
    BY <1>1, <1>6, <2>2
  <2>5. ASSUME NEW k \in 2..n + 1
        PROVE  /\ w[k - 1].time < w[k].time
               /\ \E x \in D : x.time = w[k].time
               /\ w[k].sig = w[k - 1].sig =>
                    \E x, y \in D : x # y /\ x.time = w[k].time /\ y.time = w[k].time
    <3>1. CASE k = n + 1
      <4>1. w[k - 1] = table[n] /\ w[k].time = e.time /\ w[k].sig = e.val
        BY <1>1, <2>2, <3>1
      <4> QED
        BY <1>9, <2>3, <4>1 DEF D
    <3>2. CASE k # n + 1
      <4>1. k \in 2..n /\ w[k] = table[k] /\ w[k - 1] = table[k - 1]
        BY <1>1, <2>2, <3>2
      <4> QED
        BY <1>5, <4>1
    <3> QED
      BY <3>1, <3>2
  <2>6. Ascends(D, w)
    BY <1>1, <2>2, <2>4, <2>5 DEF Ascends
  <2>7. ASSUME NEW k \in 1..n + 1, NEW t \in Nat, Row(w, k, t)
        PROVE  Rules(D, t, w[k].sig)
    <3>1. CASE k = n + 1
      <4>1. e.time <= t
        BY <2>2, <2>7, <3>1 DEF Row
      <4> QED
        BY <1>4, <2>2, <3>1, <4>1
    <3>2. CASE k # n + 1
      <4>1. k \in 1..n /\ w[k] = table[k] /\ k < n + 1
        BY <1>1, <2>2, <3>2
      <4>2. table[k].time <= t /\ t < w[k + 1].time
        BY <2>2, <2>7, <4>1 DEF Row
      <4>3. w[k + 1].time <= e.time /\ (k < n => w[k + 1] = table[k + 1])
        <5>1. CASE k = n
          BY <1>2, <2>2, <4>1, <5>1
        <5>2. CASE k < n
          <6>1. k + 1 \in 1..n
            BY <1>1, <4>1, <5>2
          <6> QED
            BY <1>2, <2>2, <6>1
        <5> QED
          BY <1>1, <4>1, <5>1, <5>2
      <4>4. Row(table, k, t)
        BY <4>2, <4>3 DEF Row
      <4>5. t < e.time
        <5>1. w[k + 1].time \in Nat
          <6>1. CASE k = n
            BY <2>2, <6>1
          <6>2. CASE k < n
            <7>1. k + 1 \in 1..n
              BY <1>1, <4>1, <6>2
            <7> QED
              BY <1>2, <2>2, <7>1
          <6> QED
            BY <1>1, <4>1, <6>1, <6>2
        <5> QED
          BY <4>2, <4>3, <5>1
      <4> QED
        BY <1>3, <4>1, <4>4, <4>5
    <3> QED
      BY <3>1, <3>2
  <2> QED
    BY <2>1, <2>2, <2>6, <2>7 DEF TableFor, Governs, D
<1> QED
  BY <1>7, <1>8, <1>9

LEMMA CollectTable ==
  ASSUME NEW E, Times(E), NEW table \in Table, TableFor(E, table, Nat),
         table = <<>> => E = {},
         NEW e, e.time \in Nat, e.order \in Nat, e.val \in Signature, Behind(E, e)
  PROVE  TableFor(E \cup {e}, WithSignature(WithDefault(table, e), e), Nat)
<1>1. Len(table) \in Nat
  BY TableType
<1>2. CASE table = <<>> /\ e.time = 0
  <2>1. WithDefault(table, e) = <<>> /\ E \cup {e} = {e}
    BY <1>2 DEF WithDefault
  <2>2. WithSignature(<<>>, e) = <<At(0, e.val)>>
    BY <1>2 DEF WithSignature
  <2> QED
    BY <1>2, <2>1, <2>2, NoRowYet
<1>3. CASE table = <<>> /\ e.time # 0
  <2> DEFINE s == <<At(0, Four4)>>
  <2>1. WithDefault(table, e) = s /\ E = {} /\ Len(s) > 0
    BY <1>3 DEF WithDefault
  <2>2. TableFor(E, s, Nat) /\ s \in Table
    BY <2>1, DefaultRow, TableType
  <2> HIDE DEF s
  <2> QED
    BY <2>1, <2>2, NextRow
<1>4. CASE table # <<>>
  <2>1. WithDefault(table, e) = table
    BY <1>4 DEF WithDefault
  <2>2. Len(table) > 0
    BY <1>1, <1>4 DEF Table
  <2> QED
    BY <2>1, <2>2, NextRow
<1> QED
  BY <1>2, <1>3, <1>4

LEMMA SignatureRow ==
  ASSUME NEW table \in Table, NEW e, e.time \in Nat, e.val \in Signature
  PROVE  WithSignature(table, e) # <<>>
<1> DEFINE n == Len(table)
<1>1. n \in Nat /\ (n > 0 => table # <<>>)
  BY TableType
<1>2. CASE n > 0 /\ table[n].sig = e.val
  BY <1>1, <1>2 DEF WithSignature
<1>3. CASE n > 0 /\ table[n].sig # e.val /\ table[n].time = e.time
  <2>1. WithSignature(table, e) = [table EXCEPT ![n] = At(e.time, e.val)]
    BY <1>3 DEF WithSignature
  <2>2. Len([table EXCEPT ![n] = At(e.time, e.val)]) = n
    BY <1>1 DEF Table
  <2> QED
    BY <1>3, <2>1, <2>2
<1>4. CASE n = 0 \/ (table[n].sig # e.val /\ table[n].time # e.time)
  <2>1. WithSignature(table, e) = Append(table, At(e.time, e.val))
    BY <1>1, <1>4 DEF WithSignature
  <2>2. Listed(table)
    BY DEF Table, Listed
  <2>3. Len(WithSignature(table, e)) = n + 1
    BY <2>1, <2>2, AppendFacts
  <2> QED
    BY <1>1, <2>3
<1> QED
  BY <1>1, <1>2, <1>3, <1>4

LEMMA CollectedFacts ==
  ASSUME IInv
  PROVE  /\ Collected \subseteq SignaturesOf(Records(evlist))
         /\ Times(SignaturesOf(Records(evlist))) /\ Times(Collected)
         /\ Behind(Collected, evlist[beat.i])
         /\ \A x \in SignaturesOf(Records(evlist)) \ Collected : x.time >= evlist[beat.i].time
<1>1. /\ Entries(evlist) /\ Ordered(evlist) /\ Len(evlist) \in Nat
      /\ beat.i \in 1..Len(evlist) /\ beat.i \in Nat
  BY ListFacts DEF IInv, BeatState
<1>2. Collected \subseteq SignaturesOf(Records(evlist))
  <2> SUFFICES ASSUME NEW j \in 1..beat.i - 1, IsSignature(evlist[j])
               PROVE  evlist[j] \in SignaturesOf(Records(evlist))
    BY DEF Collected
  <2>1. j \in 1..Len(evlist)
    BY <1>1
  <2> QED
    BY <2>1 DEF SignaturesOf, Records
<1>3. Times(Records(evlist))
  BY <1>1, RecordFacts DEF Times
<1>4. Times(SignaturesOf(Records(evlist)))
  BY <1>3 DEF Times, SignaturesOf
<1>5. Times(Collected)
  BY <1>2, <1>4 DEF Times
<1>6. Behind(Collected, evlist[beat.i])
  <2> SUFFICES ASSUME NEW j \in 1..beat.i - 1
               PROVE  Before(evlist[j], evlist[beat.i])
    BY DEF Behind, Collected
  <2> QED
    BY <1>1 DEF Ordered
<1>7. ASSUME NEW x \in SignaturesOf(Records(evlist)), x \notin Collected
      PROVE  x.time >= evlist[beat.i].time
  <2>1. PICK j \in 1..Len(evlist) : x = evlist[j]
    BY DEF SignaturesOf, Records
  <2>2. IsSignature(evlist[j])
    BY <2>1 DEF SignaturesOf
  <2>3. j \notin 1..beat.i - 1
    BY <1>7, <2>1, <2>2 DEF Collected
  <2>4. beat.i = j \/ beat.i \in 1..j - 1
    BY <1>1, <2>3
  <2>5. evlist[beat.i].time \in Nat /\ evlist[j].time \in Nat
    BY <1>1 DEF Entries
  <2>6. evlist[beat.i] = evlist[j] \/ Before(evlist[beat.i], evlist[j])
    BY <1>1, <2>4 DEF Ordered
  <2> QED
    BY <2>1, <2>5, <2>6 DEF Before
<1> QED
  BY <1>2, <1>4, <1>5, <1>6, <1>7

LEMMA CollectSignatureInTime ==
  ASSUME IInv, InTime, CollectSignature
  PROVE  InTime'
<1> DEFINE e == evlist[beat.i]
           table == IF IsSignature(e) THEN WithSignature(WithDefault(beat.table, e), e)
                    ELSE beat.table
<1>1. /\ beat' = [beat EXCEPT !.i = @ + 1, !.table = table]
      /\ phase = "steps" /\ UNCHANGED <<phase, evlist>> /\ beat.i < Len(evlist)
  BY DEF CollectSignature, More, listVars
<1>2. /\ Entries(evlist) /\ Len(evlist) \in Nat /\ beat \in BeatState
      /\ beat.i \in 1..Len(evlist) /\ beat.i \in Nat \ {0} /\ beat.table \in Table
  BY ListFacts DEF IInv, BeatState
<1>3. e.time \in Nat /\ e.order \in Nat /\ (IsSignature(e) => e.val \in Signature)
  BY <1>2 DEF Entries, IsSignature
<1>4. /\ StepsOf(Records(evlist)) = {} /\ Beginning(beat)
      /\ TableFor(Collected, beat.table, Nat) /\ (beat.table = <<>> => Collected = {})
  BY <1>1 DEF InTime
<1>5. Times(Collected) /\ Behind(Collected, e)
  BY CollectedFacts
<1>6. /\ beat'.i = beat.i + 1 /\ beat'.table = table
      /\ beat'.at = beat.at /\ beat'.n = beat.n /\ beat'.meas = beat.meas
      /\ beat'.beat = beat.beat /\ beat'.sig = beat.sig
  BY <1>1, <1>2 DEF BeatState
<1>7. 1..beat'.i - 1 = (1..beat.i - 1) \cup {beat.i}
  BY <1>2, <1>6
<1>8. Collected' = {evlist[i] : i \in {j \in 1..beat'.i - 1 : IsSignature(evlist[j])}}
  BY <1>1 DEF Collected
<1>9. Collected' = IF IsSignature(e) THEN Collected \cup {e} ELSE Collected
  BY <1>7, <1>8 DEF Collected
<1> HIDE DEF e
<1>10. TableFor(Collected', beat'.table, Nat) /\ (beat'.table = <<>> => Collected' = {})
  <2>1. CASE ~IsSignature(e)
    BY <1>4, <1>6, <1>9, <2>1
  <2>2. CASE IsSignature(e)
    <3>1. TableFor(Collected \cup {e}, WithSignature(WithDefault(beat.table, e), e), Nat)
      BY <1>2, <1>3, <1>4, <1>5, <2>2, CollectTable
    <3>2. WithDefault(beat.table, e) \in Table
      BY <1>2, TableType DEF WithDefault
    <3>3. WithSignature(WithDefault(beat.table, e), e) # <<>>
      BY <1>3, <2>2, <3>2, SignatureRow
    <3> QED
      BY <1>6, <1>9, <2>2, <3>1, <3>3
  <2> QED
    BY <2>1, <2>2
<1>11. StepsOf(Records(evlist')) = {} /\ Beginning(beat')
  BY <1>1, <1>4, <1>6 DEF Beginning
<1>12. phase' = "steps"
  BY <1>1
<1> QED
  BY <1>10, <1>11, <1>12 DEF InTime

LEMMA InsertNoteStepsInTime ==
  ASSUME IInv, InTime, InsertNoteSteps
  PROVE  InTime'
<1> DEFINE last == evlist[beat.i].time
           table == IF beat.table = <<>> THEN <<At(0, Four4)>> ELSE beat.table
           E == SignaturesOf(Records(evlist))
           P == StepsOf(Records(evlist))
           q == setup.divisions
<1>1. /\ beat' = [beat EXCEPT !.last = last, !.table = table]
      /\ phase = "steps" /\ phase' = "beat" /\ UNCHANGED <<evlist, setup>>
  BY DEF InsertNoteSteps
<1>2. /\ beat \in BeatState /\ Entries(evlist) /\ beat.i \in 1..Len(evlist) /\ last \in Nat
  <2>1. /\ beat \in BeatState /\ Entries(evlist) /\ beat.i \in 1..Len(evlist)
    BY ListFacts DEF IInv, BeatState
  <2> QED
    BY <2>1 DEF Entries
<1>3. /\ P = {} /\ Beginning(beat)
      /\ TableFor(Collected, beat.table, Nat) /\ (beat.table = <<>> => Collected = {})
  BY <1>1 DEF InTime
<1>4. /\ Collected \subseteq E /\ Times(E) /\ \A x \in E \ Collected : x.time >= last
  BY CollectedFacts
<1>5. /\ beat'.last = last /\ beat'.table = table
      /\ beat'.at = beat.at /\ beat'.n = beat.n /\ beat'.meas = beat.meas
      /\ beat'.beat = beat.beat /\ beat'.sig = beat.sig
  BY <1>1, <1>2 DEF BeatState
<1>6. TableFor(Collected, table, Nat) /\ table # <<>>
  <2>1. <<At(0, Four4)>> # <<>>
    OBVIOUS
  <2> QED
    BY <1>3, <2>1, DefaultRow
<1> HIDE DEF last, table, E, P, q
<1>7. Ascends(E, table)
  BY <1>4, <1>6 DEF TableFor, Ascends
<1>8. Governs(E, table, 0..last - 1)
  <2> SUFFICES ASSUME NEW k \in 1..Len(table), NEW t \in 0..last - 1, Row(table, k, t)
               PROVE  Rules(E, t, table[k].sig)
    BY DEF Governs
  <2>1. t \in Nat /\ t < last
    BY <1>2
  <2>2. Rules(Collected, t, table[k].sig)
    BY <1>6, <2>1 DEF TableFor, Governs
  <2>3. \A x \in E \ Collected : x.time > t
    BY <1>2, <1>4, <2>1 DEF Times
  <2> QED
    BY <1>4, <2>1, <2>2, <2>3, RulesLater
<1>9. TableFor(E, beat'.table, 0..beat'.last - 1)
  BY <1>5, <1>7, <1>8 DEF TableFor
<1>10. Ahead(q, E, P, beat') /\ InStep(q, E, P) /\ Beginning(beat')
  BY <1>3, <1>5 DEF Ahead, InStep, Beginning
<1>11. Going(q, E, P, beat')
  BY <1>3, <1>5, <1>6, <1>9, <1>10 DEF Going
<1>12. /\ E = SignaturesOf(Records(evlist')) /\ P = StepsOf(Records(evlist'))
       /\ q = setup'.divisions
  BY <1>1 DEF E, P, q
<1> QED
  BY <1>1, <1>11, <1>12 DEF InTime

-----------------------------------------------------------------------------
(* A step goes on from the one before it *)
LEMMA BeforeFacts ==
  ASSUME NEW x, NEW y, x.time \in Nat, x.order \in Nat, y.time \in Nat, y.order \in Nat
  PROVE  /\ ~Before(x, x)
         /\ Before(x, y) => ~Until(y, x)
         /\ Until(x, y) /\ Until(y, x) => x = y
<1>1. ~Before(x, x) /\ ~(Before(x, y) /\ Before(y, x))
  BY DEF Before
<1> QED
  BY <1>1 DEF Until

LEMMA TicksType ==
  ASSUME NEW q \in Nat, NEW sig \in Signature
  PROVE  Ticks(q, sig) \in Nat
<1>1. sig.denom \in Nat
  BY SignatureType
<1>2. \A d \in Nat \ {0} : (q * 4) \div d \in Nat
  OBVIOUS
<1> QED
  BY <1>1, <1>2 DEF Ticks

Known(E, sig) == sig = Four4 \/ \E x \in E : x.val = sig
Typed(E) == Times(E) /\ \A x \in E : x.val \in Signature

LEMMA KnownLimits ==
  ASSUME NEW q, NEW E, NEW last, Limits(q, E, last), NEW sig, Known(E, sig)
  PROVE  sig.num <= 15 /\ Ticks(q, sig) + last <= INT_MAX
BY DEF Limits, Known

LEMMA RulesKnown ==
  ASSUME NEW E, NEW t, NEW v, Rules(E, t, v)
  PROVE  Known(E, v)
BY DEF Rules, Known

LEMMA RowTimes ==
  ASSUME NEW table \in Table
  PROVE  \A k \in 1..Len(table) : table[k].time \in Nat /\ table[k].sig \in Signature
<1> DEFINE S == [time: Nat, sig: Signature]
<1>1. \A x \in S : x.time \in Nat /\ x.sig \in Signature
  OBVIOUS
<1>2. table \in Seq(S)
  BY DEF Table
<1> HIDE DEF S
<1>3. \A k \in 1..Len(table) : table[k] \in S
  BY <1>2
<1> QED
  BY <1>1, <1>3

LEMMA RowKnown ==
  ASSUME NEW E, NEW table \in Table, NEW last \in Nat, TableFor(E, table, 0..last - 1),
         NEW k \in 1..Len(table), table[k].time < last
  PROVE  Known(E, table[k].sig)
<1>1. Len(table) \in Nat /\ table[k].time \in Nat
  BY TableType, RowTimes
<1>2. k < Len(table) => table[k].time < table[k + 1].time
  <2> SUFFICES ASSUME k < Len(table)
               PROVE  table[k].time < table[k + 1].time
    OBVIOUS
  <2>1. k + 1 \in 2..Len(table) /\ (k + 1) - 1 = k
    BY <1>1
  <2> QED
    BY <2>1 DEF TableFor, Ascends
<1>3. Row(table, k, table[k].time) /\ table[k].time \in 0..last - 1
  BY <1>1, <1>2 DEF Row
<1>4. Rules(E, table[k].time, table[k].sig)
  BY <1>3 DEF TableFor, Governs
<1> QED
  BY <1>4, RulesKnown

(* what Adopted() returns *)
LEMMA AdoptedFacts ==
  ASSUME NEW b \in BeatState
  PROVE  /\ Adopted(b) \in BeatState /\ Adopted(b).i = b.i
         /\ Adopted(b).at = b.at /\ Adopted(b).last = b.last /\ Adopted(b).table = b.table
         /\ ~Due(b) => Adopted(b) = b
         /\ Due(b) => /\ b.n + 1 \in 1..Len(b.table) /\ b.table[b.n + 1].time <= b.at
                      /\ Adopted(b).n = b.n + 1 /\ Adopted(b).sig = b.table[b.n + 1].sig
                      /\ Adopted(b).beat = 0
                      /\ Adopted(b).meas = IF b.beat # 0 THEN b.meas + 1 ELSE b.meas
<1>1. b.table \in Table /\ b.n \in Nat /\ b.at \in Int /\ b.meas \in Nat
  BY DEF BeatState
<1>2. Len(b.table) \in Nat
  BY <1>1, TableType
<1>3. CASE ~Due(b)
  BY <1>3 DEF Adopted
<1>4. CASE Due(b)
  <2> DEFINE k == b.n + 1
             sig == b.table[k].sig
             meas == IF b.beat # 0 THEN b.meas + 1 ELSE b.meas
  <2>1. k \in 1..Len(b.table) /\ b.table[k].time \in Nat /\ b.table[k].time <= b.at
    <3>1. k \in 1..Len(b.table)
      BY <1>1, <1>2, <1>4 DEF Due
    <3>2. b.table[k].time \in Nat
      BY <1>1, <3>1, RowTimes
    <3> QED
      BY <1>1, <1>4, <3>1, <3>2 DEF Due
  <2>2. Adopted(b) = [b EXCEPT !.n = k, !.sig = sig, !.beat = 0, !.meas = meas]
    BY <1>4 DEF Adopted
  <2>3. sig \in Signature /\ meas \in Nat /\ k \in Nat
    BY <1>1, <2>1, RowTimes
  <2> HIDE DEF sig, meas, k
  <2>4. Adopted(b) \in BeatState
    <3> DEFINE a == Adopted(b)
    <3>1. /\ a = [b EXCEPT !.n = k, !.sig = sig, !.beat = 0, !.meas = meas]
          /\ b \in BeatState
      BY <2>2
    <3> HIDE DEF a
    <3>2. a \in BeatState
      BY <3>1, <2>3 DEF BeatState
    <3> QED
      BY <3>2 DEF a
  <2>5. /\ Adopted(b).n = k /\ Adopted(b).sig = sig /\ Adopted(b).beat = 0
        /\ Adopted(b).meas = meas
    BY <2>2 DEF BeatState
  <2>6. /\ Adopted(b).at = b.at /\ Adopted(b).last = b.last /\ Adopted(b).table = b.table
        /\ Adopted(b).i = b.i
    BY <2>2 DEF BeatState
  <2> QED
    BY <1>4, <2>1, <2>4, <2>5, <2>6 DEF k, sig, meas
<1> QED
  BY <1>3, <1>4

(* c is b a step later *)
Moves(q, b, c) ==
  /\ c.at = Wrapped(b.at + Ticks(q, b.sig))
  /\ c.n = b.n /\ c.sig = b.sig /\ c.last = b.last /\ c.table = b.table
  /\ IF b.beat + 1 = b.sig.num THEN c.beat = 0 /\ c.meas = b.meas + 1
                               ELSE c.beat = b.beat + 1 /\ c.meas = b.meas
(* and r the step *)
Made(b, r) ==
  /\ r.time = NotBelow0(b.at) /\ r.order \in Nat
  /\ r.val = [meas |-> (b.meas + 1) % 4096, beat |-> (b.beat + 1) % 16]

LEMMA SumFits ==
  ASSUME NEW a \in Nat, NEW l \in Nat, NEW last \in Nat, a < last, l + last <= INT_MAX
  PROVE  Wrapped(a + l) = a + l
<1>1. INT_MAX \in Nat /\ FRAC * FRAC \in Nat /\ FRAC * FRAC = 2 * (INT_MAX + 1)
  BY Widths
<1> DEFINE W == FRAC * FRAC
           s == a + l
<1>2. s \in Nat /\ s <= INT_MAX /\ s < W
  BY <1>1
<1> HIDE DEF s
<1>3. Wrapped(s) = s
  BY <1>2, WrappedValue DEF W
<1> QED
  BY <1>3 DEF s

LEMMA AheadMoves ==
  ASSUME NEW q \in Nat, NEW E, NEW P, Typed(E), Times(P), NEW b \in BeatState,
         Ahead(q, E, P, b), TableFor(E, b.table, 0..b.last - 1), b.at < b.last,
         NEW c, Moves(q, Adopted(b), c), NEW r, Made(Adopted(b), r)
  PROVE  /\ Ahead(q, E, P \cup {r}, c)
         /\ Known(E, b.sig) /\ Known(E, Adopted(b).sig)
         /\ Limits(q, E, b.last) =>
              /\ r.time = b.at /\ b.at \in Nat /\ c.at = b.at + Ticks(q, Adopted(b).sig)
              /\ \A x \in P : x.time <= r.time
<1> DEFINE a == Adopted(b)
<1>1. /\ a \in BeatState /\ a.at = b.at /\ a.last = b.last /\ a.table = b.table
      /\ ~Due(b) => a = b
      /\ Due(b) => /\ b.n + 1 \in 1..Len(b.table) /\ b.table[b.n + 1].time <= b.at
                   /\ a.sig = b.table[b.n + 1].sig
  BY AdoptedFacts
<1>2. b.last \in Nat /\ b.table \in Table /\ b.at \in Int /\ a.sig \in Signature
  BY <1>1 DEF BeatState
<1>3. Known(E, b.sig)
  BY DEF Ahead, Known
<1>4. Known(E, a.sig)
  <2>1. CASE ~Due(b)
    BY <1>1, <1>3, <2>1
  <2>2. CASE Due(b)
    <3>1. b.table[b.n + 1].time < b.last
      <4>1. b.table[b.n + 1].time \in Nat
        BY <1>1, <1>2, <2>2, RowTimes
      <4> QED
        BY <1>1, <1>2, <2>2, <4>1
    <3>2. Known(E, b.table[b.n + 1].sig)
      BY <1>1, <1>2, <2>2, <3>1, RowKnown
    <3> QED
      BY <1>1, <2>2, <3>2
  <2> QED
    BY <2>1, <2>2
<1> HIDE DEF a
<1>5. ASSUME Limits(q, E, b.last)
      PROVE  /\ r.time = b.at /\ b.at \in Nat /\ c.at = b.at + Ticks(q, a.sig)
             /\ \A x \in P : x.time <= r.time
             /\ r.time <= c.at /\ c.at >= 0
  <2>1. b.at \in Nat /\ \A x \in P : x.time <= b.at
    BY <1>2, <1>5 DEF Ahead
  <2>2. r.time = b.at
    BY <1>1, <2>1 DEF Made, NotBelow0, a
  <2>3. Ticks(q, a.sig) \in Nat /\ Ticks(q, a.sig) + b.last <= INT_MAX
    BY <1>2, <1>4, <1>5, TicksType, KnownLimits
  <2>4. c.at = Wrapped(b.at + Ticks(q, a.sig))
    BY <1>1 DEF Moves, a
  <2>5. c.at = b.at + Ticks(q, a.sig)
    BY <1>2, <2>1, <2>3, <2>4, SumFits
  <2> QED
    BY <2>1, <2>2, <2>3, <2>5
<1>6. c.sig = a.sig /\ c.last = b.last
  BY <1>1 DEF Moves, a
<1>7. Limits(q, E, b.last) => c.at >= 0 /\ \A x \in P \cup {r} : x.time <= c.at
  <2> SUFFICES ASSUME Limits(q, E, b.last), NEW x \in P \cup {r}
               PROVE  c.at >= 0 /\ x.time <= c.at
    BY <1>5
  <2>1. /\ r.time = b.at /\ b.at \in Nat /\ c.at = b.at + Ticks(q, a.sig)
        /\ \A y \in P : y.time <= r.time
        /\ r.time <= c.at /\ c.at >= 0
    BY <1>5
  <2>2. Ticks(q, a.sig) \in Nat
    BY <1>2, TicksType
  <2>3. x = r \/ (x \in P /\ x.time \in Nat)
    BY DEF Times
  <2> QED
    BY <2>1, <2>2, <2>3
<1>8. Ahead(q, E, P \cup {r}, c)
  BY <1>4, <1>6, <1>7 DEF Ahead, Known
<1> QED
  BY <1>3, <1>4, <1>5, <1>8 DEF a

LEMMA SignatureCounts == \A sig \in Signature : sig.num > 0
BY DEF Signature

LEMMA NextMeasure ==
  ASSUME NEW n \in Nat
  PROVE  ((n % 4096) + 1) % 4096 = (n + 1) % 4096
OBVIOUS

(* The step made tells where the loop stands behind it. *)
LEMMA StepMade ==
  ASSUME NEW q, NEW a \in BeatState, a.beat < a.sig.num, a.sig.num <= 15,
         NEW c, Moves(q, a, c), NEW r, Made(a, r)
  PROVE  /\ r.val.meas = (a.meas + 1) % 4096 /\ r.val.beat = a.beat + 1
         /\ c.beat < a.sig.num
         /\ r.val.meas = (IF c.beat = 0 THEN c.meas ELSE c.meas + 1) % 4096
         /\ r.val.beat = IF c.beat = 0 THEN a.sig.num ELSE c.beat
<1>1. a.beat \in Nat /\ a.meas \in Nat /\ a.sig.num \in Nat
  BY SignatureType DEF BeatState
<1>2. (a.beat + 1) % 16 = a.beat + 1
  BY <1>1
<1>3. r.val.meas = (a.meas + 1) % 4096 /\ r.val.beat = a.beat + 1
  BY <1>2 DEF Made
<1> QED
  BY <1>1, <1>3 DEF Moves

LEMMA AfterStands ==
  ASSUME NEW q, NEW a \in BeatState, a.beat < a.sig.num, a.sig.num <= 15,
         NEW c, Moves(q, a, c), NEW r, Made(a, r),
         a.n \in 1..Len(a.table), Row(a.table, a.n, r.time), a.sig = a.table[a.n].sig,
         r.time = a.at, a.at < a.last, c.at = a.at + Ticks(q, a.sig)
  PROVE  Stands(q, c, r)
<1>1. c.n = a.n /\ c.sig = a.sig /\ c.last = a.last /\ c.table = a.table
  BY DEF Moves
<1>2. /\ c.beat < a.sig.num
      /\ r.val.meas = (IF c.beat = 0 THEN c.meas ELSE c.meas + 1) % 4096
      /\ r.val.beat = IF c.beat = 0 THEN a.sig.num ELSE c.beat
  BY StepMade
<1> QED
  BY <1>1, <1>2 DEF Stands

(* The row of the next step: no step is more than one row further. *)
LEMMA AdoptedRow ==
  ASSUME NEW q, NEW E, Typed(E), NEW b \in BeatState, TableFor(E, b.table, 0..b.last - 1),
         NEW d, d.time \in Nat, Stands(q, b, d), b.at \in Nat, d.time <= b.at,
         NEW r, r.time = b.at, \A x, y \in Within(E, d, r) : x.time = y.time
  PROVE  /\ Adopted(b).n \in 1..Len(b.table) /\ Row(b.table, Adopted(b).n, b.at)
         /\ Adopted(b).sig = b.table[Adopted(b).n].sig
         /\ Adopted(b).beat < Adopted(b).sig.num
         /\ Due(b) /\ Adopted(b).sig = b.sig => \E x, y \in Within(E, d, r) : x # y
<1> DEFINE a == Adopted(b)
           n == Len(b.table)
<1>1. b.table \in Table /\ b.n \in Nat
  BY DEF BeatState
<1>2. n \in Nat /\ \A k \in 1..n : b.table[k].time \in Nat /\ b.table[k].sig \in Signature
  BY <1>1, TableType, RowTimes
<1>3. /\ b.n \in 1..n /\ b.table[b.n].time <= d.time
      /\ (b.n < n => d.time < b.table[b.n + 1].time)
      /\ b.sig = b.table[b.n].sig /\ b.beat < b.sig.num
  BY DEF Stands, Row
<1>4. CASE ~Due(b)
  <2>1. a = b
    BY <1>4, AdoptedFacts
  <2>2. b.n < n => b.at < b.table[b.n + 1].time
    <3> SUFFICES ASSUME b.n < n
                 PROVE  b.at < b.table[b.n + 1].time
      OBVIOUS
    <3>1. b.n + 1 \in 1..n
      BY <1>1, <1>2
    <3>2. ~(b.at >= b.table[b.n + 1].time)
      BY <1>4 DEF Due
    <3> QED
      BY <1>2, <3>1, <3>2
  <2>3. b.table[b.n].time <= b.at
    BY <1>2, <1>3
  <2>4. Row(b.table, b.n, b.at)
    BY <2>2, <2>3 DEF Row
  <2> QED
    BY <1>3, <1>4, <2>1, <2>4
<1>5. CASE Due(b)
  <2> DEFINE k == b.n + 1
  <2>1. /\ k \in 1..n /\ b.table[k].time <= b.at
        /\ a.n = k /\ a.sig = b.table[k].sig /\ a.beat = 0
    BY <1>5, AdoptedFacts
  <2>2. k \in 2..n /\ k - 1 = b.n
    BY <1>1, <1>2, <1>3, <2>1
  <2>3. d.time < b.table[k].time
    BY <1>1, <1>2, <1>3, <2>1
  <2>4. /\ \A j \in 2..n :
             /\ b.table[j - 1].time < b.table[j].time
             /\ \E x \in E : x.time = b.table[j].time
             /\ b.table[j].sig = b.table[j - 1].sig =>
                  \E x, y \in E : x # y /\ x.time = b.table[j].time /\ y.time = b.table[j].time
    BY DEF TableFor, Ascends
  <2>5. k < n => b.at < b.table[k + 1].time
    <3> SUFFICES ASSUME k < n, b.table[k + 1].time <= b.at
                 PROVE  FALSE
      <4>1. k < n => k + 1 \in 1..n
        BY <1>2, <2>1
      <4> QED
        BY <1>2, <4>1
    <3>1. k + 1 \in 2..n /\ (k + 1) - 1 = k /\ k + 1 \in 1..n
      BY <1>2, <2>1
    <3>2. PICK x \in E : x.time = b.table[k].time
      BY <2>2, <2>4
    <3>3. PICK y \in E : y.time = b.table[k + 1].time
      BY <2>4, <3>1
    <3>4. b.table[k].time < b.table[k + 1].time
      BY <2>4, <3>1
    <3>5. b.table[k].time \in Nat /\ b.table[k + 1].time \in Nat
      BY <1>2, <2>1, <3>1
    <3>6. x \in Within(E, d, r) /\ y \in Within(E, d, r)
      BY <2>1, <2>3, <3>2, <3>3, <3>4, <3>5 DEF Within
    <3> QED
      BY <3>2, <3>3, <3>4, <3>5, <3>6
  <2>6. Row(b.table, k, b.at)
    BY <2>1, <2>5 DEF Row
  <2>7. a.beat < a.sig.num
    <3>1. a.sig \in Signature
      BY <1>2, <2>1
    <3>2. a.sig.num > 0
      BY <3>1, SignatureCounts
    <3> QED
      BY <2>1, <3>2
  <2>8. ASSUME a.sig = b.sig
        PROVE  \E x, y \in Within(E, d, r) : x # y
    <3>1. b.table[k].sig = b.table[k - 1].sig
      BY <1>3, <2>1, <2>2, <2>8
    <3>2. PICK x, y \in E : x # y /\ x.time = b.table[k].time /\ y.time = b.table[k].time
      BY <2>2, <2>4, <3>1
    <3>3. x \in Within(E, d, r) /\ y \in Within(E, d, r)
      BY <2>1, <2>3, <3>2 DEF Within
    <3> QED
      BY <3>2, <3>3
  <2> QED
    BY <2>1, <2>6, <2>7, <2>8
<1> QED
  BY <1>4, <1>5

(* The first step *)
LEMMA FirstStands ==
  ASSUME NEW q, NEW E, Typed(E), NEW b \in BeatState, TableFor(E, b.table, 0..b.last - 1),
         b.table # <<>>, Limits(q, E, b.last), Beginning(b), b.at < b.last,
         NEW c, Moves(q, Adopted(b), c), NEW r, Made(Adopted(b), r), r.time = b.at,
         Known(E, Adopted(b).sig), c.at = b.at + Ticks(q, Adopted(b).sig)
  PROVE  r.time = 0 /\ r.val = [meas |-> 1, beat |-> 1] /\ Stands(q, c, r)
<1> DEFINE a == Adopted(b)
           n == Len(b.table)
<1>1. /\ b.table \in Table /\ b.at = 0 /\ b.n = 0 /\ b.meas = 0 /\ b.beat = 0
  BY DEF BeatState, Beginning
<1>2. n \in Nat /\ \A k \in 1..n : b.table[k].time \in Nat /\ b.table[k].sig \in Signature
  BY <1>1, TableType, RowTimes
<1>3. n > 0
  BY <1>1, <1>2 DEF Table
<1>4. /\ b.table[1].time = 0
      /\ \A k \in 2..n : b.table[k - 1].time < b.table[k].time
  BY DEF TableFor, Ascends
<1>5. Due(b) /\ b.n + 1 = 1
  BY <1>1, <1>3, <1>4 DEF Due
<1>6. /\ a \in BeatState /\ a.at = b.at /\ a.last = b.last /\ a.table = b.table
      /\ a.n = 1 /\ a.sig = b.table[1].sig /\ a.beat = 0 /\ a.meas = 0
  BY <1>1, <1>5, AdoptedFacts
<1>7. a.beat < a.sig.num /\ a.sig.num <= 15
  <2>1. a.sig \in Signature
    BY <1>2, <1>3, <1>6
  <2>2. a.sig.num > 0
    BY <2>1, SignatureCounts
  <2> QED
    BY <1>6, <2>2, KnownLimits
<1>8. 1 < n => 0 < b.table[2].time
  <2> SUFFICES ASSUME 1 < n
               PROVE  0 < b.table[2].time
    OBVIOUS
  <2>1. 2 \in 2..n /\ 2 - 1 = 1
    BY <1>2
  <2>2. b.table[2 - 1].time < b.table[2].time
    BY <1>4, <2>1
  <2> QED
    BY <1>4, <2>1, <2>2
<1>9. Row(b.table, 1, 0)
  BY <1>4, <1>8 DEF Row
<1> HIDE DEF a
<1>10. Stands(q, c, r)
  <2>1. 1 \in 1..n
    BY <1>2, <1>3
  <2>2. Moves(q, a, c) /\ Made(a, r) /\ c.at = a.at + Ticks(q, a.sig) /\ r.time = 0
    BY <1>1, <1>6 DEF a
  <2>3. a.n \in 1..Len(a.table) /\ Row(a.table, a.n, r.time) /\ a.sig = a.table[a.n].sig
    BY <1>6, <1>9, <2>1, <2>2
  <2>4. a.at < a.last /\ r.time = a.at
    BY <1>1, <1>6, <2>2
  <2> QED
    BY <1>6, <1>7, <2>2, <2>3, <2>4, AfterStands
<1>11. r.val = [meas |-> 1, beat |-> 1]
  <2>1. r.val = [meas |-> (a.meas + 1) % 4096, beat |-> (a.beat + 1) % 16]
    BY DEF Made, a
  <2>2. (0 + 1) % 4096 = 1 /\ (0 + 1) % 16 = 1
    OBVIOUS
  <2> QED
    BY <1>6, <2>1, <2>2
<1> QED
  BY <1>1, <1>10, <1>11

(* The steps after the first *)
LEMMA NextStands ==
  ASSUME NEW q, NEW E, Typed(E), NEW b \in BeatState, TableFor(E, b.table, 0..b.last - 1),
         Limits(q, E, b.last), b.at \in Nat, b.at < b.last,
         NEW d, d.time \in Nat, d.time <= b.at, Stands(q, b, d),
         Known(E, b.sig), Known(E, Adopted(b).sig),
         NEW c, Moves(q, Adopted(b), c), NEW r, Made(Adopted(b), r), r.time = b.at,
         c.at = b.at + Ticks(q, Adopted(b).sig),
         \A x, y \in Within(E, d, r) : x.time = y.time
  PROVE  Succeeds(q, E, d, r) /\ Stands(q, c, r)
<1> DEFINE a == Adopted(b)
<1>1. /\ a \in BeatState /\ a.at = b.at /\ a.last = b.last /\ a.table = b.table
      /\ ~Due(b) => a = b
      /\ Due(b) => a.beat = 0 /\ a.meas = IF b.beat # 0 THEN b.meas + 1 ELSE b.meas
  BY AdoptedFacts
<1>2. /\ a.n \in 1..Len(b.table) /\ Row(b.table, a.n, b.at)
      /\ a.sig = b.table[a.n].sig /\ a.beat < a.sig.num
      /\ Due(b) /\ a.sig = b.sig => \E x, y \in Within(E, d, r) : x # y
  BY AdoptedRow
<1>3. a.sig.num <= 15 /\ b.sig.num <= 15
  BY KnownLimits
<1>4. /\ b.meas \in Nat /\ b.beat \in Nat /\ b.sig.num \in Nat /\ b.last \in Nat
      /\ a.meas \in Nat
  BY <1>1, SignatureType DEF BeatState
<1>5. /\ b.n \in 1..Len(b.table) /\ Row(b.table, b.n, d.time) /\ b.sig = b.table[b.n].sig
      /\ d.time < b.last /\ b.at = d.time + Ticks(q, b.sig) /\ b.beat < b.sig.num
      /\ d.val.meas = (IF b.beat = 0 THEN b.meas ELSE b.meas + 1) % 4096
      /\ d.val.beat = IF b.beat = 0 THEN b.sig.num ELSE b.beat
  BY DEF Stands
<1> HIDE DEF a
<1>6. Moves(q, a, c) /\ Made(a, r) /\ c.at = b.at + Ticks(q, a.sig)
  BY DEF a
<1>7. Stands(q, c, r)
  <2>1. a.n \in 1..Len(a.table) /\ Row(a.table, a.n, r.time) /\ a.sig = a.table[a.n].sig
    BY <1>1, <1>2
  <2>2. r.time = a.at /\ a.at < a.last /\ c.at = a.at + Ticks(q, a.sig)
    BY <1>1, <1>6
  <2> QED
    BY <1>1, <1>2, <1>3, <1>6, <2>1, <2>2, AfterStands
<1>8. r.val.meas = (a.meas + 1) % 4096 /\ r.val.beat = a.beat + 1
  BY <1>1, <1>2, <1>3, <1>6, StepMade
<1>9. Rules(E, d.time, b.sig)
  <2>1. d.time \in 0..b.last - 1
    BY <1>4, <1>5
  <2> QED
    BY <1>5, <2>1 DEF TableFor, Governs
<1>10. Rules(E, r.time, a.sig)
  <2>1. b.at \in 0..b.last - 1
    BY <1>4
  <2> QED
    BY <1>2, <2>1 DEF TableFor, Governs
<1>11. CASE Due(b)
  <2>1. d.val.meas = a.meas % 4096
    BY <1>1, <1>5, <1>11
  <2>2. NewBar(d, r)
    <3>1. ((a.meas % 4096) + 1) % 4096 = (a.meas + 1) % 4096
      BY <1>4, NextMeasure
    <3> QED
      BY <1>1, <1>8, <1>11, <2>1, <3>1 DEF NewBar
  <2>3. IF d.val.beat = b.sig.num \/ a.sig # b.sig THEN NewBar(d, r)
        ELSE SameBar(d, r) \/ (NewBar(d, r) /\ \E x, y \in Within(E, d, r) : x # y)
    BY <1>2, <1>11, <2>2
  <2> QED
    BY <1>5, <1>7, <1>9, <1>10, <2>3 DEF Succeeds
<1>12. CASE ~Due(b)
  <2>1. a = b
    BY <1>1, <1>12
  <2>2. CASE b.beat = 0
    <3>1. ((b.meas % 4096) + 1) % 4096 = (b.meas + 1) % 4096
      BY <1>4, NextMeasure
    <3>2. NewBar(d, r) /\ d.val.beat = b.sig.num
      BY <1>5, <1>8, <2>1, <2>2, <3>1 DEF NewBar
    <3> QED
      BY <1>5, <1>7, <1>9, <1>10, <3>2 DEF Succeeds
  <2>3. CASE b.beat # 0
    <3>1. SameBar(d, r) /\ d.val.beat # b.sig.num
      BY <1>4, <1>5, <1>8, <2>1, <2>3 DEF SameBar
    <3> QED
      BY <1>5, <1>7, <1>9, <1>10, <2>1, <3>1 DEF Succeeds
  <2> QED
    BY <2>2, <2>3
<1> QED
  BY <1>11, <1>12

LEMMA BeatGoes ==
  ASSUME NEW q \in Nat, NEW E, NEW P, Typed(E), Times(P), NEW b \in BeatState,
         Going(q, E, P, b), b.at < b.last,
         NEW c, Moves(q, Adopted(b), c), NEW r, Made(Adopted(b), r),
         \A x \in P : x.order < r.order
  PROVE  Going(q, E, P \cup {r}, c)
<1> DEFINE a == Adopted(b)
           S == P \cup {r}
<1>1. /\ Ahead(q, E, P, b) /\ TableFor(E, b.table, 0..b.last - 1) /\ b.table # <<>>
  BY DEF Going
<1>2. /\ Ahead(q, E, S, c) /\ Known(E, b.sig) /\ Known(E, a.sig)
      /\ Limits(q, E, b.last) =>
           /\ r.time = b.at /\ b.at \in Nat /\ c.at = b.at + Ticks(q, a.sig)
           /\ \A x \in P : x.time <= r.time
  BY <1>1, AheadMoves
<1>3. c.last = b.last /\ c.table = b.table
  BY AdoptedFacts DEF Moves
<1>4. ASSUME Limits(q, E, b.last), Spaced(E, S)
      PROVE  InStep(q, E, S) /\ \E d \in S : (\A x \in S : Until(x, d)) /\ Stands(q, c, d)
  <2>1. /\ r.time = b.at /\ b.at \in Nat /\ c.at = b.at + Ticks(q, a.sig)
        /\ \A x \in P : x.time <= r.time
    BY <1>2, <1>4
  <2>2. r.time \in Nat /\ r.order \in Nat /\ Times(S)
    BY <2>1 DEF Made, Times
  <2>3. \A x \in P : Before(x, r)
    BY <2>1, <2>2 DEF Before, Times
  <2>4. \A x \in P : ~Until(r, x)
    BY <2>2, <2>3, BeforeFacts DEF Times
  <2>5. \A x \in S : Until(x, r)
    BY <2>3 DEF Until
  <2>6. \A d, e \in P : Neighbours(S, d, e) <=> Neighbours(P, d, e)
    BY <2>3 DEF Neighbours, Until
  <2>7. Spaced(E, P)
    BY <1>4, <2>6 DEF Spaced
  <2>8. InStep(q, E, P) /\ \/ P = {} /\ Beginning(b)
                           \/ \E d \in P : (\A x \in P : Until(x, d)) /\ Stands(q, b, d)
    BY <1>4, <2>7 DEF Going
  <2>9. CASE P = {} /\ Beginning(b)
    <3>1. r.time = 0 /\ r.val = [meas |-> 1, beat |-> 1] /\ Stands(q, c, r)
      BY <1>1, <1>2, <1>4, <2>1, <2>9, FirstStands
    <3>2. S = {r} /\ ~Before(r, r)
      BY <2>2, <2>9, BeforeFacts
    <3>3. InStep(q, E, S)
      BY <3>1, <3>2 DEF InStep, Neighbours
    <3> QED
      BY <2>5, <3>1, <3>2, <3>3
  <2>10. CASE \E d \in P : (\A x \in P : Until(x, d)) /\ Stands(q, b, d)
    <3>1. PICK d \in P : (\A x \in P : Until(x, d)) /\ Stands(q, b, d)
      BY <2>10
    <3>2. d.time \in Nat /\ d.time <= b.at
      BY <2>1, <3>1 DEF Times
    <3>3. Neighbours(S, d, r)
      <4>1. \A x \in S : Until(x, d) \/ Until(r, x)
        BY <3>1 DEF Until
      <4> QED
        BY <2>3, <4>1 DEF Neighbours
    <3>4. \A x, y \in Within(E, d, r) : x.time = y.time
      BY <1>4, <3>3 DEF Spaced
    <3>5. Succeeds(q, E, d, r) /\ Stands(q, c, r)
      BY <1>1, <1>2, <1>4, <2>1, <3>1, <3>2, <3>4, NextStands
    <3>6. ASSUME NEW f \in S, NEW e \in S, Neighbours(S, f, e)
          PROVE  Succeeds(q, E, f, e)
      <4>1. Before(f, e)
        BY <3>6 DEF Neighbours
      <4>2. f # r
        <5>1. CASE e = r
          BY <2>2, <4>1, <5>1, BeforeFacts
        <5>2. CASE e \in P
          BY <2>4, <4>1, <5>2 DEF Until
        <5> QED
          BY <5>1, <5>2
      <4>3. f \in P
        BY <4>2
      <4>4. CASE e \in P
        BY <2>6, <2>8, <3>6, <4>3, <4>4 DEF InStep
      <4>5. CASE e = r
        <5>1. Until(d, f)
          <6>1. Until(d, f) \/ Until(r, d)
            BY <3>6, <4>5 DEF Neighbours
          <6> QED
            BY <2>4, <6>1
        <5>2. Until(f, d)
          BY <3>1, <4>3
        <5>3. f = d
          BY <4>3, <5>1, <5>2, BeforeFacts DEF Times
        <5> QED
          BY <3>5, <4>5, <5>3
      <4> QED
        BY <4>4, <4>5
    <3>7. ASSUME NEW f \in S, \A x \in S : Until(f, x)
          PROVE  f.time = 0 /\ f.val = [meas |-> 1, beat |-> 1]
      <4>1. f # r
        BY <2>4, <3>7
      <4> QED
        BY <2>8, <3>7, <4>1 DEF InStep
    <3>8. InStep(q, E, S)
      BY <3>6, <3>7 DEF InStep
    <3> QED
      BY <2>5, <3>5, <3>8
  <2> QED
    BY <2>8, <2>9, <2>10
<1> HIDE DEF S
<1>5. Going(q, E, S, c)
  BY <1>1, <1>2, <1>3, <1>4 DEF Going
<1> QED
  BY <1>5 DEF S

LEMMA BeatInTime ==
  ASSUME IInv, InTime, Beat
  PROVE  InTime'
<1> DEFINE a == Adopted(beat)
           m == Add(List, beat.at, Step(a))
           E == SignaturesOf(Records(evlist))
           P == StepsOf(Records(evlist))
           q == setup.divisions
<1>1. /\ phase = "beat" /\ phase' \in {"beat", "crashed"} /\ setup' = setup
      /\ beat.at < beat.last /\ ~readmidi_error_flag /\ ListIs(m)
      /\ beat' = [a EXCEPT !.beat = IF a.beat + 1 = a.sig.num THEN 0 ELSE @ + 1,
                           !.meas = IF a.beat + 1 = a.sig.num THEN @ + 1 ELSE @,
                           !.at = Wrapped(@ + StepLength(a.sig))]
  BY DEF Beat
<1>2. /\ WellFormed(List) /\ beat \in BeatState /\ q \in Nat /\ beat.at \in Int
      /\ List.events = evlist /\ Entries(evlist) /\ Ordered(evlist) /\ Len(evlist) \in Nat
  BY ListFacts DEF IInv, Setup, BeatState, List
<1>3. a \in BeatState /\ a.at = beat.at
  BY <1>2, AdoptedFacts
<1>4. Going(q, E, P, beat)
  BY <1>1 DEF InTime
<1>5. Typed(E) /\ Times(P) /\ \A x \in P : x.order <= Len(evlist)
  <2>1. \A x \in Records(evlist) :
          /\ x.time \in Nat /\ x.order \in Nat /\ x.order <= Len(evlist)
          /\ x.kind = "sig" => x.val \in Signature
    BY <1>2, RecordFacts
  <2> QED
    BY <2>1 DEF Typed, Times, SignaturesOf, StepsOf, IsSignature
<1>6. Moves(q, a, beat')
  <2> DEFINE beats == IF a.beat + 1 = a.sig.num THEN 0 ELSE a.beat + 1
             meas == IF a.beat + 1 = a.sig.num THEN a.meas + 1 ELSE a.meas
             at == Wrapped(a.at + Ticks(q, a.sig))
  <2>1. beat' = [a EXCEPT !.beat = beats, !.meas = meas, !.at = at]
    BY <1>1 DEF StepLength, Ticks
  <2> HIDE DEF a, beats, meas, at
  <2>2. /\ beat'.beat = beats /\ beat'.meas = meas /\ beat'.at = at
        /\ beat'.n = a.n /\ beat'.sig = a.sig /\ beat'.last = a.last /\ beat'.table = a.table
    BY <1>3, <2>1 DEF BeatState
  <2> QED
    BY <2>2 DEF Moves, beats, meas, at
<1> HIDE DEF q
<1>7. CASE m.error
  BY <1>1, <1>7 DEF InTime, ListIs
<1>8. CASE ~m.error
  <2>1. AddsRecord(List, m, beat.at, Step(a))
    BY <1>2, <1>8, AddRecords
  <2>2. PICK r : /\ Records(m.events) = Records(evlist) \cup {r}
                 /\ r.kind = Step(a).kind /\ r.val = Step(a).val
                 /\ r.time = NotBelow0(beat.at) /\ r.order = Len(evlist) + 1
    BY <1>2, <2>1 DEF AddsRecord
  <2>3. r.kind = "step" /\ Made(a, r)
    BY <1>2, <1>3, <2>2 DEF Made, Step, Meta
  <2>4. \A x \in P : x.order < r.order
    BY <1>2, <1>5, <2>2 DEF Times
  <2>5. evlist' = m.events
    BY <1>1 DEF ListIs
  <2>6. SignaturesOf(Records(evlist')) = E
    BY <2>2, <2>3, <2>5 DEF SignaturesOf, IsSignature
  <2>7. StepsOf(Records(evlist')) = P \cup {r}
    BY <2>2, <2>3, <2>5 DEF StepsOf
  <2> HIDE DEF E, P
  <2>8. Going(q, E, P \cup {r}, beat')
    BY <1>1, <1>2, <1>4, <1>5, <1>6, <2>3, <2>4, BeatGoes
  <2>9. q = setup'.divisions
    BY <1>1 DEF q
  <2> QED
    BY <1>1, <2>6, <2>7, <2>8, <2>9 DEF InTime
<1> QED
  BY <1>7, <1>8

-----------------------------------------------------------------------------
(* The records and their places in the list *)
LEMMA Placed ==
  ASSUME IInv
  PROVE  /\ \A i \in Steps : evlist[i] \in StepsOf(Records(evlist))
         /\ \A x \in StepsOf(Records(evlist)) : \E i \in Steps : x = evlist[i]
         /\ \A i \in Signatures : evlist[i] \in SignaturesOf(Records(evlist))
         /\ \A x \in SignaturesOf(Records(evlist)) : \E i \in Signatures : x = evlist[i]
         /\ \A i, j \in 1..Len(evlist) : Before(evlist[i], evlist[j]) <=> i < j
         /\ \A i, j \in 1..Len(evlist) : Until(evlist[i], evlist[j]) <=> i <= j
         /\ \A i, j \in 1..Len(evlist) : evlist[i] = evlist[j] => i = j
         /\ \A i \in 1..Len(evlist) : evlist[i].time \in Nat
         /\ Steps \subseteq 1..Len(evlist) /\ Signatures \subseteq 1..Len(evlist)
         /\ Len(evlist) \in Nat
<1>1. Entries(evlist) /\ Ordered(evlist) /\ Len(evlist) \in Nat
  BY ListFacts DEF IInv
<1>2. /\ \A i, j \in 1..Len(evlist) : Before(evlist[i], evlist[j]) <=> i < j
      /\ \A i, j \in 1..Len(evlist) : Until(evlist[i], evlist[j]) <=> i <= j
      /\ \A i, j \in 1..Len(evlist) : evlist[i] = evlist[j] => i = j
  BY <1>1, RecordFacts
<1>3. /\ \A i \in Steps : evlist[i] \in StepsOf(Records(evlist))
      /\ \A x \in StepsOf(Records(evlist)) : \E i \in Steps : x = evlist[i]
      /\ Steps \subseteq 1..Len(evlist)
  BY DEF Steps, StepsOf, Records
<1>4. /\ \A i \in Signatures : evlist[i] \in SignaturesOf(Records(evlist))
      /\ \A x \in SignaturesOf(Records(evlist)) : \E i \in Signatures : x = evlist[i]
      /\ Signatures \subseteq 1..Len(evlist)
  BY DEF Signatures, SignaturesOf, Records
<1>5. \A i \in 1..Len(evlist) : evlist[i].time \in Nat
  BY <1>1 DEF Entries
<1> QED
  BY <1>1, <1>2, <1>3, <1>4, <1>5

LEMMA RulesInForce ==
  ASSUME IInv, NEW t \in Nat, NEW v, Rules(SignaturesOf(Records(evlist)), t, v)
  PROVE  InForce(t) = v
<1> DEFINE E == SignaturesOf(Records(evlist))
           S == {i \in Signatures : evlist[i].time <= t}
<1>1. /\ \A i \in Signatures : evlist[i] \in E
      /\ \A x \in E : \E i \in Signatures : x = evlist[i]
      /\ \A i, j \in Signatures : Until(evlist[i], evlist[j]) <=> i <= j
      /\ \A i \in Signatures : evlist[i].time \in Nat /\ i \in Nat
  BY Placed
<1>2. InForce(t) = IF S = {} THEN Four4
                   ELSE evlist[CHOOSE i \in S : \A j \in S : j <= i].val
  BY DEF InForce
<1> HIDE DEF E
<1>3. CASE v = Four4 /\ \A x \in E : x.time > t
  <2>1. S = {}
    BY <1>1, <1>3
  <2> QED
    BY <1>2, <1>3, <2>1
<1>4. CASE \E x \in E : x.time <= t /\ x.val = v /\ \A y \in E : y.time <= t => Until(y, x)
  <2>1. PICK x \in E : x.time <= t /\ x.val = v /\ \A y \in E : y.time <= t => Until(y, x)
    BY <1>4
  <2>2. PICK k \in Signatures : x = evlist[k]
    BY <1>1
  <2>3. k \in S /\ \A j \in S : j <= k
    BY <1>1, <2>1, <2>2
  <2>4. (CHOOSE i \in S : \A j \in S : j <= i) = k
    <3>1. \A i \in S : (\A j \in S : j <= i) => i = k
      BY <1>1, <2>3
    <3> DEFINE g == CHOOSE i \in S : \A j \in S : j <= i
    <3>2. g \in S /\ \A j \in S : j <= g
      BY <2>3
    <3> HIDE DEF g, S
    <3>3. g = k
      BY <3>1, <3>2
    <3> QED
      BY <3>3 DEF g
  <2> QED
    BY <1>2, <2>1, <2>2, <2>3, <2>4
<1> QED
  BY <1>3, <1>4 DEF Rules, E

LEMMA RegularLimits ==
  ASSUME IInv, Regular
  PROVE  Limits(setup.divisions, SignaturesOf(Records(evlist)), beat.last)
<1>1. \A x \in SignaturesOf(Records(evlist)) : \E i \in Signatures : x = evlist[i]
  BY Placed
<1>2. \A sig \in {Four4} \cup {evlist[i].val : i \in Signatures} :
        sig.num <= 15 /\ Ticks(setup.divisions, sig) + beat.last <= INT_MAX
  BY DEF Regular, StepLength, Ticks
<1>3. {x.val : x \in SignaturesOf(Records(evlist))} \subseteq {evlist[i].val : i \in Signatures}
  BY <1>1
<1> QED
  BY <1>2, <1>3 DEF Limits

LEMMA NextNeighbours ==
  ASSUME IInv, NEW i \in Steps, NEW j \in Steps
  PROVE  NextStep(i, j) <=> Neighbours(StepsOf(Records(evlist)), evlist[i], evlist[j])
<1>1. \A k \in Steps : /\ Until(evlist[k], evlist[i]) <=> k <= i
                       /\ Until(evlist[j], evlist[k]) <=> k >= j
                       /\ evlist[k] \in StepsOf(Records(evlist))
  BY Placed
<1>2. Before(evlist[i], evlist[j]) <=> i < j
  BY Placed
<1>3. \A x \in StepsOf(Records(evlist)) : \E k \in Steps : x = evlist[k]
  BY Placed
<1>4. (\A x \in StepsOf(Records(evlist)) : Until(x, evlist[i]) \/ Until(evlist[j], x))
        <=> \A k \in Steps : k <= i \/ k >= j
  BY <1>1, <1>3
<1> QED
  BY <1>2, <1>4 DEF NextStep, Neighbours

LEMMA WithinBetween ==
  ASSUME IInv, NEW d, NEW e
  PROVE  /\ \A x \in Within(SignaturesOf(Records(evlist)), d, e) :
              \E k \in Between(d, e) : x = evlist[k]
         /\ \A k \in Between(d, e) : evlist[k] \in Within(SignaturesOf(Records(evlist)), d, e)
BY Placed DEF Within, Between

LEMMA RegularSpaced ==
  ASSUME IInv, Regular
  PROVE  Spaced(SignaturesOf(Records(evlist)), StepsOf(Records(evlist)))
<1> SUFFICES ASSUME NEW d \in StepsOf(Records(evlist)), NEW e \in StepsOf(Records(evlist)),
                    Neighbours(StepsOf(Records(evlist)), d, e),
                    NEW x \in Within(SignaturesOf(Records(evlist)), d, e),
                    NEW y \in Within(SignaturesOf(Records(evlist)), d, e)
             PROVE  x.time = y.time
  BY DEF Spaced
<1>1. PICK i \in Steps : d = evlist[i]
  BY Placed
<1>2. PICK j \in Steps : e = evlist[j]
  BY Placed
<1>3. NextStep(i, j)
  BY <1>1, <1>2, NextNeighbours
<1>4. PICK k \in Between(d, e) : x = evlist[k]
  BY WithinBetween
<1>5. PICK l \in Between(d, e) : y = evlist[l]
  BY WithinBetween
<1> QED
  BY <1>1, <1>2, <1>3, <1>4, <1>5 DEF Regular

LEMMA SucceedsFollows ==
  ASSUME IInv, NEW i \in Steps, NEW j \in Steps,
         Succeeds(setup.divisions, SignaturesOf(Records(evlist)), evlist[i], evlist[j])
  PROVE  Follows(evlist[i], evlist[j])
<1> DEFINE E == SignaturesOf(Records(evlist))
           d == evlist[i]
           e == evlist[j]
<1>1. d.time \in Nat /\ e.time \in Nat
  BY Placed
<1>2. \A t \in Nat : \A v : Rules(E, t, v) => InForce(t) = v
  BY RulesInForce
<1>3. /\ \A x \in Within(E, d, e) : \E k \in Between(d, e) : x = evlist[k]
  BY WithinBetween
<1> HIDE DEF E, d, e
<1>4. PICK v, w : /\ Rules(E, d.time, v) /\ Rules(E, e.time, w)
                  /\ e.time = d.time + Ticks(setup.divisions, v)
                  /\ IF d.val.beat = v.num \/ w # v THEN NewBar(d, e)
                     ELSE \/ SameBar(d, e)
                          \/ NewBar(d, e) /\ \E x, y \in Within(E, d, e) : x # y
  BY DEF Succeeds, E, d, e
<1>5. InForce(d.time) = v /\ InForce(e.time) = w
  BY <1>1, <1>2, <1>4
<1>6. Ticks(setup.divisions, v) = StepLength(v)
  BY DEF StepLength, Ticks
<1>7. (\E x, y \in Within(E, d, e) : x # y) => \E k, l \in Between(d, e) : k # l
  BY <1>3
<1>8. Follows(d, e)
  BY <1>4, <1>5, <1>6, <1>7 DEF Follows
<1> QED
  BY <1>8 DEF d, e

(* What Beats says of the steps once the loop is behind the last event *)
OnTheBeat ==
  /\ \A i, j \in Steps : NextStep(i, j) => Follows(evlist[i], evlist[j])
  /\ beat.last = 0 => Steps = {}
  /\ beat.last > 0 =>
       /\ Steps # {}
       /\ \A i \in Steps : (\A j \in Steps : i <= j) =>
            evlist[i].time = 0 /\ evlist[i].val = [meas |-> 1, beat |-> 1]
       /\ \A i \in Steps : (\A j \in Steps : j <= i) =>
            /\ evlist[i].time < beat.last
            /\ beat.last <= evlist[i].time + StepLength(InForce(evlist[i].time))

LEMMA GoingCounted ==
  ASSUME IInv, Regular, beat.at >= beat.last,
         Going(setup.divisions, SignaturesOf(Records(evlist)), StepsOf(Records(evlist)), beat)
  PROVE  OnTheBeat
<1> DEFINE q == setup.divisions
           E == SignaturesOf(Records(evlist))
           P == StepsOf(Records(evlist))
<1>1. /\ \A i \in Steps : evlist[i] \in P
      /\ \A x \in P : \E i \in Steps : x = evlist[i]
      /\ \A i, j \in Steps : Until(evlist[i], evlist[j]) <=> i <= j
      /\ \A i \in Steps : i \in Nat /\ evlist[i].time \in Nat
  BY Placed
<1>2. Limits(q, E, beat.last) /\ Spaced(E, P)
  BY RegularLimits, RegularSpaced
<1>3. /\ TableFor(E, beat.table, 0..beat.last - 1) /\ InStep(q, E, P)
      /\ \/ P = {} /\ Beginning(beat)
         \/ \E d \in P : (\A x \in P : Until(x, d)) /\ Stands(q, beat, d)
  BY <1>2 DEF Going
<1>4. \A i, j \in Steps : NextStep(i, j) => Follows(evlist[i], evlist[j])
  <2> SUFFICES ASSUME NEW i \in Steps, NEW j \in Steps, NextStep(i, j)
               PROVE  Follows(evlist[i], evlist[j])
    OBVIOUS
  <2>1. Neighbours(P, evlist[i], evlist[j])
    BY NextNeighbours
  <2>2. Succeeds(q, E, evlist[i], evlist[j])
    BY <1>1, <1>3, <2>1 DEF InStep
  <2> QED
    BY <2>2, SucceedsFollows
<1>5. beat.last \in Nat /\ beat.at \in Int
  BY DEF IInv, BeatState
<1>6. \A t \in Nat : \A v : Rules(E, t, v) => InForce(t) = v
  BY RulesInForce
<1>7. \A sig : StepLength(sig) = Ticks(q, sig)
  BY DEF StepLength, Ticks
<1> HIDE DEF q, E, P
<1>8. ASSUME beat.last = 0
      PROVE  Steps = {}
  <2>1. ~\E d \in P : Stands(q, beat, d)
    <3> SUFFICES ASSUME NEW d \in P, Stands(q, beat, d)
                 PROVE  FALSE
      OBVIOUS
    <3>1. d.time < 0 /\ d.time \in Nat
      BY <1>1, <1>8 DEF Stands
    <3> QED
      BY <3>1
  <2>2. P = {}
    BY <1>3, <2>1
  <2> QED
    BY <1>1, <2>2
<1>9. ASSUME beat.last > 0
      PROVE  /\ Steps # {}
             /\ \A i \in Steps : (\A j \in Steps : i <= j) =>
                  evlist[i].time = 0 /\ evlist[i].val = [meas |-> 1, beat |-> 1]
             /\ \A i \in Steps : (\A j \in Steps : j <= i) =>
                  /\ evlist[i].time < beat.last
                  /\ beat.last <= evlist[i].time + StepLength(InForce(evlist[i].time))
  <2>1. ~Beginning(beat)
    BY <1>5, <1>9 DEF Beginning
  <2>2. PICK d \in P : (\A x \in P : Until(x, d)) /\ Stands(q, beat, d)
    BY <1>3, <2>1
  <2>3. PICK k \in Steps : d = evlist[k]
    BY <1>1, <2>2
  <2>4. ASSUME NEW i \in Steps, \A j \in Steps : i <= j
        PROVE  evlist[i].time = 0 /\ evlist[i].val = [meas |-> 1, beat |-> 1]
    <3>1. \A x \in P : Until(evlist[i], x)
      BY <1>1, <2>4
    <3> QED
      BY <1>1, <1>3, <3>1 DEF InStep
  <2>5. ASSUME NEW i \in Steps, \A j \in Steps : j <= i
        PROVE  /\ evlist[i].time < beat.last
               /\ beat.last <= evlist[i].time + StepLength(InForce(evlist[i].time))
    <3>1. i = k
      <4>1. k <= i
        BY <2>3, <2>5
      <4>2. Until(evlist[i], evlist[k])
        BY <1>1, <2>2, <2>3
      <4> QED
        BY <1>1, <4>1, <4>2
    <3>2. d = evlist[i] /\ d.time \in Nat
      BY <1>1, <2>3, <3>1
    <3>3. /\ beat.n \in 1..Len(beat.table) /\ Row(beat.table, beat.n, d.time)
          /\ beat.sig = beat.table[beat.n].sig
          /\ d.time < beat.last /\ beat.at = d.time + Ticks(q, beat.sig)
      BY <2>2 DEF Stands
    <3>4. Rules(E, d.time, beat.sig)
      <4>1. d.time \in 0..beat.last - 1
        BY <1>5, <3>2, <3>3
      <4> QED
        BY <1>3, <3>3, <4>1 DEF TableFor, Governs
    <3>5. InForce(d.time) = beat.sig
      BY <1>6, <3>2, <3>4
    <3>6. beat.last <= d.time + StepLength(InForce(d.time))
      BY <1>7, <3>3, <3>5
    <3> QED
      BY <3>2, <3>3, <3>6
  <2> QED
    BY <2>3, <2>4, <2>5
<1> QED
  BY <1>4, <1>8, <1>9 DEF OnTheBeat

LEMMA BeatsEndInTime ==
  ASSUME IInv, InTime, BeatsEnd
  PROVE  InTime'
<1>1. /\ phase = "beat" /\ phase' = "move"
      /\ UNCHANGED <<setup, evlist, readmidi_error_flag, beat>>
      /\ beat.at >= beat.last \/ readmidi_error_flag
  BY DEF BeatsEnd, listVars
<1>2. CASE readmidi_error_flag
  <2>1. ~Regular'
    BY <1>1, <1>2 DEF Regular
  <2>2. Beats'
    BY <2>1 DEF Beats
  <2> QED
    BY <1>1, <2>2 DEF InTime
<1>3. CASE ~readmidi_error_flag /\ beat.at >= beat.last
  <2>1. Going(setup.divisions, SignaturesOf(Records(evlist)), StepsOf(Records(evlist)), beat)
    BY <1>1, <1>3 DEF InTime
  <2>2. Regular => OnTheBeat
    BY <1>3, <2>1, GoingCounted
  <2>3. Regular' = Regular /\ OnTheBeat' = OnTheBeat
    BY <1>1 DEF Regular, OnTheBeat, Steps, NextStep, Between, Signatures, Follows,
                InForce, StepLength, NewBar, SameBar
  <2>4. Beats'
    BY <2>2, <2>3 DEF Beats, OnTheBeat
  <2> QED
    BY <1>1, <2>4 DEF InTime
<1> QED
  BY <1>1, <1>2, <1>3

(* The other steps leave note steps alone, or what is said of them is over. *)
LEMMA OtherInTime ==
  ASSUME IInv, InTime,
         \/ BeginTrack \/ EndOfTrack \/ ReadError \/ EndOfFile
         \/ MoveChannels \/ GroomEvent \/ GroomEnd
  PROVE  InTime'
<1>1. CASE BeginTrack \/ EndOfTrack
  <2>1. /\ phase \in {"track", "events"} /\ phase' \in {"track", "events"}
        /\ evlist' = evlist /\ beat' = beat
    BY <1>1 DEF BeginTrack, EndOfTrack, listVars
  <2> QED
    BY <2>1 DEF InTime
<1>2. CASE ReadError \/ EndOfFile
  <2>1. /\ phase \in {"track", "events"} /\ phase' \in {"steps", "failed"}
        /\ evlist' = evlist /\ beat' = beat
    BY <1>2 DEF ReadError, EndOfFile, listVars
  <2>2. StepsOf(Records(evlist)) = {} /\ Beginning(beat) /\ beat.i = 1 /\ beat.table = <<>>
    BY <2>1 DEF InTime
  <2>3. Collected' = {}
    BY <2>1, <2>2 DEF Collected
  <2>4. TableFor({}, <<>>, Nat)
    <3>1. Len(<<>>) = 0
      OBVIOUS
    <3> QED
      BY <3>1 DEF TableFor, Ascends, Governs
  <2> QED
    BY <2>1, <2>2, <2>3, <2>4 DEF InTime
<1>3. CASE MoveChannels \/ GroomEvent \/ GroomEnd
  <2>1. phase' \in {"groom", "overflow", "done"}
    BY <1>3 DEF MoveChannels, GroomEvent, GroomEnd
  <2> QED
    BY <2>1 DEF InTime
<1> QED
  BY <1>1, <1>2, <1>3

LEMMA ReadEventInTime ==
  ASSUME IInv, InTime, NEW delta \in setup.deltas, NEW e \in setup.events,
         ReadEvent(delta, e)
  PROVE  InTime'
<1>1. phase = "events" /\ phase' = "events" /\ beat' = beat
  BY DEF ReadEvent
<1>2. StepsOf(Records(evlist)) = {} /\ Beginning(beat) /\ beat.i = 1 /\ beat.table = <<>>
  BY <1>1 DEF InTime
<1>3. StepsOf(Records(evlist')) = {}
  BY <1>2, ReadEventNoStep
<1> QED
  BY <1>1, <1>2, <1>3 DEF InTime

LEMMA InitInTime == Init => InTime
<1> SUFFICES ASSUME Init PROVE InTime
  OBVIOUS
<1>1. phase = "track" /\ beat = NoBeat /\ Len(evlist) = 1 /\ evlist[1] = Head0
  BY DEF Init
<1>2. StepsOf(Records(evlist)) = {}
  BY <1>1 DEF StepsOf, Records, Head0
<1>3. Beginning(beat) /\ beat.i = 1 /\ beat.table = <<>>
  BY <1>1 DEF Beginning, NoBeat
<1> QED
  BY <1>1, <1>2, <1>3 DEF InTime

LEMMA NextInTime == IInv /\ InTime /\ [Next]_vars => InTime'
<1> SUFFICES ASSUME IInv, InTime, [Next]_vars PROVE InTime'
  OBVIOUS
<1>1. CASE UNCHANGED vars
  <2>1. /\ UNCHANGED <<setup, phase, evlist, readmidi_error_flag, beat>>
    BY <1>1 DEF vars, listVars
  <2>2. Beats' = Beats
    BY <2>1 DEF Beats, Regular, Steps, NextStep, Between, Signatures, Follows, InForce,
                StepLength, NewBar, SameBar
  <2>3. Collected' = Collected
    BY <2>1 DEF Collected
  <2> QED
    BY <2>1, <2>2, <2>3 DEF InTime
<1>2. CASE \E delta \in setup.deltas, e \in setup.events : ReadEvent(delta, e)
  BY <1>2, ReadEventInTime
<1>3. CASE BeginTrack \/ EndOfTrack \/ ReadError \/ EndOfFile
           \/ MoveChannels \/ GroomEvent \/ GroomEnd
  BY <1>3, OtherInTime
<1>4. CASE CollectSignature
  BY <1>4, CollectSignatureInTime
<1>5. CASE InsertNoteSteps
  BY <1>5, InsertNoteStepsInTime
<1>6. CASE Beat
  BY <1>6, BeatInTime
<1>7. CASE BeatsEnd
  BY <1>7, BeatsEndInTime
<1> QED
  BY <1>1, <1>2, <1>3, <1>4, <1>5, <1>6, <1>7 DEF Next, Reading, Working

(* The note steps that insert_note_steps() puts into the list count beats  *)
(* and bars, at the lengths of the signatures in force, from 0 to the last *)
(* event.                                                                  *)
THEOREM BeatsCounted == Spec => []Beats
<1>1. Init => IInv /\ InTime
  BY InitOrdered, InitInTime
<1>2. IInv /\ InTime /\ [Next]_vars => (IInv /\ InTime)'
  BY NextOrdered, NextInTime
<1>3. IInv /\ InTime => Beats
  BY DEF InTime, Beats
<1> QED
  BY <1>1, <1>2, <1>3, PTL DEF Spec
=============================================================================
