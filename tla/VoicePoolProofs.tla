-------------------------- MODULE VoicePoolProofs --------------------------
(***************************************************************************)
(* Proofs about VoicePool, for every number of voices, channels and notes, *)
(* every alternate assign table and every setup.                           *)
(***************************************************************************)
EXTENDS VoicePool, FiniteSetTheorems, WellFoundedInduction, TLAPS

-----------------------------------------------------------------------------
(* The inductive invariant *)

(* No voice behind upper_voices makes a sound, while a loop runs as well *)
Silent == \A i \in upper_voices..voices - 1 : voice[i].status = "free"

(* The loops that shrink the pool repair upper_voices at their end, and    *)
(* the polyphony is on its way to the target.                              *)
Loops ==
  /\ work.op \in {"none", "reduce"} => upper_voices <= voices
  /\ work.op = "conserve" => work.target + work.n = voices

(* Links are doubled and a free voice has none *)
Paired(link) == \A i \in Slots : link[link[i]] = i
FreeAlone(p) == \A i \in Slots : p.voice[i].status = "free" => p.link[i] = i
Single == setup.layers = {1} /\ setup.events \cap {"tune", "polyphony"} = {}
Joined ==
  /\ work.op = "none" /\ Paired(chorus_link)
  /\ \A i \in Slots : voice[i].status = "free" => chorus_link[i] = i
Links == Single => Joined

Typed ==
  /\ setup \in Setups
  /\ voice \in [Slots -> Voice]
  /\ chorus_link \in [Slots -> Slots]
  /\ upper_voices \in 0..MaxVoices
  /\ voices \in 0..MaxVoices /\ old_voices \in 0..MaxVoices
  /\ vidq_head \in [Keys -> 0..ByteMod - 1]
  /\ vidq_tail \in [Keys -> 0..ByteMod - 1]
  /\ channel \in [Channels -> Channel]
  /\ pc \in {"play", "fade", "ended"}
  /\ work \in [op: {"none", "reduce", "conserve", "decrement"},
               n: 0..MaxVoices, target: 0..MaxVoices]
  /\ cleared \subseteq Channels
Bounded == Typed /\ Silent /\ Loops

(* The notes of a key that wait for their Note Offs have different vids,   *)
(* and a link can name every voice.                                        *)
FewPending == \A s \in Setups : s.pending < ByteMod
NarrowPool == MaxVoices <= ByteMod

(* What every step keeps *)
Keeps ==
  /\ Bounded'
  /\ NotesExclusive => NotesExclusive'
  /\ SustainedHasPedal => SustainedHasPedal'
  /\ FewPending /\ OnVoicePending => OnVoicePending'
  /\ NarrowPool /\ Links => Links'

-----------------------------------------------------------------------------
(* Numbers *)

(* Every nonempty set of natural numbers has a least element. *)
LEMMA LeastNatural ==
  ASSUME NEW T \in SUBSET Nat, T # {}
  PROVE  \E i \in T : \A j \in T : i <= j
<1>1. PICK i \in T : \A j \in T : <<j, i>> \notin OpToRel(<, Nat)
  BY NatLessThanWellFounded, WFMin
<1>2. \A j \in T : ~(j < i)
  BY <1>1 DEF OpToRel
<1> QED
  BY <1>2

LEMMA LeastFacts ==
  ASSUME NEW S \in SUBSET Nat, S # {}
  PROVE  Least(S) \in S /\ \A j \in S : Least(S) <= j
BY LeastNatural DEF Least

(* ... and every nonempty set of slots a greatest. *)
LEMMA GreatestFacts ==
  ASSUME NEW n \in Nat, NEW S \in SUBSET (0..n - 1), S # {}
  PROVE  Greatest(S) \in S /\ \A j \in S : Greatest(S) >= j
<1> DEFINE T == {k \in Nat : \A j \in S : j <= k}
<1>1. n \in T
  OBVIOUS
<1>2. PICK k \in T : \A m \in T : k <= m
  <2>1. T \in SUBSET Nat /\ T # {}
    BY <1>1
  <2> QED
    BY <2>1, LeastNatural
<1>3. k \in S
  <2> SUFFICES ASSUME k \notin S
               PROVE  FALSE
    OBVIOUS
  <2>1. \A j \in S : j \in Nat /\ j < k
    BY <1>2
  <2>2. k # 0
    <3>1. PICK j \in S : TRUE
      OBVIOUS
    <3> QED
      BY <2>1, <3>1
  <2>3. k - 1 \in Nat /\ \A j \in S : j <= k - 1
    BY <1>2, <2>1, <2>2
  <2> QED
    BY <1>2, <2>3
<1>4. \A j \in S : k >= j
  BY <1>2
<1> QED
  BY <1>3, <1>4 DEF Greatest

(* Eight bit arithmetic, case by case. *)
LEMMA Modulo ==
  ASSUME NEW n \in Nat \ {0}
  PROVE  /\ \A v \in Nat : v % n \in 0..n - 1 /\ v % n <= v
         /\ \A v \in 0..n - 1 : v % n = v
         /\ \A a, b \in 0..n - 1 : (a - b) % n = IF b <= a THEN a - b ELSE a - b + n
         /\ \A a \in 0..n - 1 : (a + 1) % n = IF a = n - 1 THEN 0 ELSE a + 1
<1>1. \A v \in Nat : v % n \in 0..n - 1 /\ v % n <= v
  OBVIOUS
<1>2. \A v \in 0..n - 1 : v % n = v
  OBVIOUS
<1>3. \A a, b \in 0..n - 1 : (a - b) % n = IF b <= a THEN a - b ELSE a - b + n
  OBVIOUS
<1>4. \A a \in 0..n - 1 : (a + 1) % n = IF a = n - 1 THEN 0 ELSE a + 1
  OBVIOUS
<1> QED
  BY <1>1, <1>2, <1>3, <1>4

(* The vids of a key lie on a circle: the oldest one is taken off, or a    *)
(* new one is put on when that is not the last.                            *)
LEMMA Circle ==
  ASSUME ByteAssumption, NEW a \in 0..ByteMod - 1, NEW h \in 0..ByteMod - 1,
         NEW t \in 0..ByteMod - 1
  PROVE  /\ (h - t) % ByteMod \in 0..ByteMod - 1
         /\ a # t /\ (a - t) % ByteMod < (h - t) % ByteMod =>
              (a - ((t + 1) % ByteMod)) % ByteMod < (h - ((t + 1) % ByteMod)) % ByteMod
         /\ (h - t) % ByteMod < ByteMod - 1 =>
              (((h + 1) % ByteMod) - t) % ByteMod = ((h - t) % ByteMod) + 1
<1> DEFINE B == ByteMod
           u == (t + 1) % B
           g == (h + 1) % B
<1>1. /\ B \in Nat \ {0}
      /\ \A b, c \in 0..B - 1 : (b - c) % B = IF c <= b THEN b - c ELSE b - c + B
      /\ u = IF t = B - 1 THEN 0 ELSE t + 1
      /\ g = IF h = B - 1 THEN 0 ELSE h + 1
  BY Modulo DEF ByteAssumption
<1> HIDE DEF u, g
<1>2. u \in 0..B - 1 /\ g \in 0..B - 1
  BY <1>1
<1>3. /\ (a - t) % B = (IF t <= a THEN a - t ELSE a - t + B)
      /\ (h - t) % B = (IF t <= h THEN h - t ELSE h - t + B)
      /\ (a - u) % B = (IF u <= a THEN a - u ELSE a - u + B)
      /\ (h - u) % B = (IF u <= h THEN h - u ELSE h - u + B)
      /\ (g - t) % B = (IF t <= g THEN g - t ELSE g - t + B)
  BY <1>1, <1>2
<1>4. (h - t) % B \in 0..B - 1
  BY <1>1, <1>3
<1>5. a # t /\ (a - t) % B < (h - t) % B => (a - u) % B < (h - u) % B
  BY <1>1, <1>3
<1>6. (h - t) % B < B - 1 => (g - t) % B = ((h - t) % B) + 1
  BY <1>1, <1>3
<1> QED
  BY <1>4, <1>5, <1>6 DEF u, g

LEMMA LinkToFacts ==
  ASSUME VoicesAssumption, ByteAssumption, NEW v \in Slots
  PROVE  LinkTo(v) \in Slots /\ (MaxVoices <= ByteMod => LinkTo(v) = v)
<1>1. v \in Nat /\ v % ByteMod \in 0..ByteMod - 1 /\ v % ByteMod <= v
  <2>1. v \in Nat
    BY DEF Slots, VoicesAssumption
  <2>2. ByteMod \in Nat \ {0}
    BY DEF ByteAssumption
  <2> QED
    BY <2>1, <2>2, Modulo
<1>2. MaxVoices <= ByteMod => v \in 0..ByteMod - 1
  BY DEF Slots, ByteAssumption, VoicesAssumption
<1>3. MaxVoices <= ByteMod => v % ByteMod = v
  BY <1>2, Modulo DEF ByteAssumption
<1> QED
  BY <1>1, <1>3 DEF Slots, LinkTo, ByteAssumption, VoicesAssumption

-----------------------------------------------------------------------------
(* Links *)

LEMMA UnlinkFacts ==
  ASSUME VoicesAssumption, ByteAssumption,
         NEW link \in [Slots -> Slots], NEW v \in Slots
  PROVE  /\ Unlink(link, v) \in [Slots -> Slots]
         /\ MaxVoices <= ByteMod /\ Paired(link) =>
              /\ Paired(Unlink(link, v))
              /\ Unlink(link, v)[v] = v
              /\ \A i \in Slots : link[i] = i => Unlink(link, v)[i] = i
<1> DEFINE w == link[v]
           u == Unlink(link, v)
<1>1. w \in Slots
  OBVIOUS
<1>2. LinkTo(v) \in Slots /\ LinkTo(w) \in Slots
      /\ (MaxVoices <= ByteMod => LinkTo(v) = v /\ LinkTo(w) = w)
  BY <1>1, LinkToFacts
<1>3. u = [link EXCEPT ![v] = LinkTo(v), ![w] = LinkTo(w)]
  BY DEF Unlink
<1>4. u \in [Slots -> Slots]
  BY <1>2, <1>3
<1>5. ASSUME MaxVoices <= ByteMod, Paired(link)
      PROVE  Paired(u) /\ u[v] = v /\ \A i \in Slots : link[i] = i => u[i] = i
  <2>1. \A i \in Slots : u[i] = IF i = w THEN w ELSE IF i = v THEN v ELSE link[i]
    BY <1>1, <1>2, <1>3, <1>5
  <2> HIDE DEF u
  <2>2. \A i \in Slots : i # v /\ i # w => link[i] # v /\ link[i] # w
    BY <1>5 DEF Paired
  <2>3. Paired(u)
    BY <1>1, <1>5, <2>1, <2>2 DEF Paired
  <2>4. u[v] = v
    BY <2>1
  <2>5. \A i \in Slots : link[i] = i => u[i] = i
    BY <2>1
  <2> QED
    BY <2>3, <2>4, <2>5
<1> QED
  BY <1>4, <1>5

(* The loop that unlinks the voices of S: what holds before and is kept by *)
(* every round holds at its end.                                           *)
LEMMA UnlinkAllFacts ==
  ASSUME VoicesAssumption, ByteAssumption, NEW link \in [Slots -> Slots],
         NEW S \in SUBSET Slots
  PROVE  /\ UnlinkAll(link, S) \in [Slots -> Slots]
         /\ MaxVoices <= ByteMod /\ Paired(link) =>
              /\ Paired(UnlinkAll(link, S))
              /\ \A i \in S : UnlinkAll(link, S)[i] = i
              /\ \A i \in Slots : link[i] = i => UnlinkAll(link, S)[i] = i
<1> DEFINE Round(f, i) == IF i = 0 THEN link
                          ELSE IF i - 1 \in S THEN Unlink(f[i - 1], i - 1) ELSE f[i - 1]
           Begun(f, n) == f = [i \in 0..n |-> Round(f, i)]
           after == CHOOSE f : Begun(f, MaxVoices)
<1>1. MaxVoices \in Nat
  BY DEF VoicesAssumption
<1>2. UnlinkAll(link, S) = after[MaxVoices]
  BY DEF UnlinkAll
<1>3. \E f : Begun(f, MaxVoices)
  <2> DEFINE T == {n \in 0..MaxVoices : ~\E f : Begun(f, n)}
  <2> SUFFICES ASSUME T # {}
               PROVE  FALSE
    BY <1>1
  <2>1. PICK n \in T : \A m \in T : n <= m
    <3>1. T \in SUBSET Nat
      BY <1>1
    <3> HIDE DEF T
    <3> QED
      BY <3>1, LeastNatural
  <2>2. n # 0
    <3>1. Begun([i \in 0..0 |-> link], 0)
      OBVIOUS
    <3> QED
      BY <2>1, <3>1
  <2>3. n - 1 \in 0..MaxVoices /\ n - 1 \notin T
    <3>1. n \in Nat /\ n <= MaxVoices
      BY <1>1, <2>1
    <3>2. ~(n <= n - 1)
      BY <3>1
    <3> HIDE DEF T
    <3> QED
      BY <1>1, <2>1, <2>2, <3>1, <3>2
  <2>4. PICK f : Begun(f, n - 1)
    BY <2>3
  <2> DEFINE g == [i \in 0..n |-> Round(f, i)]
  <2>5. \A i \in 0..n : i # 0 => g[i - 1] = f[i - 1]
    <3> SUFFICES ASSUME NEW i \in 0..n, i # 0
                 PROVE  g[i - 1] = f[i - 1]
      OBVIOUS
    <3>1. i - 1 \in 0..n - 1 /\ i - 1 \in 0..n
      BY <1>1, <2>1
    <3>2. f[i - 1] = Round(f, i - 1)
      BY <2>4, <3>1
    <3> HIDE DEF Round
    <3> QED
      BY <3>1, <3>2
  <2>6. \A i \in 0..n : Round(g, i) = Round(f, i)
    <3> HIDE DEF g
    <3> QED
      BY <2>5
  <2>7. Begun(g, n)
    <3> HIDE DEF Round
    <3> QED
      BY <2>6
  <2> QED
    BY <2>1, <2>7
<1>4. Begun(after, MaxVoices)
  <2> HIDE DEF Begun
  <2> QED
    BY <1>3
<1>5. \A i \in 0..MaxVoices : after[i] = Round(after, i)
  <2> HIDE DEF after, Round
  <2> QED
    BY <1>4
<1> HIDE DEF after
<1> DEFINE Good(i) == /\ after[i] \in [Slots -> Slots]
                      /\ MaxVoices <= ByteMod /\ Paired(link) =>
                           /\ Paired(after[i])
                           /\ \A j \in S : j < i => after[i][j] = j
                           /\ \A j \in Slots : link[j] = j => after[i][j] = j
<1>6. Good(MaxVoices)
  <2> DEFINE T == {n \in 0..MaxVoices : ~Good(n)}
  <2> SUFFICES ASSUME T # {}
               PROVE  FALSE
    BY <1>1
  <2>1. PICK n \in T : \A m \in T : n <= m
    <3>1. T \in SUBSET Nat
      BY <1>1
    <3> HIDE DEF T
    <3> QED
      BY <3>1, LeastNatural
  <2>2. Good(0)
    <3>1. after[0] = link
      BY <1>1, <1>5
    <3>2. \A j \in S : ~(j < 0)
      BY DEF Slots
    <3> QED
      BY <3>1, <3>2
  <2>3. n \in 1..MaxVoices /\ n - 1 \in 0..MaxVoices /\ n - 1 \notin T
    <3>1. n # 0
      BY <2>1, <2>2
    <3>2. n \in Nat /\ n <= MaxVoices
      BY <1>1, <2>1
    <3>3. ~(n <= n - 1)
      BY <3>2
    <3> HIDE DEF T
    <3> QED
      BY <1>1, <2>1, <3>1, <3>2, <3>3
  <2>4. Good(n - 1)
    <3> HIDE DEF Good
    <3> QED
      BY <2>3
  <2>5. n - 1 \in Slots
    BY <1>1, <2>3 DEF Slots
  <2>6. after[n] = IF n - 1 \in S THEN Unlink(after[n - 1], n - 1) ELSE after[n - 1]
    BY <1>1, <1>5, <2>3
  <2>7. \A j \in S : j < n => j < n - 1 \/ j = n - 1
    BY <1>1, <2>3 DEF Slots
  <2>8. Good(n)
    <3>1. CASE n - 1 \notin S
      <4>1. \A j \in S : j < n => j < n - 1
        BY <2>7, <3>1
      <4> QED
        BY <2>4, <2>6, <3>1, <4>1
    <3>2. CASE n - 1 \in S
      <4> DEFINE a == after[n - 1]
                 b == after[n]
      <4>1. a \in [Slots -> Slots]
        BY <2>4
      <4>2. b = Unlink(a, n - 1)
        BY <2>6, <3>2
      <4>3. b \in [Slots -> Slots]
        BY <2>5, <4>1, <4>2, UnlinkFacts
      <4>4. ASSUME MaxVoices <= ByteMod, Paired(link)
            PROVE  /\ Paired(b)
                   /\ \A j \in S : j < n => b[j] = j
                   /\ \A j \in Slots : link[j] = j => b[j] = j
        <5>1. /\ Paired(a)
              /\ \A j \in S : j < n - 1 => a[j] = j
              /\ \A j \in Slots : link[j] = j => a[j] = j
          BY <2>4, <4>4
        <5> HIDE DEF a, b
        <5>2. Paired(b) /\ b[n - 1] = n - 1 /\ \A j \in Slots : a[j] = j => b[j] = j
          BY <2>5, <4>1, <4>2, <4>4, <5>1, UnlinkFacts
        <5> QED
          BY <2>7, <5>1, <5>2
      <4> QED
        BY <4>3, <4>4
    <3> QED
      BY <3>1, <3>2
  <2> QED
    BY <2>1, <2>8
<1>7. \A j \in S : j < MaxVoices
  BY <1>1 DEF Slots
<1> QED
  BY <1>2, <1>6, <1>7

-----------------------------------------------------------------------------
(* Pools *)

Pools == [voice: [Slots -> Voice], link: [Slots -> Slots], upper: 0..MaxVoices]
Linked(p) == MaxVoices <= ByteMod /\ Paired(p.link) /\ FreeAlone(p)

LEMMA SlotFacts ==
  ASSUME VoicesAssumption
  PROVE  /\ MaxVoices \in Nat /\ Slots \subseteq Nat /\ 0 \in Slots
         /\ \A u \in 0..MaxVoices : \A i \in 0..u - 1 : i \in Slots
         /\ \A u \in 0..MaxVoices - 1 : u \in Slots
BY DEF VoicesAssumption, Slots

LEMMA PoolFacts ==
  ASSUME NEW p \in Pools
  PROVE  /\ p = [voice |-> p.voice, link |-> p.link, upper |-> p.upper]
         /\ p.voice \in [Slots -> Voice] /\ p.link \in [Slots -> Slots]
         /\ p.upper \in 0..MaxVoices
BY DEF Pools

LEMMA FreeVoiceFacts ==
  ASSUME VoicesAssumption, ByteAssumption, NEW p \in Pools, NEW v \in Slots
  PROVE  LET q == FreeVoice(p, v)
         IN  /\ q \in Pools /\ q.upper = p.upper
             /\ \A i \in Slots : i # v => q.voice[i] = p.voice[i]
             /\ q.voice[v].status = "free"
             /\ Linked(p) => Linked(q) /\ q.link[v] = v
<1> DEFINE q == FreeVoice(p, v)
           u == Unlink(p.link, v)
<1>1. /\ p.voice \in [Slots -> Voice] /\ p.link \in [Slots -> Slots]
      /\ p.upper \in 0..MaxVoices
  BY PoolFacts
<1>2. /\ u \in [Slots -> Slots]
      /\ MaxVoices <= ByteMod /\ Paired(p.link) =>
           /\ Paired(u) /\ u[v] = v
           /\ \A i \in Slots : p.link[i] = i => u[i] = i
  BY <1>1, UnlinkFacts
<1> HIDE DEF u
<1>3. /\ q.voice = [p.voice EXCEPT ![v].status = "free"] /\ q.link = u
      /\ q.upper = p.upper /\ q = [voice |-> q.voice, link |-> q.link, upper |-> q.upper]
  <2>1. p = [voice |-> p.voice, link |-> p.link, upper |-> p.upper]
    BY PoolFacts
  <2>2. q = [p EXCEPT !.voice = [p.voice EXCEPT ![v].status = "free"], !.link = u]
    BY DEF FreeVoice, u
  <2> QED
    BY <2>1, <2>2
<1> HIDE DEF q
<1>4. p.voice[v] \in Voice /\ [p.voice[v] EXCEPT !.status = "free"] \in Voice
  BY <1>1 DEF Voice, Statuses
<1>5. /\ q.voice \in [Slots -> Voice]
      /\ q.voice[v] = [p.voice[v] EXCEPT !.status = "free"]
      /\ \A i \in Slots : i # v => q.voice[i] = p.voice[i]
  BY <1>1, <1>3, <1>4
<1>6. q.voice[v].status = "free"
  BY <1>4, <1>5 DEF Voice
<1>7. q \in Pools
  BY <1>1, <1>2, <1>3, <1>5 DEF Pools
<1>8. Linked(p) => Linked(q) /\ q.link[v] = v
  BY <1>2, <1>3, <1>5 DEF Linked, FreeAlone
<1> QED
  BY <1>3, <1>5, <1>6, <1>7, <1>8 DEF q

(* reduce_voice() takes a voice that plays when there is one. *)
LEMMA VictimsFacts ==
  ASSUME VoicesAssumption, NEW p \in Pools
  PROVE  /\ Live(p) \subseteq 0..p.upper - 1 /\ Live(p) \subseteq Slots
         /\ Victims(p) \subseteq Slots
         /\ Victims(p) \subseteq Live(p) \/ (Live(p) = {} /\ Victims(p) = {0})
<1>1. Live(p) \subseteq 0..p.upper - 1 /\ Live(p) \subseteq Slots /\ 0 \in Slots
  BY PoolFacts, SlotFacts DEF Live
<1> DEFINE decaying == {i \in Live(p) : p.voice[i].status = "off" /\ ~Protected(p.voice[i])}
           dying == {i \in Live(p) : p.voice[i].status = "die"}
           sustained == {i \in Live(p) : p.voice[i].status = "sustained"}
           chorus == {i \in Live(p) : p.link[i] < i}
           other == {i \in Live(p) : ~Protected(p.voice[i])}
<1>2. /\ decaying \subseteq Live(p) /\ dying \subseteq Live(p) /\ sustained \subseteq Live(p)
      /\ chorus \subseteq Live(p) /\ other \subseteq Live(p)
  OBVIOUS
<1>3. Victims(p) =
        CASE decaying # {} -> decaying
          [] decaying = {} /\ dying # {} -> dying
          [] decaying \cup dying = {} /\ sustained # {} -> sustained
          [] decaying \cup dying \cup sustained = {} /\ chorus # {} -> chorus
          [] OTHER -> IF other # {} THEN other
                      ELSE IF Live(p) # {} THEN Live(p) ELSE {0}
  BY DEF Victims
<1> HIDE DEF decaying, dying, sustained, chorus, other
<1>4. \/ Victims(p) = decaying \/ Victims(p) = dying \/ Victims(p) = sustained
      \/ Victims(p) = chorus \/ Victims(p) = other \/ Victims(p) = Live(p)
      \/ (Live(p) = {} /\ Victims(p) = {0})
  BY <1>3
<1> QED
  BY <1>1, <1>2, <1>4

-----------------------------------------------------------------------------
(* What a note of channel c with note n and vid does to a pool, from       *)
(* find_voice() to the start of the last voice: a voice was chosen for it  *)
(* (it is in W), is silenced, was there before and is spared, or belongs   *)
(* to the note.                                                            *)
Silenced(y) == y.status \in {"free", "die"}
Spared(y, i, c, n) ==
  /\ i < upper_voices
  /\ y.status = voice[i].status /\ y.ch = voice[i].ch
  /\ y.note = voice[i].note /\ y.vid = voice[i].vid
  /\ y.ch = c => ~Cut(voice[i], c, n)
  /\ y.proximate = voice[i].proximate \/ (y.ch = c /\ y.note = n)
Struck(y, c, n, vid) ==
  y.status = "on" /\ y.ch = c /\ y.note = n /\ y.vid = vid /\ y.proximate

Chosen(p, c, n, W) ==
  \A i \in 0..p.upper - 1 :
    i \in W \/ Silenced(p.voice[i]) \/ Spared(p.voice[i], i, c, n)
Sorted(p, c, n, vid, W) ==
  \A i \in 0..p.upper - 1 :
    \/ i \in W \/ Silenced(p.voice[i]) \/ Spared(p.voice[i], i, c, n)
    \/ Struck(p.voice[i], c, n, vid)

Quiet(p) ==
  p.upper <= voices /\ \A i \in p.upper..voices - 1 : p.voice[i].status = "free"
Reach(p, v) == v \in Slots /\ (v < p.upper \/ voices = 0)
FullBelow(p, v) == \A i \in 0..voices - 1 : i < v => p.voice[i].status # "free"

(* A note kills what it cuts, and nothing else happens to the voices but   *)
(* that proximate_flag is cleared for its own note.                        *)
LEMMA AfterCutFacts ==
  ASSUME VoicesAssumption, NEW p \in Pools, NEW c, NEW n
  PROVE  LET q == AfterCut(p, c, n)
         IN  /\ q \in Pools /\ q.upper = p.upper /\ q.link = p.link
             /\ \A i \in Slots :
                  /\ q.voice[i].ch = p.voice[i].ch /\ q.voice[i].note = p.voice[i].note
                  /\ q.voice[i].vid = p.voice[i].vid
                  /\ q.voice[i].status = "free" <=> p.voice[i].status = "free"
                  /\ q.voice[i].status = p.voice[i].status \/ Silenced(q.voice[i])
                  /\ i \in Live(p) /\ p.voice[i].ch = c /\ Cut(p.voice[i], c, n) =>
                       Silenced(q.voice[i])
                  /\ q.voice[i].proximate # p.voice[i].proximate =>
                       p.voice[i].ch = c /\ p.voice[i].note = n
<1> DEFINE q == AfterCut(p, c, n)
           Status(i) == IF i \in Live(p) /\ p.voice[i].ch = c /\ Cut(p.voice[i], c, n)
                        THEN "die" ELSE p.voice[i].status
           Near(i) == p.voice[i].proximate /\
                      ~(i < p.upper /\ p.voice[i].ch = c /\ p.voice[i].note = n)
<1>1. /\ p.voice \in [Slots -> Voice] /\ p.link \in [Slots -> Slots]
      /\ p.upper \in 0..MaxVoices
  BY PoolFacts
<1>2. /\ q.voice = [i \in Slots |-> [p.voice[i] EXCEPT !.status = Status(i),
                                                      !.proximate = Near(i)]]
      /\ q.link = p.link /\ q.upper = p.upper
      /\ q = [voice |-> q.voice, link |-> q.link, upper |-> q.upper]
  <2>1. p = [voice |-> p.voice, link |-> p.link, upper |-> p.upper]
    BY PoolFacts
  <2>2. q = [p EXCEPT !.voice = [i \in Slots |-> [p.voice[i] EXCEPT !.status = Status(i),
                                                                  !.proximate = Near(i)]]]
    BY DEF AfterCut
  <2> QED
    BY <2>1, <2>2
<1>3. \A i \in Slots : Near(i) \in BOOLEAN
  OBVIOUS
<1>4. \A i \in Slots : Near(i) # p.voice[i].proximate =>
                         p.voice[i].ch = c /\ p.voice[i].note = n
  BY <1>1 DEF Voice
<1>5. \A i \in Slots : Status(i) \in Statuses
  BY <1>1 DEF Voice, Statuses
<1>6. \A i \in Slots : Status(i) = "free" <=> p.voice[i].status = "free"
  BY DEF Live
<1>7. \A i \in Slots : Status(i) = p.voice[i].status \/ Status(i) = "die"
  OBVIOUS
<1>8. \A i \in Slots : i \in Live(p) /\ p.voice[i].ch = c /\ Cut(p.voice[i], c, n) =>
                         Status(i) = "die"
  OBVIOUS
<1> HIDE DEF q, Status, Near
<1>9. \A i \in Slots :
        /\ q.voice[i] \in Voice
        /\ q.voice[i].status = Status(i) /\ q.voice[i].proximate = Near(i)
        /\ q.voice[i].ch = p.voice[i].ch /\ q.voice[i].note = p.voice[i].note
        /\ q.voice[i].vid = p.voice[i].vid
  <2> SUFFICES ASSUME NEW i \in Slots
               PROVE  /\ q.voice[i] \in Voice
                      /\ q.voice[i].status = Status(i) /\ q.voice[i].proximate = Near(i)
                      /\ q.voice[i].ch = p.voice[i].ch /\ q.voice[i].note = p.voice[i].note
                      /\ q.voice[i].vid = p.voice[i].vid
    OBVIOUS
  <2>1. q.voice[i] = [p.voice[i] EXCEPT !.status = Status(i), !.proximate = Near(i)]
    BY <1>2
  <2>2. p.voice[i] \in Voice /\ Status(i) \in Statuses /\ Near(i) \in BOOLEAN
    BY <1>1, <1>3, <1>5
  <2> QED
    BY <2>1, <2>2 DEF Voice
<1>10. q.voice \in [Slots -> Voice]
  BY <1>2, <1>9
<1>11. q \in Pools
  BY <1>1, <1>2, <1>10 DEF Pools
<1>12. \A i \in Slots :
         /\ q.voice[i].status = "free" <=> p.voice[i].status = "free"
         /\ q.voice[i].status = p.voice[i].status \/ Silenced(q.voice[i])
         /\ i \in Live(p) /\ p.voice[i].ch = c /\ Cut(p.voice[i], c, n) =>
              Silenced(q.voice[i])
         /\ q.voice[i].proximate # p.voice[i].proximate =>
              p.voice[i].ch = c /\ p.voice[i].note = n
  BY <1>4, <1>6, <1>7, <1>8, <1>9 DEF Silenced
<1> QED
  BY <1>2, <1>9, <1>11, <1>12 DEF q

(* ... so what was there before a cut is spared or silenced after it. *)
Candidate(y, i, c, n) ==
  /\ i < upper_voices
  /\ y.status = voice[i].status /\ y.ch = voice[i].ch
  /\ y.note = voice[i].note /\ y.vid = voice[i].vid
  /\ y.ch = c /\ Cut(voice[i], c, n) => Cut(y, c, n)
  /\ y.proximate = voice[i].proximate \/ (y.ch = c /\ y.note = n)
Standing(p, c, n, W) ==
  \A i \in 0..p.upper - 1 :
    i \in W \/ Silenced(p.voice[i]) \/ Candidate(p.voice[i], i, c, n)

LEMMA CutChoice ==
  ASSUME VoicesAssumption, NEW p \in Pools, NEW c, NEW n, NEW W, Standing(p, c, n, W)
  PROVE  Chosen(AfterCut(p, c, n), c, n, W)
<1> DEFINE q == AfterCut(p, c, n)
<1>1. /\ q.upper = p.upper
      /\ \A i \in Slots :
           /\ q.voice[i].ch = p.voice[i].ch /\ q.voice[i].note = p.voice[i].note
           /\ q.voice[i].vid = p.voice[i].vid
           /\ q.voice[i].status = "free" <=> p.voice[i].status = "free"
           /\ q.voice[i].status = p.voice[i].status \/ Silenced(q.voice[i])
           /\ i \in Live(p) /\ p.voice[i].ch = c /\ Cut(p.voice[i], c, n) =>
                Silenced(q.voice[i])
           /\ q.voice[i].proximate # p.voice[i].proximate =>
                p.voice[i].ch = c /\ p.voice[i].note = n
  BY AfterCutFacts
<1> HIDE DEF q
<1> SUFFICES ASSUME NEW i \in 0..p.upper - 1, i \notin W, ~Silenced(q.voice[i])
             PROVE  Spared(q.voice[i], i, c, n)
  BY <1>1 DEF Chosen, q
<1>2. i \in Slots
  BY PoolFacts, SlotFacts
<1>3. q.voice[i].status = p.voice[i].status /\ p.voice[i].status # "free"
  BY <1>1, <1>2 DEF Silenced
<1>4. Candidate(p.voice[i], i, c, n)
  BY <1>3 DEF Standing, Silenced
<1>5. i \in Live(p)
  BY <1>3 DEF Live
<1>6. q.voice[i].ch = c => ~Cut(p.voice[i], c, n)
  BY <1>1, <1>2, <1>5
<1>7. q.voice[i].ch = c => ~Cut(voice[i], c, n)
  BY <1>1, <1>2, <1>4, <1>6 DEF Candidate
<1>8. \/ q.voice[i].proximate = voice[i].proximate
      \/ q.voice[i].ch = c /\ q.voice[i].note = n
  BY <1>1, <1>2, <1>4 DEF Candidate
<1> QED
  BY <1>1, <1>2, <1>3, <1>4, <1>7, <1>8 DEF Candidate, Spared

(* find_voice() finds a place in the pool, and nothing below it is free. *)
LEMMA FindVoiceFacts ==
  ASSUME VoicesAssumption, ByteAssumption, voices \in 0..MaxVoices,
         NEW p \in Pools, Quiet(p), NEW c, NEW n, NEW W, Standing(p, c, n, W),
         NEW e \in FindVoice(p, c, n)
  PROVE  /\ e = [pool |-> e.pool, v |-> e.v]
         /\ e.pool \in Pools /\ Quiet(e.pool) /\ Reach(e.pool, e.v)
         /\ Chosen(e.pool, c, n, W \cup {e.v})
         /\ FullBelow(e.pool, e.v)
         /\ p.upper <= e.pool.upper
         /\ Linked(p) => Linked(e.pool) /\ e.pool.link[e.v] = e.v
<1> DEFINE free == {i \in 0..p.upper - 1 : p.voice[i].status = "free"}
           q == AfterCut(p, c, n)
<1>1. /\ q \in Pools /\ q.upper = p.upper /\ q.link = p.link
      /\ \A i \in Slots : q.voice[i].status = "free" <=> p.voice[i].status = "free"
  BY AfterCutFacts
<1>2. Chosen(q, c, n, W)
  BY CutChoice
<1>3. /\ p.upper \in 0..MaxVoices /\ MaxVoices \in Nat /\ Slots \subseteq Nat /\ 0 \in Slots
      /\ \A u \in 0..MaxVoices : \A i \in 0..u - 1 : i \in Slots
      /\ \A u \in 0..MaxVoices - 1 : u \in Slots
  BY PoolFacts, SlotFacts
<1>4. Quiet(q)
  <2> SUFFICES ASSUME NEW i \in p.upper..voices - 1
               PROVE  q.voice[i].status = "free"
    BY <1>1 DEF Quiet
  <2>1. i \in 0..voices - 1
    BY <1>3
  <2>2. i \in Slots
    BY <1>3, <2>1
  <2> QED
    BY <1>1, <2>2 DEF Quiet
<1>5. Linked(p) => Linked(q)
  BY <1>1 DEF Linked, FreeAlone
<1>6. CASE free # {}
  <2> DEFINE v == Least(free)
  <2>1. v \in free /\ \A j \in free : v <= j
    <3>1. free \in SUBSET Nat
      BY <1>3
    <3> HIDE DEF free
    <3> QED
      BY <1>6, <3>1, LeastFacts
  <2>2. e = [pool |-> q, v |-> v]
    BY <1>6 DEF FindVoice
  <2> HIDE DEF v, q
  <2>3. v \in 0..p.upper - 1 /\ v \in Slots /\ v < p.upper /\ p.voice[v].status = "free"
    BY <1>3, <2>1
  <2>4. FullBelow(q, v)
    <3> SUFFICES ASSUME NEW i \in 0..voices - 1, i < v
                 PROVE  q.voice[i].status # "free"
      BY DEF FullBelow
    <3>1. i \in 0..p.upper - 1 /\ i \in Slots /\ ~(v <= i)
      BY <1>3, <2>3
    <3> QED
      BY <1>1, <2>1, <3>1
  <2>5. Chosen(q, c, n, W \cup {v})
    BY <1>2 DEF Chosen
  <2>6. Linked(p) => q.link[v] = v
    BY <1>1, <2>3 DEF Linked, FreeAlone
  <2>7. Reach(q, v)
    BY <1>1, <2>3 DEF Reach
  <2> QED
    BY <1>1, <1>3, <1>4, <1>5, <2>2, <2>4, <2>5, <2>6, <2>7
<1>7. ASSUME free = {}, NEW i \in 0..p.upper - 1
      PROVE  i \in Slots /\ p.voice[i].status # "free" /\ q.voice[i].status # "free"
  BY <1>1, <1>3, <1>7
<1>8. CASE free = {} /\ p.upper < voices
  <2> DEFINE v == p.upper
             r == [q EXCEPT !.upper = v + 1]
  <2>1. e = [pool |-> r, v |-> v]
    BY <1>8 DEF FindVoice
  <2>2. v \in Slots /\ v + 1 \in 0..MaxVoices /\ v + 1 <= voices /\ v \in Nat
    BY <1>3, <1>8
  <2> HIDE DEF q
  <2>3. r \in Pools /\ r.voice = q.voice /\ r.link = q.link /\ r.upper = v + 1
    BY <1>1, <2>2 DEF Pools
  <2> HIDE DEF r
  <2>4. Quiet(r)
    <3>1. \A i \in v + 1..voices - 1 : i \in v..voices - 1
      BY <2>2
    <3> QED
      BY <1>1, <1>4, <2>2, <2>3, <3>1 DEF Quiet
  <2>5. Reach(r, v)
    BY <2>2, <2>3 DEF Reach
  <2>6. Chosen(r, c, n, W \cup {v})
    <3>1. \A i \in 0..v + 1 - 1 : i = v \/ i \in 0..v - 1
      BY <2>2
    <3> QED
      BY <1>1, <1>2, <2>2, <2>3, <3>1 DEF Chosen
  <2>7. FullBelow(r, v)
    <3>1. \A i \in 0..voices - 1 : i < v => i \in 0..p.upper - 1
      BY <2>2
    <3> QED
      BY <1>7, <1>8, <2>3, <3>1 DEF FullBelow
  <2>8. q.voice[v].status = "free"
    <3>1. v \in v..voices - 1
      BY <1>8, <2>2, <1>3
    <3> QED
      BY <1>1, <1>4, <3>1 DEF Quiet
  <2>9. Linked(p) => Linked(r) /\ r.link[v] = v
    BY <1>5, <2>2, <2>3, <2>8 DEF Linked, FreeAlone
  <2> QED
    BY <2>1, <2>2, <2>3, <2>4, <2>5, <2>6, <2>7, <2>9
<1>9. CASE free = {} /\ ~(p.upper < voices)
  <2>1. PICK v \in Victims(q) : e = [pool |-> FreeVoice(q, v), v |-> v]
    BY <1>9 DEF FindVoice, ReduceVoice
  <2>2. p.upper = voices
    BY <1>3, <1>9 DEF Quiet
  <2>3. v \in Slots /\ (v < p.upper \/ voices = 0)
    <3>1. /\ Live(q) \subseteq 0..q.upper - 1
          /\ Victims(q) \subseteq Slots
          /\ Victims(q) \subseteq Live(q) \/ (Live(q) = {} /\ Victims(q) = {0})
      BY <1>1, VictimsFacts
    <3>2. CASE v \in Live(q)
      BY <1>1, <1>3, <3>1, <3>2
    <3>3. CASE Live(q) = {}
      <4>1. \A i \in 0..p.upper - 1 : i \in Live(q)
        BY <1>1, <1>7, <1>9 DEF Live
      <4>2. p.upper = 0
        BY <1>3, <3>3, <4>1
      <4> QED
        BY <2>2, <3>1, <4>2
    <3> QED
      BY <3>1, <3>2, <3>3
  <2> HIDE DEF q
  <2> DEFINE r == FreeVoice(q, v)
  <2>4. /\ r \in Pools /\ r.upper = p.upper
        /\ \A i \in Slots : i # v => r.voice[i] = q.voice[i]
        /\ r.voice[v].status = "free"
        /\ Linked(q) => Linked(r) /\ r.link[v] = v
    <3>1. q \in Pools /\ v \in Slots
      BY <1>1, <2>3
    <3>2. /\ r \in Pools /\ r.upper = q.upper
          /\ \A i \in Slots : i # v => r.voice[i] = q.voice[i]
          /\ r.voice[v].status = "free"
          /\ Linked(q) => Linked(r) /\ r.link[v] = v
      BY <3>1, FreeVoiceFacts
    <3> QED
      BY <1>1, <3>2
  <2> HIDE DEF r
  <2>5. Quiet(r)
    BY <1>3, <2>2, <2>4 DEF Quiet
  <2>6. Chosen(r, c, n, W \cup {v})
    <3>1. \A i \in 0..p.upper - 1 : i \in Slots
      BY <1>3
    <3> QED
      BY <1>1, <1>2, <2>4, <3>1 DEF Chosen
  <2>7. FullBelow(r, v)
    <3>1. \A i \in 0..voices - 1 : i < v => i \in 0..p.upper - 1 /\ i # v
      BY <1>3, <2>2, <2>3
    <3> QED
      BY <1>7, <1>9, <2>4, <3>1 DEF FullBelow
  <2>8. Reach(r, v)
    BY <2>3, <2>4 DEF Reach
  <2> QED
    BY <1>3, <1>5, <2>1, <2>4, <2>5, <2>6, <2>7, <2>8 DEF r
<1> QED
  BY <1>6, <1>8, <1>9

(* select_play_sample() *)
LEMMA SelectFacts ==
  ASSUME VoicesAssumption, ByteAssumption, voices \in 0..MaxVoices,
         NEW p \in Pools, Quiet(p), NEW c, NEW n, NEW W, Standing(p, c, n, W),
         NEW fixed \in BOOLEAN, NEW f \in Select(p, c, n, fixed)
  PROVE  /\ f.pool \in Pools /\ Quiet(f.pool) /\ Reach(f.pool, f.v)
         /\ Chosen(f.pool, c, n, W \cup {f.v})
         /\ FullBelow(f.pool, f.v)
         /\ p.upper <= f.pool.upper
         /\ Linked(p) => Linked(f.pool) /\ f.pool.link[f.v] = f.v
<1>1. PICK e \in FindVoice(p, c, n) :
        f = [e EXCEPT !.pool.voice[e.v].status = "on", !.pool.voice[e.v].fixed = fixed]
  BY DEF Select
<1> DEFINE q == e.pool
           v == e.v
           x == [q.voice[v] EXCEPT !.status = "on", !.fixed = fixed]
           r == [q EXCEPT !.voice = [q.voice EXCEPT ![v] = x]]
<1>2. /\ e = [pool |-> q, v |-> v]
      /\ q \in Pools /\ Quiet(q) /\ Reach(q, v)
      /\ Chosen(q, c, n, W \cup {v}) /\ FullBelow(q, v) /\ p.upper <= q.upper
      /\ Linked(p) => Linked(q) /\ q.link[v] = v
  BY FindVoiceFacts
<1>3. v \in Slots /\ q.voice \in [Slots -> Voice] /\ q.voice[v] \in Voice
  BY <1>2, PoolFacts DEF Reach
<1>4. f = [pool |-> r, v |-> v]
  BY <1>1, <1>2, <1>3
<1>5. x \in Voice /\ x.status = "on"
  BY <1>3 DEF Voice, Statuses
<1> HIDE DEF x, q, v
<1>6. /\ r \in Pools /\ r.upper = q.upper /\ r.link = q.link
      /\ r.voice[v].status = "on"
      /\ \A i \in Slots : i # v => r.voice[i] = q.voice[i]
  BY <1>2, <1>3, <1>5 DEF Pools
<1> HIDE DEF r
<1>7. Reach(r, v)
  BY <1>2, <1>6 DEF Reach
<1>8. /\ \A u \in 0..MaxVoices : \A i \in 0..u - 1 : i \in Slots
      /\ q.upper \in 0..MaxVoices /\ q.upper \in Nat /\ Slots \subseteq Nat
  BY <1>2, PoolFacts, SlotFacts
<1>9. Quiet(r)
  <2>1. ASSUME NEW i \in q.upper..voices - 1
        PROVE  i \in Slots /\ i # v
    <3>1. i \in 0..voices - 1
      BY <1>8
    <3>2. i \in Slots
      BY <1>8, <3>1
    <3>3. i # v
      BY <1>2, <1>3, <1>8, <3>1 DEF Reach
    <3> QED
      BY <3>2, <3>3
  <2> QED
    BY <1>2, <1>6, <2>1 DEF Quiet
<1>10. Chosen(r, c, n, W \cup {v})
  <2>1. \A i \in 0..q.upper - 1 : i \in Slots
    BY <1>8
  <2> QED
    BY <1>2, <1>6, <2>1 DEF Chosen
<1>11. FullBelow(r, v)
  <2>1. \A i \in 0..voices - 1 : i \in Slots
    BY <1>8
  <2>2. \A i \in 0..voices - 1 : i < v => i # v
    BY <1>3, <1>8
  <2> QED
    BY <1>2, <1>6, <2>1, <2>2 DEF FullBelow
<1>12. Linked(q) => Linked(r)
  BY <1>6 DEF Linked, FreeAlone
<1> QED
  BY <1>2, <1>4, <1>6, <1>7, <1>9, <1>10, <1>11, <1>12

(* start_note() *)
LEMMA StartFacts ==
  ASSUME VoicesAssumption, ByteAssumption, voices \in 0..MaxVoices,
         NEW p \in Pools, NEW v, Quiet(p), Reach(p, v),
         NEW c \in Channels, NEW n \in Notes, NEW vid \in 0..ByteMod - 1,
         NEW short \in BOOLEAN, NEW W, Sorted(p, c, n, vid, W)
  PROVE  LET q == Start(p, v, c, n, vid, short)
         IN  /\ q \in Pools /\ Quiet(q) /\ q.upper = p.upper
             /\ Sorted(q, c, n, vid, W \ {v})
             /\ q.voice[v].status = "free" \/ Struck(q.voice[v], c, n, vid)
             /\ FullBelow(p, v) => FullBelow(q, v)
             /\ Linked(p) /\ p.link[v] = v => Linked(q) /\ q.link[v] = v
<1> DEFINE x == [p.voice[v] EXCEPT !.status = "on", !.ch = c, !.note = n, !.proximate = TRUE]
           y == [x EXCEPT !.vid = vid]
           r == StartNote(p, v, x)
           s == StartNote(p, v, y)
           t == FreeVoice(r, v)
           q == Start(p, v, c, n, vid, short)
<1>1. /\ v \in Slots /\ p.voice \in [Slots -> Voice] /\ p.voice[v] \in Voice
      /\ p.link \in [Slots -> Slots] /\ p.upper \in 0..MaxVoices
  BY PoolFacts DEF Reach
<1>2. x \in Voice /\ y \in Voice /\ Struck(y, c, n, vid) /\ x.status = "on"
  BY <1>1 DEF Voice, Statuses, Struck
<1>3. LinkTo(v) \in Slots /\ (MaxVoices <= ByteMod => LinkTo(v) = v)
  BY <1>1, LinkToFacts
<1>4. q = IF short THEN t ELSE s
  BY DEF Start
<1> HIDE DEF x, y
<1>5. ASSUME NEW z \in Voice
      PROVE  LET b == StartNote(p, v, z)
             IN  /\ b \in Pools /\ b.upper = p.upper /\ b.voice[v] = z
                 /\ \A i \in Slots : i # v => b.voice[i] = p.voice[i]
                 /\ Linked(p) /\ p.link[v] = v /\ z.status # "free" =>
                      Linked(b) /\ b.link[v] = v
  <2> DEFINE b == StartNote(p, v, z)
  <2>1. /\ b = [voice |-> b.voice, link |-> b.link, upper |-> b.upper]
        /\ b.voice = [p.voice EXCEPT ![v] = z] /\ b.link = [p.link EXCEPT ![v] = LinkTo(v)]
        /\ b.upper = p.upper
    <3>1. p = [voice |-> p.voice, link |-> p.link, upper |-> p.upper]
      BY PoolFacts
    <3>2. b = [p EXCEPT !.voice = [p.voice EXCEPT ![v] = z],
                        !.link = [p.link EXCEPT ![v] = LinkTo(v)]]
      BY DEF StartNote
    <3> QED
      BY <3>1, <3>2
  <2> HIDE DEF b
  <2>2. b.voice \in [Slots -> Voice] /\ b.link \in [Slots -> Slots]
    BY <1>1, <1>3, <2>1
  <2>3. b \in Pools
    BY <1>1, <2>1, <2>2 DEF Pools
  <2>4. b.voice[v] = z /\ \A i \in Slots : i # v => b.voice[i] = p.voice[i]
    BY <1>1, <2>1
  <2>5. ASSUME Linked(p), p.link[v] = v, z.status # "free"
        PROVE  Linked(b) /\ b.link[v] = v
    <3>1. LinkTo(v) = v
      BY <1>3, <2>5 DEF Linked
    <3>2. b.link = p.link
      BY <1>1, <2>1, <2>5, <3>1
    <3> QED
      BY <2>4, <2>5, <3>2 DEF Linked, FreeAlone
  <2> QED
    BY <2>1, <2>3, <2>4, <2>5 DEF b
<1>6. /\ s \in Pools /\ s.upper = p.upper /\ s.voice[v] = y
      /\ \A i \in Slots : i # v => s.voice[i] = p.voice[i]
      /\ Linked(p) /\ p.link[v] = v => Linked(s) /\ s.link[v] = v
  <2>1. y.status # "free"
    BY <1>2 DEF Struck
  <2> QED
    BY <1>2, <1>5, <2>1
<1>7. /\ r \in Pools /\ r.upper = p.upper
      /\ \A i \in Slots : i # v => r.voice[i] = p.voice[i]
      /\ Linked(p) /\ p.link[v] = v => Linked(r) /\ r.link[v] = v
  <2>1. x.status # "free"
    BY <1>2
  <2> QED
    BY <1>2, <1>5, <2>1
<1> HIDE DEF r, s
<1>8. /\ t \in Pools /\ t.upper = r.upper
      /\ \A i \in Slots : i # v => t.voice[i] = r.voice[i]
      /\ t.voice[v].status = "free"
      /\ Linked(r) => Linked(t) /\ t.link[v] = v
  <2>1. r \in Pools
    BY <1>7
  <2> QED
    BY <1>1, <2>1, FreeVoiceFacts
<1> HIDE DEF t, q
<1>9. /\ q \in Pools /\ q.upper = p.upper
      /\ \A i \in Slots : i # v => q.voice[i] = p.voice[i]
      /\ q.voice[v].status = "free" \/ Struck(q.voice[v], c, n, vid)
      /\ Linked(p) /\ p.link[v] = v => Linked(q) /\ q.link[v] = v
  <2>1. CASE short
    BY <1>4, <1>7, <1>8, <2>1
  <2>2. CASE ~short
    BY <1>2, <1>4, <1>6, <2>2
  <2> QED
    BY <2>1, <2>2
<1>10. /\ \A u \in 0..MaxVoices : \A i \in 0..u - 1 : i \in Slots
       /\ Slots \subseteq Nat /\ p.upper \in Nat
  BY <1>1, SlotFacts
<1>11. Quiet(q)
  <2>1. ASSUME NEW i \in p.upper..voices - 1
        PROVE  i \in Slots /\ i # v
    <3>1. i \in 0..voices - 1
      BY <1>10
    <3>2. i \in Slots
      BY <1>10, <3>1
    <3>3. i # v
      BY <1>1, <1>10, <3>1 DEF Reach
    <3> QED
      BY <3>2, <3>3
  <2> QED
    BY <1>9, <2>1 DEF Quiet
<1>12. Sorted(q, c, n, vid, W \ {v})
  <2> SUFFICES ASSUME NEW i \in 0..p.upper - 1
               PROVE  \/ i \in W \ {v} \/ Silenced(q.voice[i])
                      \/ Spared(q.voice[i], i, c, n) \/ Struck(q.voice[i], c, n, vid)
    BY <1>9 DEF Sorted
  <2>1. i \in Slots
    BY <1>1, <1>10
  <2>2. CASE i = v
    BY <1>9, <2>2 DEF Silenced
  <2>3. CASE i # v
    <3>1. q.voice[i] = p.voice[i]
      BY <1>9, <2>1, <2>3
    <3> QED
      BY <2>3, <3>1 DEF Sorted
  <2> QED
    BY <2>2, <2>3
<1>13. FullBelow(p, v) => FullBelow(q, v)
  <2>1. \A i \in 0..voices - 1 : i \in Slots /\ (i < v => i # v)
    BY <1>1, <1>10
  <2> QED
    BY <1>9, <2>1 DEF FullBelow
<1> QED
  BY <1>9, <1>11, <1>12, <1>13 DEF q

LEMMA DoubledFacts ==
  ASSUME VoicesAssumption, ByteAssumption,
         NEW p \in Pools, NEW v \in Slots, NEW w \in Slots
  PROVE  LET q == Doubled(p, v, w)
         IN  /\ q \in Pools /\ q.upper = p.upper /\ q.voice[w] = p.voice[v]
             /\ \A i \in Slots : i # w => q.voice[i] = p.voice[i]
             /\ /\ Linked(p) /\ p.link[v] = v /\ p.link[w] = w
                /\ p.voice[v].status # "free" \/ v = w
                => Linked(q)
<1> DEFINE q == Doubled(p, v, w)
<1>1. /\ p = [voice |-> p.voice, link |-> p.link, upper |-> p.upper]
      /\ p.voice \in [Slots -> Voice] /\ p.link \in [Slots -> Slots]
      /\ p.upper \in 0..MaxVoices
  BY PoolFacts
<1>2. q = [p EXCEPT !.voice = [p.voice EXCEPT ![w] = p.voice[v]],
                    !.link = [p.link EXCEPT ![v] = LinkTo(w), ![w] = LinkTo(v)]]
  BY DEF Doubled
<1> HIDE DEF q
<1>3. /\ LinkTo(v) \in Slots /\ (MaxVoices <= ByteMod => LinkTo(v) = v)
      /\ LinkTo(w) \in Slots /\ (MaxVoices <= ByteMod => LinkTo(w) = w)
  BY LinkToFacts
<1>4. /\ q = [voice |-> q.voice, link |-> q.link, upper |-> q.upper]
      /\ q.voice = [p.voice EXCEPT ![w] = p.voice[v]]
      /\ q.link = [p.link EXCEPT ![v] = LinkTo(w), ![w] = LinkTo(v)]
      /\ q.upper = p.upper
  BY <1>1, <1>2
<1>5. q.voice \in [Slots -> Voice] /\ q.link \in [Slots -> Slots]
  BY <1>1, <1>3, <1>4
<1>6. q \in Pools
  BY <1>1, <1>4, <1>5 DEF Pools
<1>7. q.voice[w] = p.voice[v] /\ \A i \in Slots : i # w => q.voice[i] = p.voice[i]
  BY <1>1, <1>4
<1>8. ASSUME Linked(p), p.link[v] = v, p.link[w] = w,
             p.voice[v].status # "free" \/ v = w
      PROVE  Linked(q)
  <2>1. LinkTo(v) = v /\ LinkTo(w) = w
    BY <1>3, <1>8 DEF Linked
  <2>2. \A i \in Slots : q.link[i] = IF i = w THEN v ELSE IF i = v THEN w ELSE p.link[i]
    BY <1>1, <1>4, <2>1
  <2>3. \A i \in Slots : i # v /\ i # w => p.link[i] # v /\ p.link[i] # w /\ p.link[i] \in Slots
    BY <1>1, <1>8 DEF Linked, Paired
  <2>4. Paired(q.link)
    <3>1. ASSUME NEW i \in Slots
          PROVE  q.link[q.link[i]] = i
      <4>1. CASE i = w
        BY <2>2, <4>1
      <4>2. CASE i = v
        BY <2>2, <4>2
      <4>3. CASE i # v /\ i # w
        <5>1. q.link[i] = p.link[i]
          BY <2>2, <4>3
        <5>2. q.link[p.link[i]] = p.link[p.link[i]]
          BY <2>2, <2>3, <4>3
        <5> QED
          BY <1>8, <5>1, <5>2 DEF Linked, Paired
      <4> QED
        BY <4>1, <4>2, <4>3
    <3> QED
      BY <3>1 DEF Paired
  <2>5. FreeAlone(q)
    <3> SUFFICES ASSUME NEW i \in Slots, q.voice[i].status = "free"
                 PROVE  q.link[i] = i
      BY DEF FreeAlone
    <3>1. CASE v = w
      BY <1>7, <1>8, <2>2, <3>1 DEF Linked, FreeAlone
    <3>2. CASE p.voice[v].status # "free"
      <4>1. i # w
        BY <1>7, <3>2
      <4>2. i # v
        BY <1>7, <3>2, <4>1
      <4> QED
        BY <1>7, <1>8, <2>2, <4>1, <4>2 DEF Linked, FreeAlone
    <3> QED
      BY <1>8, <3>1, <3>2
  <2> QED
    BY <1>8, <2>4, <2>5 DEF Linked
<1> QED
  BY <1>4, <1>6, <1>7, <1>8 DEF q

(* The second voice of the surround chorus is a free one or takes the      *)
(* place of one that decays.                                               *)
LEMMA ChorusFacts ==
  ASSUME VoicesAssumption, ByteAssumption, voices \in 0..MaxVoices,
         NEW p \in Pools, NEW v, Quiet(p), Reach(p, v),
         NEW c, NEW n, NEW vid, NEW W, Sorted(p, c, n, vid, W),
         p.voice[v].status = "free" \/ Struck(p.voice[v], c, n, vid),
         NEW q \in Chorus(p, v)
  PROVE  /\ q \in Pools /\ Quiet(q) /\ p.upper <= q.upper
         /\ Sorted(q, c, n, vid, W)
         /\ Linked(p) /\ p.link[v] = v /\ FullBelow(p, v) => Linked(q)
<1> DEFINE free == {i \in 0..voices - 1 : p.voice[i].status = "free"}
           decaying == {i \in 0..voices - 1 : /\ p.voice[i].status \in {"sustained", "off"}
                                              /\ ~Protected(p.voice[i])}
<1>1. /\ p.voice \in [Slots -> Voice] /\ p.upper \in 0..MaxVoices /\ p.upper \in Nat
      /\ p = [voice |-> p.voice, link |-> p.link, upper |-> p.upper]
  BY PoolFacts
<1>2. /\ \A u \in 0..MaxVoices : \A i \in 0..u - 1 : i \in Slots
      /\ Slots \subseteq Nat /\ MaxVoices \in Nat
  BY SlotFacts
<1>3. \A i \in 0..voices - 1 : i \in Slots
  BY <1>2
<1>4. v \in Slots /\ v \in Nat
  BY <1>2 DEF Reach
<1>5. p.upper <= voices /\ \A i \in p.upper..voices - 1 : p.voice[i].status = "free"
  BY DEF Quiet
(* a pool that goes up to u, below the polyphony *)
<1>6. ASSUME NEW u \in p.upper..voices
      PROVE  LET g == [p EXCEPT !.upper = u]
             IN  /\ g \in Pools /\ g.voice = p.voice /\ g.link = p.link /\ g.upper = u
                 /\ Linked(p) => Linked(g)
                 /\ \A i \in 0..u - 1 : i \in Slots
                 /\ \A i \in 0..u - 1 :
                      \/ i \in W \/ Silenced(p.voice[i])
                      \/ Spared(p.voice[i], i, c, n) \/ Struck(p.voice[i], c, n, vid)
  <2> DEFINE g == [p EXCEPT !.upper = u]
  <2>1. u \in 0..MaxVoices
    BY <1>1, <1>2
  <2>2. g \in Pools /\ g.voice = p.voice /\ g.link = p.link /\ g.upper = u
    BY <1>1, <2>1 DEF Pools
  <2> HIDE DEF g
  <2>3. Linked(p) => Linked(g)
    BY <2>2 DEF Linked, FreeAlone
  <2>4. ASSUME NEW i \in 0..u - 1
        PROVE  \/ i \in W \/ Silenced(p.voice[i])
               \/ Spared(p.voice[i], i, c, n) \/ Struck(p.voice[i], c, n, vid)
    <3>1. i \in 0..p.upper - 1 \/ i \in p.upper..voices - 1
      BY <1>1, <1>2
    <3> QED
      BY <1>5, <3>1 DEF Sorted, Silenced
  <2> QED
    BY <1>2, <2>1, <2>2, <2>3, <2>4 DEF g
<1>7. CASE q = p
  BY <1>1, <1>7, <1>5
<1>8. CASE q = [p EXCEPT !.upper = voices]
  <2>1. voices \in p.upper..voices
    BY <1>1, <1>5
  <2>2. /\ q \in Pools /\ q.voice = p.voice /\ q.upper = voices
        /\ Linked(p) => Linked(q)
        /\ \A i \in 0..voices - 1 :
             \/ i \in W \/ Silenced(p.voice[i])
             \/ Spared(p.voice[i], i, c, n) \/ Struck(p.voice[i], c, n, vid)
    BY <1>6, <1>8, <2>1
  <2>3. Sorted(q, c, n, vid, W)
    BY <2>2 DEF Sorted
  <2>4. Quiet(q)
    BY <1>1, <1>5, <2>2 DEF Quiet
  <2> QED
    BY <1>5, <2>2, <2>3, <2>4
(* what the doubled voice needs *)
<1>9. ASSUME NEW u \in p.upper..voices, NEW w \in 0..u - 1, NEW g \in Pools,
             q = Doubled(g, v, w), g.upper = u, w # v => g.voice[v] = p.voice[v],
             w = v => g.voice[v].status = "free",
             \A i \in Slots : i # w => g.voice[i] = p.voice[i],
             Linked(p) /\ p.link[v] = v /\ FullBelow(p, v) =>
               /\ Linked(g) /\ g.link[v] = v /\ g.link[w] = w
               /\ g.voice[v].status # "free" \/ v = w
      PROVE  /\ q \in Pools /\ Quiet(q) /\ p.upper <= q.upper
             /\ Sorted(q, c, n, vid, W)
             /\ Linked(p) /\ p.link[v] = v /\ FullBelow(p, v) => Linked(q)
  <2>1. /\ w \in Slots /\ w < u /\ w \in Nat /\ u \in Nat
        /\ \A i \in 0..u - 1 : i \in Slots
        /\ \A i \in 0..u - 1 :
             \/ i \in W \/ Silenced(p.voice[i])
             \/ Spared(p.voice[i], i, c, n) \/ Struck(p.voice[i], c, n, vid)
    <3>1. /\ \A i \in 0..u - 1 : i \in Slots
          /\ \A i \in 0..u - 1 :
               \/ i \in W \/ Silenced(p.voice[i])
               \/ Spared(p.voice[i], i, c, n) \/ Struck(p.voice[i], c, n, vid)
      BY <1>6
    <3>2. w < u /\ w \in Nat /\ u \in Nat
      BY <1>1, <1>2
    <3>3. w \in Slots
      BY <3>1
    <3> QED
      BY <3>1, <3>2, <3>3
  <2>2. /\ q \in Pools /\ q.upper = u /\ q.voice[w] = g.voice[v]
        /\ \A i \in Slots : i # w => q.voice[i] = g.voice[i]
        /\ /\ Linked(g) /\ g.link[v] = v /\ g.link[w] = w
           /\ g.voice[v].status # "free" \/ v = w
           => Linked(q)
    <3>1. v \in Slots /\ w \in Slots
      BY <1>4, <2>1
    <3> DEFINE d == Doubled(g, v, w)
    <3>2. /\ d \in Pools /\ d.upper = g.upper /\ d.voice[w] = g.voice[v]
          /\ \A i \in Slots : i # w => d.voice[i] = g.voice[i]
          /\ /\ Linked(g) /\ g.link[v] = v /\ g.link[w] = w
             /\ g.voice[v].status # "free" \/ v = w
             => Linked(d)
      BY <3>1, DoubledFacts
    <3>3. q = d /\ g.upper = u
      BY <1>9
    <3> HIDE DEF d
    <3> QED
      BY <3>2, <3>3
  <2>3. q.voice[w].status = "free" \/ Struck(q.voice[w], c, n, vid)
    BY <1>9, <2>2
  <2>4. \A i \in Slots : i # w => q.voice[i] = p.voice[i]
    BY <1>9, <2>2
  <2>5. Sorted(q, c, n, vid, W)
    <3>1. \A i \in 0..u - 1 : i = w \/ (i # w /\ q.voice[i] = p.voice[i])
      BY <2>1, <2>4
    <3> QED
      BY <2>1, <2>2, <2>3, <3>1 DEF Sorted, Silenced
  <2>6. Quiet(q)
    <3> SUFFICES ASSUME NEW i \in u..voices - 1
                 PROVE  q.voice[i].status = "free"
      BY <1>1, <2>2 DEF Quiet
    <3>1. i \in p.upper..voices - 1 /\ i \in 0..voices - 1 /\ i # w
      BY <1>1, <2>1
    <3> QED
      BY <1>3, <1>5, <2>4, <3>1
  <2> QED
    BY <1>1, <1>9, <2>2, <2>5, <2>6
<1>10. CASE free # {} /\ \E f \in FindFreeVoice(p) : q = Doubled(f.pool, v, f.v)
  <2> DEFINE w == Least(free)
             u == IF p.upper <= w THEN w + 1 ELSE p.upper
             g == [p EXCEPT !.upper = u]
  <2>1. w \in free /\ \A j \in free : w <= j
    <3>1. free \in SUBSET Nat
      BY <1>2
    <3> HIDE DEF free
    <3> QED
      BY <1>10, <3>1, LeastFacts
  <2>2. FindFreeVoice(p) = {[pool |-> g, v |-> w]}
    BY <1>10 DEF FindFreeVoice
  <2>3. q = Doubled(g, v, w)
    BY <1>10, <2>2
  <2> HIDE DEF w
  <2>4. /\ w \in 0..voices - 1 /\ w \in Nat /\ p.voice[w].status = "free"
        /\ w \in Slots /\ voices \in Nat
    BY <1>2, <1>3, <2>1
  <2>5. u \in p.upper..voices /\ w \in 0..u - 1
    BY <1>1, <1>5, <2>4
  <2> HIDE DEF u
  <2>6. /\ g \in Pools /\ g.voice = p.voice /\ g.link = p.link /\ g.upper = u
        /\ Linked(p) => Linked(g)
    BY <1>6, <2>5
  <2> HIDE DEF g
  <2>7. ASSUME Linked(p), p.link[v] = v, FullBelow(p, v)
        PROVE  /\ Linked(g) /\ g.link[v] = v /\ g.link[w] = w
               /\ g.voice[v].status # "free" \/ v = w
    <3>1. g.link[w] = w
      BY <2>4, <2>6, <2>7 DEF Linked, FreeAlone
    <3>2. ~(w < v)
      BY <2>4, <2>7 DEF FullBelow
    <3>3. p.voice[v].status = "free" => v = w
      <4>1. v \in 0..voices - 1 \/ voices = 0
        BY <1>1, <1>4, <1>5, <2>4 DEF Reach
      <4>2. v \in 0..voices - 1
        BY <2>4, <4>1
      <4>3. p.voice[v].status = "free" => w <= v
        BY <2>1, <4>2
      <4> QED
        BY <1>4, <2>4, <3>2, <4>3
    <3> QED
      BY <2>6, <2>7, <3>1, <3>3
  <2> QED
    BY <1>9, <2>3, <2>4, <2>5, <2>6, <2>7
<1>11. CASE free = {} /\ \E f \in FindFreeVoice(p) : q = Doubled(f.pool, v, f.v)
  <2> DEFINE h == [p EXCEPT !.upper = voices]
  <2>1. PICK w \in decaying : q = Doubled(FreeVoice(h, w), v, w)
    <3>1. FindFreeVoice(p) = {[pool |-> FreeVoice(h, w), v |-> w] : w \in decaying}
      BY <1>11 DEF FindFreeVoice
    <3> QED
      BY <1>11, <3>1
  <2>2. /\ w \in 0..voices - 1 /\ w \in Slots
        /\ p.voice[w].status \in {"sustained", "off"}
    BY <1>3, <2>1
  <2>3. voices \in p.upper..voices
    BY <1>1, <1>5
  <2>4. /\ h \in Pools /\ h.voice = p.voice /\ h.upper = voices
        /\ h.link = p.link /\ (Linked(p) => Linked(h))
    BY <1>6, <2>3
  <2> DEFINE g == FreeVoice(h, w)
  <2> HIDE DEF h
  <2>5. /\ g \in Pools /\ g.upper = h.upper
        /\ \A i \in Slots : i # w => g.voice[i] = h.voice[i]
        /\ g.voice[w].status = "free"
        /\ Linked(h) => Linked(g) /\ g.link[w] = w
    BY <2>2, <2>4, FreeVoiceFacts
  <2>6. q = Doubled(g, v, w)
    BY <2>1 DEF h
  <2>7. g.link = Unlink(p.link, w)
    <3>1. g = [h EXCEPT !.voice = [h.voice EXCEPT ![w].status = "free"],
                        !.link = Unlink(h.link, w)]
      BY DEF FreeVoice
    <3>2. h = [voice |-> h.voice, link |-> h.link, upper |-> h.upper]
      BY <2>4, PoolFacts
    <3> QED
      BY <2>4, <3>1, <3>2
  <2> HIDE DEF g
  <2>8. p.voice[v].status = "free" \/ p.voice[v].status = "on"
    BY DEF Struck
  <2>9. v # w
    BY <2>2, <2>8
  <2>10. ASSUME Linked(p), p.link[v] = v, FullBelow(p, v)
        PROVE  /\ Linked(g) /\ g.link[v] = v /\ g.link[w] = w
               /\ g.voice[v].status # "free" \/ v = w
    <3>1. Linked(g) /\ g.link[w] = w
      BY <2>4, <2>5, <2>10
    <3>2. g.link[v] = v
      <4>1. p.link \in [Slots -> Slots]
        BY PoolFacts
      <4> QED
        BY <1>4, <2>2, <2>7, <2>10, <4>1, UnlinkFacts DEF Linked
    <3>3. p.voice[v].status # "free"
      <4>1. voices # 0 /\ voices \in Nat
        BY <1>2, <2>2
      <4>2. v \in 0..voices - 1
        BY <1>1, <1>4, <1>5, <4>1 DEF Reach
      <4> QED
        BY <1>11, <4>2
    <3> QED
      BY <1>4, <2>4, <2>5, <2>9, <3>1, <3>2, <3>3
  <2>11. g.voice[v] = p.voice[v] /\ \A i \in Slots : i # w => g.voice[i] = p.voice[i]
    BY <1>4, <2>4, <2>5, <2>9
  <2> QED
    BY <1>9, <2>2, <2>3, <2>4, <2>5, <2>6, <2>9, <2>10, <2>11
<1>12. \/ q = p \/ q = [p EXCEPT !.upper = voices]
       \/ \E f \in FindFreeVoice(p) : q = Doubled(f.pool, v, f.v)
  BY DEF Chorus
<1> QED
  BY <1>7, <1>8, <1>10, <1>11, <1>12

-----------------------------------------------------------------------------
(* Steps that only take voices away or hand them on *)

Plays(y) == y.status \in {"on", "sustained", "off"}
Heir(x, y) ==
  /\ y.ch = x.ch /\ y.note = x.note /\ y.vid = x.vid /\ y.proximate = x.proximate
  /\ y.status = "on" => x.status = "on"
  /\ Plays(y) => Plays(x)
Inherits ==
  \A i \in 0..upper_voices' - 1 :
    Silenced(voice'[i]) \/ \E j \in 0..upper_voices - 1 : Heir(voice[j], voice'[i])

HeldNow(c) == PedalHeld(channel[c]) \/ c \in cleared
HeldNext(c) == PedalHeld(channel'[c]) \/ c \in cleared'
MonoKept ==
  \A i \in 0..upper_voices' - 1 :
    voice'[i].status = "on" /\ channel'[voice'[i].ch].mono => channel[voice'[i].ch].mono
VidsKept ==
  \A i \in 0..upper_voices' - 1 :
    voice'[i].status = "on" =>
      /\ vidq_head'[<<voice'[i].ch, voice'[i].note>>] = vidq_head[<<voice'[i].ch, voice'[i].note>>]
      /\ vidq_tail'[<<voice'[i].ch, voice'[i].note>>] = vidq_tail[<<voice'[i].ch, voice'[i].note>>]
PedalsKept ==
  \A i \in 0..upper_voices' - 1 :
    voice'[i].status = "sustained" =>
      \/ HeldNext(voice'[i].ch)
      \/ /\ HeldNow(voice'[i].ch) => HeldNext(voice'[i].ch)
         /\ \E j \in 0..upper_voices - 1 :
              voice[j].status = "sustained" /\ voice[j].ch = voice'[i].ch

LEMMA NotesInherited ==
  ASSUME NotesExclusive, Inherits, MonoKept, UNCHANGED setup
  PROVE  NotesExclusive'
<1>1. ASSUME NEW i \in 0..upper_voices' - 1, Plays(voice'[i])
      PROVE  \E j \in 0..upper_voices - 1 : Heir(voice[j], voice'[i])
  BY <1>1 DEF Inherits, Silenced, Plays
<1>2. OneInstance'
  <2> SUFFICES ASSUME ~Overlap', NEW i \in 0..upper_voices' - 1, Plays(voice'[i])
               PROVE  voice'[i].proximate
    BY DEF OneInstance, Sounds, Plays
  <2>1. PICK j \in 0..upper_voices - 1 : Heir(voice[j], voice'[i])
    BY <1>1
  <2>2. ~Overlap
    BY DEF Overlap
  <2> QED
    BY <2>1, <2>2 DEF NotesExclusive, OneInstance, Sounds, Heir, Plays
<1>3. MonoOneNote'
  <2> SUFFICES ASSUME NEW i \in 0..upper_voices' - 1, NEW j \in 0..upper_voices' - 1,
                      voice'[i].status = "on", voice'[j].status = "on",
                      voice'[i].ch = voice'[j].ch, channel'[voice'[i].ch].mono
               PROVE  voice'[i].note = voice'[j].note
    BY DEF MonoOneNote
  <2>1. PICK a \in 0..upper_voices - 1 : Heir(voice[a], voice'[i])
    BY <1>1 DEF Plays
  <2>2. PICK b \in 0..upper_voices - 1 : Heir(voice[b], voice'[j])
    BY <1>1 DEF Plays
  <2>3. channel[voice'[i].ch].mono
    BY DEF MonoKept
  <2> QED
    BY <2>1, <2>2, <2>3 DEF NotesExclusive, MonoOneNote, Heir
<1>4. GroupExclusive'
  <2> SUFFICES ASSUME NEW i \in 0..upper_voices' - 1, NEW j \in 0..upper_voices' - 1,
                      NEW g \in AltGroups,
                      Plays(voice'[i]), Plays(voice'[j]), voice'[i].ch = voice'[j].ch,
                      {voice'[i].note, voice'[j].note} \subseteq g
               PROVE  voice'[i].note = voice'[j].note
    BY DEF GroupExclusive, Sounds, Plays
  <2>1. PICK a \in 0..upper_voices - 1 : Heir(voice[a], voice'[i])
    BY <1>1
  <2>2. PICK b \in 0..upper_voices - 1 : Heir(voice[b], voice'[j])
    BY <1>1
  <2> QED
    BY <2>1, <2>2 DEF NotesExclusive, GroupExclusive, Sounds, Heir, Plays
<1> QED
  BY <1>2, <1>3, <1>4 DEF NotesExclusive

LEMMA VidsInherited ==
  ASSUME OnVoicePending, Inherits, VidsKept, UNCHANGED setup
  PROVE  OnVoicePending'
<1> SUFFICES ASSUME Overlap, NEW i \in 0..upper_voices' - 1, voice'[i].status = "on"
             PROVE  LET k == <<voice'[i].ch, voice'[i].note>>
                    IN  (voice'[i].vid - vidq_tail'[k]) % ByteMod
                          < (vidq_head'[k] - vidq_tail'[k]) % ByteMod
  BY DEF OnVoicePending, Overlap, Pending
<1>1. PICK j \in 0..upper_voices - 1 : Heir(voice[j], voice'[i])
  BY DEF Inherits, Silenced
<1> DEFINE k == <<voice'[i].ch, voice'[i].note>>
<1>2. vidq_head'[k] = vidq_head[k] /\ vidq_tail'[k] = vidq_tail[k]
  BY DEF VidsKept
<1>3. k = <<voice[j].ch, voice[j].note>> /\ voice[j].status = "on" /\ voice'[i].vid = voice[j].vid
  BY <1>1 DEF Heir
<1>4. (voice[j].vid - vidq_tail[k]) % ByteMod < (vidq_head[k] - vidq_tail[k]) % ByteMod
  BY <1>3 DEF OnVoicePending, Pending
<1> QED
  BY <1>2, <1>3, <1>4

LEMMA PedalsInherited ==
  ASSUME SustainedHasPedal, PedalsKept
  PROVE  SustainedHasPedal'
BY DEF SustainedHasPedal, PedalsKept, HeldNow, HeldNext

LEMMA PreserveButVids ==
  ASSUME Bounded', UNCHANGED setup, Inherits, MonoKept, PedalsKept,
         NarrowPool /\ Single /\ Joined => Joined',
         FewPending /\ OnVoicePending => OnVoicePending'
  PROVE  Keeps
<1>1. Single' => Single
  BY DEF Single
<1>2. NarrowPool /\ Links => Links'
  BY <1>1 DEF Links
<1> QED
  BY <1>2, NotesInherited, PedalsInherited DEF Keeps

LEMMA Preserve ==
  ASSUME Bounded', UNCHANGED setup, Inherits, MonoKept, VidsKept, PedalsKept,
         NarrowPool /\ Single /\ Joined => Joined'
  PROVE  Keeps
BY PreserveButVids, VidsInherited

(* Nothing but the voices, links and loops *)
LEMMA PreservePlain ==
  ASSUME Bounded', UNCHANGED <<setup, channel, cleared>>, Inherits,
         UNCHANGED <<vidq_head, vidq_tail>>,
         \A i \in 0..upper_voices' - 1 : voice'[i].status = "sustained" =>
            \E j \in 0..upper_voices - 1 :
              voice[j].status = "sustained" /\ voice[j].ch = voice'[i].ch,
         NarrowPool /\ Single /\ Joined => Joined'
  PROVE  Keeps
<1>1. MonoKept /\ VidsKept
  BY DEF MonoKept, VidsKept
<1>2. \A c : HeldNow(c) => HeldNext(c)
  BY DEF HeldNow, HeldNext
<1>3. PedalsKept
  BY <1>2 DEF PedalsKept
<1> QED
  BY <1>1, <1>3, Preserve

(* Nothing plays any more *)
LEMMA PreserveNothing ==
  ASSUME Bounded', UNCHANGED setup,
         \A i \in 0..upper_voices' - 1 : Silenced(voice'[i]),
         NarrowPool /\ Single /\ Joined => Joined'
  PROVE  Keeps
<1>1. Inherits /\ MonoKept /\ VidsKept /\ PedalsKept
  BY DEF Inherits, MonoKept, VidsKept, PedalsKept, Silenced
<1> QED
  BY <1>1, Preserve

-----------------------------------------------------------------------------
(* New statuses *)

Turns(x, y) ==
  /\ y.ch = x.ch /\ y.note = x.note /\ y.vid = x.vid /\ y.proximate = x.proximate
  /\ y.status = "on" => x.status = "on"
  /\ Plays(y) => Plays(x)
  /\ x.status = "free" => y.status = "free"
Turned == voice' \in [Slots -> Voice] /\ \A i \in Slots : Turns(voice[i], voice'[i])

LEMMA BoundedFacts ==
  ASSUME VoicesAssumption, Bounded
  PROVE  /\ MaxVoices \in Nat /\ Slots \subseteq Nat /\ 0 \in Slots
         /\ voices \in 0..MaxVoices /\ voices \in Nat
         /\ upper_voices \in 0..MaxVoices /\ upper_voices \in Nat
         /\ \A i \in 0..upper_voices - 1 : i \in Slots
         /\ \A i \in 0..voices - 1 : i \in Slots
         /\ \A i \in upper_voices..voices - 1 : i \in Slots /\ voice[i].status = "free"
         /\ \A i \in Slots : i \in 0..voices - 1 <=> i < voices
         /\ \A i \in Slots : i \in 0..upper_voices - 1 <=> i < upper_voices
<1>1. /\ voices \in 0..MaxVoices /\ upper_voices \in 0..MaxVoices /\ MaxVoices \in Nat
      /\ \A i \in upper_voices..voices - 1 : voice[i].status = "free"
  BY DEF Bounded, Typed, Silent, VoicesAssumption
<1> QED
  BY <1>1 DEF Slots, VoicesAssumption

(* The voices of R run out, those of S get a new status *)
Turning(R, S, status) ==
  [i \in Slots |->
     IF i \in R THEN [voice[i] EXCEPT !.status = "free"]
     ELSE IF i \in S THEN [voice[i] EXCEPT !.status = status] ELSE voice[i]]
LEMMA TurnFacts ==
  ASSUME VoicesAssumption, Bounded, NEW R, NEW S, NEW status \in {"sustained", "off", "die"},
         \A i \in S \ R : i \in Slots => Plays(voice[i]),
         voice' = Turning(R, S, status)
  PROVE  /\ Turned
         /\ \A i \in Slots :
              /\ i \in R => voice'[i].status = "free"
              /\ i \in S \ R => voice'[i].status = status
              /\ i \notin R /\ i \notin S => voice'[i] = voice[i]
<1>5. voice' = [i \in Slots |-> voice'[i]]
  BY DEF Turning
<1> SUFFICES ASSUME NEW i \in Slots
             PROVE  /\ voice'[i] \in Voice /\ Turns(voice[i], voice'[i])
                    /\ i \in R => voice'[i].status = "free"
                    /\ i \in S \ R => voice'[i].status = status
                    /\ i \notin R /\ i \notin S => voice'[i] = voice[i]
  BY <1>5 DEF Turned
<1>1. voice[i] \in Voice
  BY DEF Bounded, Typed
<1>2. CASE i \in R
  <2>1. voice'[i] = [voice[i] EXCEPT !.status = "free"]
    BY <1>2 DEF Turning
  <2> QED
    BY <1>1, <1>2, <2>1 DEF Voice, Statuses, Turns, Plays
<1>3. CASE i \in S \ R
  <2>1. voice'[i] = [voice[i] EXCEPT !.status = status]
    BY <1>3 DEF Turning
  <2>2. Plays(voice[i])
    BY <1>3
  <2> QED
    BY <1>1, <1>3, <2>1, <2>2 DEF Voice, Statuses, Turns, Plays
<1>4. CASE i \notin R /\ i \notin S
  <2>1. voice'[i] = voice[i]
    BY <1>4 DEF Turning
  <2> QED
    BY <1>1, <1>4, <2>1 DEF Turns
<1> QED
  BY <1>2, <1>3, <1>4

LEMMA TurnInherits ==
  ASSUME VoicesAssumption, Bounded, Turned, upper_voices' \in 0..upper_voices
  PROVE  Inherits
<1> SUFFICES ASSUME NEW i \in 0..upper_voices' - 1
             PROVE  \E j \in 0..upper_voices - 1 : Heir(voice[j], voice'[i])
  BY DEF Inherits
<1>1. i \in 0..upper_voices - 1 /\ i \in Slots
  <2>1. upper_voices \in Nat /\ \A j \in 0..upper_voices - 1 : j \in Slots
    BY BoundedFacts
  <2>2. \A a \in Nat : \A b \in 0..a : \A j \in 0..b - 1 : j \in 0..a - 1
    OBVIOUS
  <2>3. i \in 0..upper_voices - 1
    BY <2>1, <2>2
  <2> QED
    BY <2>1, <2>3
<1> QED
  BY <1>1 DEF Turned, Turns, Heir

LEMMA TurnSilent ==
  ASSUME VoicesAssumption, Bounded, Turned, UNCHANGED <<upper_voices, voices>>
  PROVE  Silent'
<1>1. \A i \in upper_voices..voices - 1 : i \in Slots /\ voice[i].status = "free"
  BY BoundedFacts
<1> QED
  BY <1>1 DEF Silent, Turned, Turns

(* free_voice() for those that run out *)
LEMMA UnlinkStep ==
  ASSUME VoicesAssumption, ByteAssumption, Bounded, NEW Q \in SUBSET Slots,
         chorus_link' = UnlinkAll(chorus_link, Q), work'.op = "none" \/ UNCHANGED work,
         \A i \in Slots : voice'[i].status = "free" => i \in Q \/ voice[i].status = "free"
  PROVE  /\ chorus_link' \in [Slots -> Slots]
         /\ NarrowPool /\ Joined => Joined'
<1>1. chorus_link \in [Slots -> Slots]
  BY DEF Bounded, Typed
<1> DEFINE l == UnlinkAll(chorus_link, Q)
<1>2. /\ l \in [Slots -> Slots]
      /\ MaxVoices <= ByteMod /\ Paired(chorus_link) =>
           /\ Paired(l)
           /\ \A i \in Q : l[i] = i
           /\ \A i \in Slots : chorus_link[i] = i => l[i] = i
  BY <1>1, UnlinkAllFacts
<1> HIDE DEF l
<1>3. chorus_link' = l
  BY DEF l
<1>4. ASSUME NarrowPool, Joined
      PROVE  Joined'
  <2>1. Paired(l) /\ (\A i \in Q : l[i] = i) /\ \A i \in Slots : chorus_link[i] = i => l[i] = i
    BY <1>2, <1>4 DEF Joined, NarrowPool
  <2>2. Paired(chorus_link')
    BY <1>3, <2>1
  <2>3. \A i \in Slots : voice'[i].status = "free" => chorus_link'[i] = i
    BY <1>3, <1>4, <2>1 DEF Joined
  <2>4. work'.op = "none"
    BY <1>4 DEF Joined
  <2> QED
    BY <2>2, <2>3, <2>4 DEF Joined, Paired
<1> QED
  BY <1>2, <1>3, <1>4

-----------------------------------------------------------------------------
(* MIDI events *)

LEMMA OfFacts ==
  ASSUME VoicesAssumption, Bounded, NEW c, NEW T
  PROVE  /\ Of(c, T) \subseteq Slots
         /\ \A i \in Of(c, T) :
              i < upper_voices /\ voice[i].ch = c /\ voice[i].status \in T
BY BoundedFacts DEF Of

(* A pedal event or note end: the voices of S change or run out. *)
LEMMA ChangeFacts ==
  ASSUME VoicesAssumption, ByteAssumption, Bounded, UNCHANGED <<voices, upper_voices, work>>,
         NEW S \in SUBSET Slots, \A i \in S : Plays(voice[i]),
         NEW status \in {"sustained", "off"}, Change(S, status)
  PROVE  /\ Turned /\ Inherits /\ Silent' /\ chorus_link' \in [Slots -> Slots]
         /\ NarrowPool /\ Joined => Joined'
         /\ \A i \in Slots :
              /\ i \in S => voice'[i].status \in {"free", status}
              /\ i \notin S => voice'[i] = voice[i]
<1>1. PICK R \in SUBSET S :
        voice' = Turning(R, S, status) /\ chorus_link' = UnlinkAll(chorus_link, R)
  BY DEF Change, Turning
<1>2. /\ Turned
      /\ \A i \in Slots :
           /\ i \in R => voice'[i].status = "free"
           /\ i \in S \ R => voice'[i].status = status
           /\ i \notin R /\ i \notin S => voice'[i] = voice[i]
  <2>1. \A i \in S \ R : i \in Slots => Plays(voice[i])
    OBVIOUS
  <2>2. status \in {"sustained", "off", "die"}
    OBVIOUS
  <2> QED
    BY <1>1, <2>1, <2>2, TurnFacts
<1>3. \A i \in Slots : voice'[i].status = "free" => i \in R \/ voice[i].status = "free"
  BY <1>2
<1>4. R \in SUBSET Slots
  OBVIOUS
<1>5. chorus_link' \in [Slots -> Slots] /\ (NarrowPool /\ Joined => Joined')
  BY <1>1, <1>3, <1>4, UnlinkStep
<1>6. Inherits /\ Silent'
  <2>1. upper_voices' \in 0..upper_voices
    BY DEF Bounded, Typed
  <2> QED
    BY <1>2, <2>1, TurnInherits, TurnSilent
<1> QED
  BY <1>1, <1>2, <1>5, <1>6

LEMMA KillFacts ==
  ASSUME VoicesAssumption, Bounded, UNCHANGED <<voices, upper_voices, work>>,
         NEW S \in SUBSET Slots, \A i \in S : Plays(voice[i]), Kill(S)
  PROVE  /\ Turned /\ Inherits /\ Silent' /\ chorus_link' \in [Slots -> Slots]
         /\ Joined => Joined'
         /\ \A i \in Slots :
              /\ i \in S => voice'[i].status = "die"
              /\ i \notin S => voice'[i] = voice[i]
<1>1. voice' = Turning({}, S, "die") /\ chorus_link' = chorus_link
  BY DEF Kill, Turning
<1>2. /\ Turned
      /\ \A i \in Slots :
           /\ i \in S \ {} => voice'[i].status = "die"
           /\ i \notin {} /\ i \notin S => voice'[i] = voice[i]
  <2>1. \A i \in S \ {} : i \in Slots => Plays(voice[i])
    OBVIOUS
  <2> QED
    BY <1>1, <2>1, TurnFacts
<1>3. chorus_link' \in [Slots -> Slots]
  BY <1>1 DEF Bounded, Typed
<1>4. Joined => Joined'
  <2>1. \A i \in Slots : voice'[i].status = "free" => voice[i].status = "free"
    BY <1>2
  <2> QED
    BY <1>1, <2>1 DEF Joined, Paired
<1>5. Inherits /\ Silent'
  <2>1. upper_voices' \in 0..upper_voices
    BY DEF Bounded, Typed
  <2> QED
    BY <1>2, <2>1, TurnInherits, TurnSilent
<1> QED
  BY <1>2, <1>3, <1>4, <1>5

(* A voice that is released is sustained by a pedal or finishes. *)
LEMMA ReleaseFacts ==
  ASSUME VoicesAssumption, ByteAssumption, Bounded, UNCHANGED <<voices, upper_voices, work>>,
         NEW c \in Channels, NEW S \in SUBSET Of(c, {"on"}), Release(c, S)
  PROVE  /\ Turned /\ Inherits /\ Silent' /\ chorus_link' \in [Slots -> Slots]
         /\ NarrowPool /\ Joined => Joined'
         /\ \A i \in Slots :
              /\ i \in S => voice'[i].status # "on" /\ voice'[i].ch = c
              /\ i \in S /\ voice'[i].status = "sustained" => PedalHeld(channel[c])
              /\ i \notin S => voice'[i] = voice[i]
<1>1. S \in SUBSET Slots /\ \A i \in S : voice[i].ch = c /\ Plays(voice[i])
  BY OfFacts DEF Plays
<1>2. CASE channel[c].sustain # Up
  <2>1. voice' = Turning({}, S, "sustained") /\ chorus_link' = chorus_link
    BY <1>2 DEF Release, Turning
  <2>2. /\ Turned
        /\ \A i \in Slots :
             /\ i \in S \ {} => voice'[i].status = "sustained"
             /\ i \notin {} /\ i \notin S => voice'[i] = voice[i]
    <3>1. \A i \in S \ {} : i \in Slots => Plays(voice[i])
      BY <1>1
    <3> QED
      BY <2>1, <3>1, TurnFacts
  <2>3. chorus_link' \in [Slots -> Slots]
    BY <2>1 DEF Bounded, Typed
  <2>4. Joined => Joined'
    <3>1. \A i \in Slots : voice'[i].status = "free" => voice[i].status = "free"
      BY <2>2
    <3> QED
      BY <2>1, <3>1 DEF Joined, Paired
  <2>5. Inherits /\ Silent'
    <3>1. upper_voices' \in 0..upper_voices
      BY DEF Bounded, Typed
    <3> QED
      BY <2>2, <3>1, TurnInherits, TurnSilent
  <2>6. PedalHeld(channel[c])
    BY <1>2 DEF PedalHeld
  <2>7. \A i \in S : voice'[i].ch = c /\ voice'[i].status # "on"
    BY <1>1, <2>2 DEF Turned, Turns
  <2> QED
    BY <2>2, <2>3, <2>4, <2>5, <2>6, <2>7
<1>3. CASE channel[c].sustain = Up
  <2>1. Change(S, "off")
    BY <1>3 DEF Release
  <2>2. /\ Turned /\ Inherits /\ Silent' /\ chorus_link' \in [Slots -> Slots]
        /\ NarrowPool /\ Joined => Joined'
        /\ \A i \in Slots :
             /\ i \in S => voice'[i].status \in {"free", "off"}
             /\ i \notin S => voice'[i] = voice[i]
    BY <1>1, <2>1, ChangeFacts
  <2>3. \A i \in S : voice'[i].ch = c
    BY <1>1, <2>2 DEF Turned, Turns
  <2> QED
    BY <2>2, <2>3
<1> QED
  BY <1>2, <1>3

(* The pool keeps its size. *)
LEMMA SizeKept ==
  ASSUME Bounded, UNCHANGED <<setup, voices, old_voices, upper_voices, work>>,
         Silent', voice' \in [Slots -> Voice], chorus_link' \in [Slots -> Slots],
         vidq_head' \in [Keys -> 0..ByteMod - 1], vidq_tail' \in [Keys -> 0..ByteMod - 1],
         channel' \in [Channels -> Channel], pc' \in {"play", "fade", "ended"},
         cleared' \subseteq Channels
  PROVE  Bounded'
<1>1. Loops'
  BY DEF Bounded, Loops
<1>2. Typed'
  BY DEF Bounded, Typed
<1> QED
  BY <1>1, <1>2 DEF Bounded

LEMMA ForgetFacts ==
  ASSUME ByteAssumption, Bounded, NEW c, ForgetVids(c)
  PROVE  /\ vidq_head' \in [Keys -> 0..ByteMod - 1] /\ vidq_tail' \in [Keys -> 0..ByteMod - 1]
         /\ \A k \in Keys : k[1] # c => vidq_head'[k] = vidq_head[k] /\ vidq_tail'[k] = vidq_tail[k]
<1>1. 0 \in 0..ByteMod - 1
  BY DEF ByteAssumption
<1> QED
  BY <1>1 DEF ForgetVids, Bounded, Typed

LEMMA KeyFacts ==
  ASSUME NEW y \in Voice
  PROVE  <<y.ch, y.note>> \in Keys /\ <<y.ch, y.note>>[1] = y.ch
BY DEF Voice, Keys

(* All notes of a channel end; the controllers may change meanwhile, but   *)
(* not its pedals and no other channel.                                    *)
LEMMA AllNotesOffStep ==
  ASSUME VoicesAssumption, ByteAssumption, Bounded, NEW c \in Channels, AllNotesOff(c),
         UNCHANGED <<setup, upper_voices, sizeVars, cleared, pc, work>>,
         channel' \in [Channels -> Channel],
         \A d \in Channels : /\ PedalHeld(channel[d]) => PedalHeld(channel'[d])
                             /\ d # c => channel'[d] = channel[d]
  PROVE  Keeps
<1>1. UNCHANGED <<voices, old_voices>>
  BY DEF sizeVars
<1> DEFINE S == Of(c, {"on"})
<1>2. Release(c, S) /\ ForgetVids(c)
  BY DEF AllNotesOff
<1> HIDE DEF S
<1>3. /\ Turned /\ Inherits /\ Silent' /\ chorus_link' \in [Slots -> Slots]
      /\ NarrowPool /\ Joined => Joined'
      /\ \A i \in Slots :
           /\ i \in S => voice'[i].status # "on" /\ voice'[i].ch = c
           /\ i \in S /\ voice'[i].status = "sustained" => PedalHeld(channel[c])
           /\ i \notin S => voice'[i] = voice[i]
  BY <1>1, <1>2, ReleaseFacts DEF S
<1>4. /\ vidq_head' \in [Keys -> 0..ByteMod - 1] /\ vidq_tail' \in [Keys -> 0..ByteMod - 1]
      /\ \A k \in Keys : k[1] # c => vidq_head'[k] = vidq_head[k] /\ vidq_tail'[k] = vidq_tail[k]
  BY <1>2, ForgetFacts
<1>5. pc' \in {"play", "fade", "ended"} /\ cleared' \subseteq Channels
  BY DEF Bounded, Typed
<1>6. Bounded'
  BY <1>1, <1>3, <1>4, <1>5, SizeKept DEF Turned
<1>7. ASSUME NEW i \in 0..upper_voices' - 1
      PROVE  /\ i \in 0..upper_voices - 1 /\ i \in Slots
             /\ voice'[i] \in Voice
             /\ voice'[i].status = "on" => voice'[i].ch # c
  <2>1. i \in 0..upper_voices - 1 /\ i \in Slots
    BY BoundedFacts
  <2>2. voice'[i] \in Voice
    BY <1>3, <2>1 DEF Turned
  <2>3. ASSUME voice'[i].status = "on"
        PROVE  voice'[i].ch # c
    <3>1. i \notin S /\ voice[i].status = "on" /\ voice'[i] = voice[i]
      BY <1>3, <2>1, <2>3 
    <3> QED
      BY <2>1, <3>1 DEF S, Of
  <2> QED
    BY <2>1, <2>2, <2>3
<1>8. MonoKept
  <2> SUFFICES ASSUME NEW i \in 0..upper_voices' - 1, voice'[i].status = "on",
                      channel'[voice'[i].ch].mono
               PROVE  channel[voice'[i].ch].mono
    BY DEF MonoKept
  <2>1. voice'[i].ch \in Channels /\ voice'[i].ch # c
    BY <1>7 DEF Voice
  <2> QED
    BY <2>1
<1>9. VidsKept
  <2> SUFFICES ASSUME NEW i \in 0..upper_voices' - 1, voice'[i].status = "on"
               PROVE  LET k == <<voice'[i].ch, voice'[i].note>>
                      IN  vidq_head'[k] = vidq_head[k] /\ vidq_tail'[k] = vidq_tail[k]
    BY DEF VidsKept
  <2>1. <<voice'[i].ch, voice'[i].note>> \in Keys /\ <<voice'[i].ch, voice'[i].note>>[1] # c
    BY <1>7, KeyFacts
  <2> QED
    BY <1>4, <2>1
<1>10. PedalsKept
  <2> SUFFICES ASSUME NEW i \in 0..upper_voices' - 1, voice'[i].status = "sustained"
               PROVE  \/ HeldNext(voice'[i].ch)
                      \/ /\ HeldNow(voice'[i].ch) => HeldNext(voice'[i].ch)
                         /\ \E j \in 0..upper_voices - 1 :
                              voice[j].status = "sustained" /\ voice[j].ch = voice'[i].ch
    BY DEF PedalsKept
  <2>1. voice'[i].ch \in Channels /\ i \in 0..upper_voices - 1 /\ i \in Slots
    BY <1>7 DEF Voice
  <2>2. HeldNow(voice'[i].ch) => HeldNext(voice'[i].ch)
    BY <2>1 DEF HeldNow, HeldNext
  <2>3. CASE i \in S
    <3>1. voice'[i].ch = c /\ PedalHeld(channel[c])
      BY <1>3, <2>1, <2>3
    <3> QED
      BY <2>1, <2>2, <3>1 DEF HeldNow
  <2>4. CASE i \notin S
    <3>1. voice[i].status = "sustained" /\ voice[i].ch = voice'[i].ch
      BY <1>3, <2>1, <2>4
    <3> QED
      BY <2>1, <2>2, <3>1
  <2> QED
    BY <2>3, <2>4
<1> QED
  BY <1>3, <1>6, <1>8, <1>9, <1>10, Preserve

LEMMA NoteOffStep ==
  ASSUME VoicesAssumption, ByteAssumption, Bounded, NEW c \in Channels, NEW n \in Notes,
         NoteOff(c, n)
  PROVE  Keeps
<1> DEFINE k == <<c, n>>
           vid == IF Overlap THEN vidq_tail[k] ELSE 0
           S == {i \in Of(c, {"on"}) : voice[i].note = n /\ voice[i].vid = vid}
<1>1. /\ UNCHANGED <<setup, upper_voices, voices, old_voices, vidq_head, channel, cleared, pc, work>>
      /\ vidq_tail' = IF Overlap THEN [vidq_tail EXCEPT ![k] = (vid + 1) % ByteMod]
                      ELSE vidq_tail
      /\ Release(c, S)
  BY DEF NoteOff, sizeVars, chanVars
<1>2. S \in SUBSET Of(c, {"on"})
  OBVIOUS
<1> HIDE DEF S
<1>3. /\ Turned /\ Inherits /\ Silent' /\ chorus_link' \in [Slots -> Slots]
      /\ NarrowPool /\ Joined => Joined'
      /\ \A i \in Slots :
           /\ i \in S => voice'[i].status # "on" /\ voice'[i].ch = c
           /\ i \in S /\ voice'[i].status = "sustained" => PedalHeld(channel[c])
           /\ i \notin S => voice'[i] = voice[i]
  BY <1>1, <1>2, ReleaseFacts
<1>4. /\ k \in Keys /\ vidq_head \in [Keys -> 0..ByteMod - 1]
      /\ vidq_tail \in [Keys -> 0..ByteMod - 1]
  BY DEF Keys, Bounded, Typed
<1>5. vidq_tail' \in [Keys -> 0..ByteMod - 1]
  <2>1. CASE Overlap
    <3>1. (vidq_tail[k] + 1) % ByteMod \in 0..ByteMod - 1
      <4>1. vidq_tail[k] + 1 \in Nat /\ ByteMod \in Nat \ {0}
        BY <1>4 DEF ByteAssumption
      <4> QED
        BY <4>1, Modulo
    <3> QED
      BY <1>1, <1>4, <2>1, <3>1
  <2>2. CASE ~Overlap
    BY <1>1, <1>4, <2>2
  <2> QED
    BY <2>1, <2>2
<1>6. Bounded'
  <2>1. /\ channel' \in [Channels -> Channel] /\ pc' \in {"play", "fade", "ended"}
        /\ cleared' \subseteq Channels /\ vidq_head' \in [Keys -> 0..ByteMod - 1]
    BY <1>1 DEF Bounded, Typed
  <2> QED
    BY <1>1, <1>3, <1>5, <2>1, SizeKept DEF Turned
<1>7. MonoKept
  BY <1>1 DEF MonoKept
<1>8. \A i \in 0..upper_voices' - 1 : i \in 0..upper_voices - 1 /\ i \in Slots
  BY <1>1, BoundedFacts
<1>9. PedalsKept
  <2> SUFFICES ASSUME NEW i \in 0..upper_voices' - 1, voice'[i].status = "sustained"
               PROVE  \/ HeldNext(voice'[i].ch)
                      \/ /\ HeldNow(voice'[i].ch) => HeldNext(voice'[i].ch)
                         /\ \E j \in 0..upper_voices - 1 :
                              voice[j].status = "sustained" /\ voice[j].ch = voice'[i].ch
    BY DEF PedalsKept
  <2>1. HeldNow(voice'[i].ch) => HeldNext(voice'[i].ch)
    BY <1>1 DEF HeldNow, HeldNext
  <2>2. CASE i \in S
    <3>1. voice'[i].ch = c /\ PedalHeld(channel[c])
      BY <1>3, <1>8, <2>2
    <3> QED
      BY <2>1, <3>1 DEF HeldNow
  <2>3. CASE i \notin S
    <3>1. voice[i].status = "sustained" /\ voice[i].ch = voice'[i].ch
      BY <1>3, <1>8, <2>3
    <3> QED
      BY <1>8, <2>1, <3>1
  <2> QED
    BY <2>2, <2>3
<1>10. OnVoicePending => OnVoicePending'
  <2> SUFFICES ASSUME OnVoicePending, Overlap, NEW i \in 0..upper_voices' - 1,
                      voice'[i].status = "on"
               PROVE  LET key == <<voice'[i].ch, voice'[i].note>>
                      IN  (voice'[i].vid - vidq_tail'[key]) % ByteMod
                            < (vidq_head'[key] - vidq_tail'[key]) % ByteMod
    BY <1>1 DEF OnVoicePending, Overlap, Pending
  <2> DEFINE y == voice[i]
             key == <<y.ch, y.note>>
  <2>1. i \in 0..upper_voices - 1 /\ i \in Slots /\ i \notin S /\ voice'[i] = y /\ y.status = "on"
    BY <1>3, <1>8
  <2>2. y \in Voice
    BY <2>1 DEF Bounded, Typed
  <2>3. key \in Keys /\ y.vid \in 0..ByteMod - 1
    BY <2>2 DEF Voice, Keys
  <2>4. (y.vid - vidq_tail[key]) % ByteMod < (vidq_head[key] - vidq_tail[key]) % ByteMod
    BY <2>1 DEF OnVoicePending, Pending
  <2>5. CASE key # k
    <3>1. vidq_tail'[key] = vidq_tail[key] /\ vidq_head'[key] = vidq_head[key]
      BY <1>1, <1>4, <2>3, <2>5
    <3> QED
      BY <2>1, <2>4, <3>1
  <2>6. CASE key = k
    <3>1. y.vid # vidq_tail[k]
      <4>1. y.ch = c /\ y.note = n
        BY <2>6
      <4>2. i \in Of(c, {"on"})
        BY <2>1, <4>1 DEF Of
      <4> QED
        BY <2>1, <4>1, <4>2 DEF S
    <3>2. vidq_tail'[k] = (vidq_tail[k] + 1) % ByteMod /\ vidq_head'[k] = vidq_head[k]
      BY <1>1, <1>4
    <3> DEFINE a == y.vid
               t == vidq_tail[k]
               h == vidq_head[k]
    <3>3. a \in 0..ByteMod - 1 /\ t \in 0..ByteMod - 1 /\ h \in 0..ByteMod - 1
      BY <1>4, <2>3
    <3>4. a # t /\ (a - t) % ByteMod < (h - t) % ByteMod
      BY <2>4, <2>6, <3>1
    <3>7. vidq_tail'[k] = (t + 1) % ByteMod /\ vidq_head'[k] = h
      BY <3>2
    <3> HIDE DEF a, t, h
    <3>5. (a - ((t + 1) % ByteMod)) % ByteMod < (h - ((t + 1) % ByteMod)) % ByteMod
      BY <3>3, <3>4, Circle
    <3>6. (a - vidq_tail'[k]) % ByteMod < (vidq_head'[k] - vidq_tail'[k]) % ByteMod
      BY <3>5, <3>7
    <3> QED
      BY <2>1, <2>6, <3>6 DEF a
  <2> QED
    BY <2>5, <2>6
<1> QED
  BY <1>1, <1>3, <1>6, <1>7, <1>9, <1>10, PreserveButVids

LEMMA ChannelFacts ==
  ASSUME Bounded, NEW c \in Channels
  PROVE  channel \in [Channels -> Channel] /\ channel[c] \in Channel
BY DEF Bounded, Typed

LEMMA ModeMessageStep ==
  ASSUME VoicesAssumption, ByteAssumption, Bounded, NEW c \in Channels, NEW mono \in BOOLEAN,
         AllNotesOffEvent(c) \/ MonoPoly(c, mono)
  PROVE  Keeps
<1>1. CASE AllNotesOffEvent(c)
  <2>1. /\ AllNotesOff(c) /\ UNCHANGED <<setup, upper_voices, sizeVars, cleared, pc, work>>
        /\ UNCHANGED channel
    BY <1>1 DEF AllNotesOffEvent, chanVars
  <2>2. channel' \in [Channels -> Channel]
    BY <2>1, ChannelFacts
  <2> QED
    BY <2>1, <2>2, AllNotesOffStep
<1>2. CASE MonoPoly(c, mono)
  <2>1. /\ AllNotesOff(c) /\ UNCHANGED <<setup, upper_voices, sizeVars, cleared, pc, work>>
        /\ channel' = [channel EXCEPT ![c].mono = mono]
    BY <1>2 DEF MonoPoly
  <2>2. channel \in [Channels -> Channel] /\ channel[c] \in Channel
    BY ChannelFacts
  <2> DEFINE x == [channel[c] EXCEPT !.mono = mono]
  <2>3. x \in Channel /\ x.sustain = channel[c].sustain /\ x.sostenuto = channel[c].sostenuto
    BY <2>2 DEF Channel
  <2>4. channel' = [channel EXCEPT ![c] = x]
    BY <2>1
  <2> HIDE DEF x
  <2>5. channel' \in [Channels -> Channel]
    BY <2>2, <2>3, <2>4
  <2>6. channel'[c] = x /\ \A d \in Channels : d # c => channel'[d] = channel[d]
    BY <2>2, <2>4
  <2>7. \A d \in Channels : PedalHeld(channel[d]) => PedalHeld(channel'[d])
    BY <2>3, <2>6 DEF PedalHeld
  <2> QED
    BY <2>1, <2>5, <2>6, <2>7, AllNotesOffStep
<1> QED
  BY <1>1, <1>2

LEMMA AllSoundsOffStep ==
  ASSUME VoicesAssumption, ByteAssumption, Bounded, NEW c \in Channels, AllSoundsOff(c)
  PROVE  Keeps
<1> DEFINE S == Of(c, {"on", "sustained", "off"})
<1>1. /\ UNCHANGED <<setup, upper_voices, voices, old_voices, channel, cleared, pc, work>>
      /\ Kill(S) /\ ForgetVids(c)
  BY DEF AllSoundsOff, sizeVars, chanVars
<1>2. S \in SUBSET Slots /\ \A i \in S : Plays(voice[i])
  BY OfFacts DEF Plays
<1> HIDE DEF S
<1>3. /\ Turned /\ Inherits /\ Silent' /\ chorus_link' \in [Slots -> Slots]
      /\ Joined => Joined'
      /\ \A i \in Slots :
           /\ i \in S => voice'[i].status = "die"
           /\ i \notin S => voice'[i] = voice[i]
  BY <1>1, <1>2, KillFacts
<1>4. /\ vidq_head' \in [Keys -> 0..ByteMod - 1] /\ vidq_tail' \in [Keys -> 0..ByteMod - 1]
      /\ \A k \in Keys : k[1] # c => vidq_head'[k] = vidq_head[k] /\ vidq_tail'[k] = vidq_tail[k]
  BY <1>1, ForgetFacts
<1>5. Bounded'
  <2>1. /\ channel' \in [Channels -> Channel] /\ pc' \in {"play", "fade", "ended"}
        /\ cleared' \subseteq Channels
    BY <1>1 DEF Bounded, Typed
  <2> QED
    BY <1>1, <1>3, <1>4, <2>1, SizeKept DEF Turned
<1>6. \A i \in 0..upper_voices' - 1 : i \in 0..upper_voices - 1 /\ i \in Slots
  BY <1>1, BoundedFacts
<1>7. MonoKept
  BY <1>1 DEF MonoKept
<1>8. VidsKept
  <2> SUFFICES ASSUME NEW i \in 0..upper_voices' - 1, voice'[i].status = "on"
               PROVE  LET k == <<voice'[i].ch, voice'[i].note>>
                      IN  vidq_head'[k] = vidq_head[k] /\ vidq_tail'[k] = vidq_tail[k]
    BY DEF VidsKept
  <2>1. i \in Slots /\ i \in 0..upper_voices - 1 /\ i \notin S /\ voice'[i] = voice[i]
    BY <1>3, <1>6
  <2>2. voice[i].ch # c
    BY <2>1 DEF S, Of
  <2>3. <<voice'[i].ch, voice'[i].note>> \in Keys /\ <<voice'[i].ch, voice'[i].note>>[1] # c
    <3>1. voice'[i] \in Voice
      BY <1>3, <2>1 DEF Turned
    <3> QED
      BY <2>1, <2>2, <3>1, KeyFacts
  <2> QED
    BY <1>4, <2>3
<1>9. PedalsKept
  <2>1. \A d : HeldNow(d) => HeldNext(d)
    BY <1>1 DEF HeldNow, HeldNext
  <2>2. ASSUME NEW i \in 0..upper_voices' - 1, voice'[i].status = "sustained"
        PROVE  i \in 0..upper_voices - 1 /\ voice'[i] = voice[i]
    BY <1>3, <1>6, <2>2
  <2> QED
    BY <2>1, <2>2 DEF PedalsKept
<1> QED
  BY <1>1, <1>3, <1>5, <1>7, <1>8, <1>9, Preserve

(* The controllers of one channel change: its sustained voices are dropped *)
(* or the pedal still holds them.                                          *)
LEMMA ControllerStep ==
  ASSUME VoicesAssumption, ByteAssumption, Bounded, NEW c \in Channels, NEW x \in Channel,
         channel' = [channel EXCEPT ![c] = x], x.mono => channel[c].mono,
         UNCHANGED <<setup, upper_voices, voices, old_voices, vidq_head, vidq_tail, pc, work>>,
         cleared' \subseteq Channels, \A d \in Channels : d # c /\ d \in cleared => d \in cleared',
         \/ UNCHANGED <<voice, chorus_link>> /\ (HeldNow(c) => HeldNext(c))
         \/ Change(Of(c, {"on", "off"}), "sustained") /\ HeldNext(c)
         \/ Change(Of(c, {"sustained"}), "off")
  PROVE  Keeps
<1>1. /\ channel \in [Channels -> Channel] /\ channel' \in [Channels -> Channel]
      /\ channel'[c] = x /\ \A d \in Channels : d # c => channel'[d] = channel[d]
  BY ChannelFacts
<1>2. \A d \in Channels : d # c /\ HeldNow(d) => HeldNext(d)
  BY <1>1 DEF HeldNow, HeldNext
<1>3. /\ Turned /\ Inherits /\ Silent' /\ chorus_link' \in [Slots -> Slots]
      /\ NarrowPool /\ Joined => Joined'
      /\ \A i \in 0..upper_voices - 1 : voice'[i].status = "sustained" =>
           \/ HeldNext(voice'[i].ch)
           \/ /\ voice[i].status = "sustained" /\ voice[i].ch = voice'[i].ch
              /\ HeldNow(voice'[i].ch) => HeldNext(voice'[i].ch)
  <2>1. \A i \in 0..upper_voices - 1 : i \in Slots /\ voice[i] \in Voice /\ voice[i].ch \in Channels
    <3>1. \A i \in 0..upper_voices - 1 : i \in Slots
      BY BoundedFacts
    <3>2. \A i \in Slots : voice[i] \in Voice
      BY DEF Bounded, Typed
    <3> QED
      BY <3>1, <3>2 DEF Voice
  <2>2. CASE UNCHANGED <<voice, chorus_link>> /\ (HeldNow(c) => HeldNext(c))
    <3>1. Turned
      BY <2>2 DEF Turned, Turns, Bounded, Typed
    <3>2. upper_voices' \in 0..upper_voices
      BY DEF Bounded, Typed
    <3>3. Inherits /\ Silent'
      BY <3>1, <3>2, TurnInherits, TurnSilent
    <3>4. chorus_link' \in [Slots -> Slots] /\ (Joined => Joined')
      BY <2>2 DEF Bounded, Typed, Joined, Paired
    <3> QED
      BY <1>2, <2>1, <2>2, <3>1, <3>3, <3>4
  <2>3. CASE Change(Of(c, {"on", "off"}), "sustained") /\ HeldNext(c)
    <3> DEFINE S == Of(c, {"on", "off"})
    <3>1. S \in SUBSET Slots /\ \A i \in S : Plays(voice[i]) /\ voice[i].ch = c
      BY OfFacts DEF Plays
    <3>5. Change(S, "sustained")
      BY <2>3
    <3> HIDE DEF S
    <3>2. /\ Turned /\ Inherits /\ Silent' /\ chorus_link' \in [Slots -> Slots]
          /\ NarrowPool /\ Joined => Joined'
          /\ \A i \in Slots : i \notin S => voice'[i] = voice[i]
      BY <3>1, <3>5, ChangeFacts
    <3>3. ASSUME NEW i \in 0..upper_voices - 1, voice'[i].status = "sustained",
                 ~HeldNext(voice'[i].ch)
          PROVE  /\ voice[i].status = "sustained" /\ voice[i].ch = voice'[i].ch
                 /\ HeldNow(voice'[i].ch) => HeldNext(voice'[i].ch)
      <4>1. voice'[i].ch = voice[i].ch
        BY <2>1, <3>2 DEF Turned, Turns
      <4>2. voice[i].ch # c
        BY <2>3, <3>3, <4>1
      <4>3. voice'[i] = voice[i]
        BY <2>1, <3>1, <3>2, <4>2
      <4> QED
        BY <1>2, <2>1, <3>3, <4>1, <4>2, <4>3
    <3> QED
      BY <3>2, <3>3
  <2>4. CASE Change(Of(c, {"sustained"}), "off")
    <3> DEFINE S == Of(c, {"sustained"})
    <3>1. S \in SUBSET Slots /\ \A i \in S : Plays(voice[i]) /\ voice[i].ch = c
      BY OfFacts DEF Plays
    <3>5. Change(S, "off")
      BY <2>4
    <3> HIDE DEF S
    <3>2. /\ Turned /\ Inherits /\ Silent' /\ chorus_link' \in [Slots -> Slots]
          /\ NarrowPool /\ Joined => Joined'
          /\ \A i \in Slots :
               /\ i \in S => voice'[i].status \in {"free", "off"}
               /\ i \notin S => voice'[i] = voice[i]
      BY <3>1, <3>5, ChangeFacts
    <3>3. ASSUME NEW i \in 0..upper_voices - 1, voice'[i].status = "sustained"
          PROVE  /\ voice[i].status = "sustained" /\ voice[i].ch = voice'[i].ch
                 /\ HeldNow(voice'[i].ch) => HeldNext(voice'[i].ch)
      <4>1. i \notin S /\ voice'[i] = voice[i]
        BY <2>1, <3>2, <3>3
      <4>2. voice[i].ch # c
        BY <3>3, <4>1 DEF S, Of
      <4> QED
        BY <1>2, <2>1, <3>3, <4>1, <4>2
    <3> QED
      BY <3>2, <3>3
  <2> QED
    BY <2>2, <2>3, <2>4
<1>4. Bounded'
  <2>1. /\ pc' \in {"play", "fade", "ended"} /\ vidq_head' \in [Keys -> 0..ByteMod - 1]
        /\ vidq_tail' \in [Keys -> 0..ByteMod - 1]
    BY DEF Bounded, Typed
  <2> QED
    BY <1>1, <1>3, <2>1, SizeKept DEF Turned
<1>5. VidsKept
  BY DEF VidsKept
<1>6. MonoKept
  <2> SUFFICES ASSUME NEW i \in 0..upper_voices' - 1, channel'[voice'[i].ch].mono
               PROVE  channel[voice'[i].ch].mono
    BY DEF MonoKept
  <2>1. i \in Slots
    BY BoundedFacts
  <2>2. voice'[i].ch \in Channels
    BY <1>3, <2>1 DEF Turned, Voice
  <2> QED
    BY <1>1, <2>2
<1>7. PedalsKept
  BY <1>3 DEF PedalsKept
<1> QED
  BY <1>3, <1>4, <1>5, <1>6, <1>7, Preserve

LEMMA PedalFacts ==
  ASSUME NEW x \in Channel, NEW a \in {Up, Half, Down}, NEW on \in BOOLEAN
  PROVE  /\ [x EXCEPT !.sustain = a] \in Channel /\ [x EXCEPT !.sostenuto = on] \in Channel
         /\ [x EXCEPT !.sustain = a].mono = x.mono
         /\ [x EXCEPT !.sostenuto = on].mono = x.mono
         /\ PedalHeld([x EXCEPT !.sustain = a]) <=> a # Up \/ x.sostenuto
         /\ PedalHeld([x EXCEPT !.sostenuto = on]) <=> x.sustain # Up \/ on
BY DEF Channel, PedalHeld

LEMMA PedalStep ==
  ASSUME VoicesAssumption, ByteAssumption, Bounded, NEW c \in Channels,
         NEW a \in {Up, Half, Down}, NEW on \in BOOLEAN,
         Sustain(c, a) \/ Sostenuto(c, on)
  PROVE  Keeps
<1>1. channel \in [Channels -> Channel] /\ channel[c] \in Channel /\ cleared \subseteq Channels
  BY ChannelFacts DEF Bounded, Typed
<1>2. CASE Sustain(c, a)
  <2> DEFINE new == IF channel[c].damper \/ a = Down THEN a ELSE Up
             x == [channel[c] EXCEPT !.sustain = new]
             catches == /\ channel[c].sustain = Up /\ a = Down
                        /\ channel[c].damper /\ c \notin DrumChannels
             drops == new = Up /\ ~channel[c].sostenuto
  <2>1. new \in {Up, Half, Down} /\ (a = Down => new = Down /\ new # Up)
    BY DEF Up, Half, Down
  <2>2. /\ channel' = [channel EXCEPT ![c] = x]
        /\ UNCHANGED <<setup, upper_voices, voices, old_voices, vidq_head, vidq_tail, pc, work>>
        /\ cleared' = IF drops THEN cleared \ {c} ELSE cleared
        /\ \/ catches /\ Change(Of(c, {"on", "off"}), "sustained")
           \/ drops /\ Change(Of(c, {"sustained"}), "off")
           \/ ~catches /\ ~drops /\ UNCHANGED <<voice, chorus_link>>
    BY <1>2 DEF Sustain, sizeVars, vidVars
  <2>3. catches => ~drops
    BY <2>1
  <2>4. ~drops => new # Up \/ channel[c].sostenuto
    OBVIOUS
  <2> HIDE DEF new, catches, drops
  <2>5. /\ x \in Channel /\ x.mono = channel[c].mono
        /\ PedalHeld(x) <=> new # Up \/ channel[c].sostenuto
    BY <1>1, <2>1, PedalFacts
  <2> HIDE DEF x
  <2>6. channel'[c] = x
    BY <1>1, <2>2
  <2>7. ~drops => HeldNext(c)
    BY <2>4, <2>5, <2>6 DEF HeldNext
  <2>8. cleared' \subseteq Channels /\ \A d \in Channels : d # c /\ d \in cleared => d \in cleared'
    BY <1>1, <2>2
  <2> QED
    BY <2>2, <2>3, <2>5, <2>7, <2>8, ControllerStep
<1>3. CASE Sostenuto(c, on)
  <2> DEFINE x == [channel[c] EXCEPT !.sostenuto = on]
             drops == ~on /\ channel[c].sustain = Up
             catches == on /\ c \notin DrumChannels
  <2>2. /\ channel' = [channel EXCEPT ![c] = x]
        /\ UNCHANGED <<setup, upper_voices, voices, old_voices, vidq_head, vidq_tail, pc, work>>
        /\ cleared' = IF drops THEN cleared \ {c} ELSE cleared
        /\ \/ catches /\ Change(Of(c, {"on", "off"}), "sustained")
           \/ drops /\ Change(Of(c, {"sustained"}), "off")
           \/ ~catches /\ ~drops /\ UNCHANGED <<voice, chorus_link>>
    BY <1>3 DEF Sostenuto, sizeVars, vidVars
  <2>3. catches => ~drops
    OBVIOUS
  <2>4. ~drops => on \/ channel[c].sustain # Up
    OBVIOUS
  <2> HIDE DEF catches, drops
  <2>5. /\ x \in Channel /\ x.mono = channel[c].mono
        /\ PedalHeld(x) <=> channel[c].sustain # Up \/ on
    BY <1>1, PedalFacts
  <2> HIDE DEF x
  <2>6. channel'[c] = x
    BY <1>1, <2>2
  <2>7. ~drops => HeldNext(c)
    BY <2>4, <2>5, <2>6 DEF HeldNext
  <2>8. cleared' \subseteq Channels /\ \A d \in Channels : d # c /\ d \in cleared => d \in cleared'
    BY <1>1, <2>2
  <2> QED
    BY <2>2, <2>3, <2>5, <2>7, <2>8, ControllerStep
<1> QED
  BY <1>2, <1>3

LEMMA ResetControllersStep ==
  ASSUME VoicesAssumption, ByteAssumption, Bounded, NEW c \in Channels, ResetControllers(c)
  PROVE  Keeps
<1> DEFINE x == ResetChannel(channel[c])
<1>1. channel[c] \in Channel /\ cleared \subseteq Channels
  BY ChannelFacts DEF Bounded, Typed
<1>2. x \in Channel /\ ~x.mono
  BY <1>1 DEF ResetChannel, Channel
<1>3. channel' = [channel EXCEPT ![c] = x]
  BY DEF ResetControllers
<1> HIDE DEF x
<1>4. /\ UNCHANGED <<setup, upper_voices, voices, old_voices, vidq_head, vidq_tail, pc, work>>
      /\ UNCHANGED <<voice, chorus_link>> /\ cleared' = cleared \cup {c}
  BY DEF ResetControllers, poolVars, sizeVars, vidVars
<1>5. HeldNext(c) /\ cleared' \subseteq Channels
  BY <1>1, <1>4 DEF HeldNext
<1> QED
  BY <1>2, <1>3, <1>4, <1>5, ControllerStep

LEMMA SetAssignStep ==
  ASSUME VoicesAssumption, ByteAssumption, Bounded, NEW c \in Channels,
         NEW mode \in 0..2, NEW damper \in BOOLEAN, SetAssign(c, mode, damper)
  PROVE  Keeps
<1> DEFINE x == [channel[c] EXCEPT !.assign = mode, !.damper = damper]
<1>1. channel \in [Channels -> Channel] /\ channel[c] \in Channel /\ cleared \subseteq Channels
  BY ChannelFacts DEF Bounded, Typed
<1>2. x \in Channel /\ x.mono = channel[c].mono /\ (PedalHeld(channel[c]) => PedalHeld(x))
  BY <1>1 DEF Channel, PedalHeld
<1>3. channel' = [channel EXCEPT ![c] = x]
  BY DEF SetAssign
<1> HIDE DEF x
<1>4. /\ UNCHANGED <<setup, upper_voices, voices, old_voices, vidq_head, vidq_tail, pc, work>>
      /\ UNCHANGED <<voice, chorus_link>> /\ cleared' = cleared
  BY DEF SetAssign, poolVars, sizeVars, vidVars
<1>5. channel'[c] = x
  BY <1>1, <1>3
<1>6. HeldNow(c) => HeldNext(c)
  BY <1>2, <1>4, <1>5 DEF HeldNow, HeldNext
<1> QED
  BY <1>1, <1>2, <1>3, <1>4, <1>6, ControllerStep

-----------------------------------------------------------------------------
(* Voices that run out, resets and the end of a song *)

LEMMA FreeFacts ==
  ASSUME VoicesAssumption, Bounded, NEW R,
         voice' = [i \in Slots |->
           IF i \in R THEN [voice[i] EXCEPT !.status = "free"] ELSE voice[i]]
  PROVE  /\ Turned
         /\ \A i \in Slots :
              /\ i \in R => voice'[i].status = "free"
              /\ i \notin R => voice'[i] = voice[i]
<1>1. voice' = Turning(R, {}, "die")
  BY DEF Turning
<1>2. \A i \in {} \ R : i \in Slots => Plays(voice[i])
  OBVIOUS
<1>3. /\ Turned
      /\ \A i \in Slots :
           /\ i \in R => voice'[i].status = "free"
           /\ i \notin R /\ i \notin {} => voice'[i] = voice[i]
  BY <1>1, <1>2, TurnFacts
<1> QED
  BY <1>3

LEMMA TopFacts ==
  ASSUME NEW n \in Nat, NEW u \in 0..n, NEW vs
  PROVE  /\ Top(vs, u) \in 0..u
         /\ \A i \in Top(vs, u)..u - 1 : vs[i].status = "free"
<1> DEFINE live == {i \in 0..u - 1 : vs[i].status # "free"}
<1>1. CASE live = {}
  <2>1. Top(vs, u) = 0
    BY <1>1 DEF Top
  <2> QED
    BY <1>1, <2>1
<1>2. CASE live # {}
  <2> DEFINE g == Greatest(live)
  <2>1. g \in live /\ \A j \in live : g >= j
    <3>1. live \in SUBSET (0..u - 1) /\ u \in Nat
      OBVIOUS
    <3> HIDE DEF live
    <3> QED
      BY <1>2, <3>1, GreatestFacts
  <2>2. Top(vs, u) = g + 1
    BY <1>2 DEF Top
  <2> HIDE DEF g
  <2>3. g \in 0..u - 1
    BY <2>1
  <2>4. ASSUME NEW i \in g + 1..u - 1
        PROVE  vs[i].status = "free"
    <3>1. i \in 0..u - 1 /\ ~(g >= i)
      BY <2>3
    <3> QED
      BY <2>1, <3>1
  <2> QED
    BY <2>2, <2>3, <2>4
<1> QED
  BY <1>1, <1>2

LEMMA NoVidsFacts ==
  ASSUME ByteAssumption, NoVids
  PROVE  vidq_head' \in [Keys -> 0..ByteMod - 1] /\ vidq_tail' \in [Keys -> 0..ByteMod - 1]
BY DEF ByteAssumption, NoVids

LEMMA AdjustVolumeStep ==
  ASSUME VoicesAssumption, ByteAssumption, Bounded, AdjustVolume
  PROVE  Keeps
<1>1. UNCHANGED <<setup, upper_voices, voices, old_voices, vidq_head, vidq_tail, channel,
                  cleared, pc, work>>
  BY DEF AdjustVolume, sizeVars, vidVars, chanVars
<1>2. PICK R \in SUBSET {i \in 0..upper_voices - 1 : voice[i].status \in {"sustained", "off"}} :
        /\ voice' = [i \in Slots |->
             IF i \in R THEN [voice[i] EXCEPT !.status = "free"] ELSE voice[i]]
        /\ chorus_link' = UnlinkAll(chorus_link, R)
  BY DEF AdjustVolume
<1>3. R \in SUBSET Slots
  BY BoundedFacts
<1>4. /\ Turned
      /\ \A i \in Slots :
           /\ i \in R => voice'[i].status = "free"
           /\ i \notin R => voice'[i] = voice[i]
  BY <1>2, FreeFacts
<1>5. chorus_link' \in [Slots -> Slots] /\ (NarrowPool /\ Joined => Joined')
  <2>1. \A i \in Slots : voice'[i].status = "free" => i \in R \/ voice[i].status = "free"
    BY <1>4
  <2> QED
    BY <1>1, <1>2, <1>3, <2>1, UnlinkStep
<1>6. Inherits /\ Silent'
  <2>1. upper_voices' \in 0..upper_voices
    BY <1>1 DEF Bounded, Typed
  <2> QED
    BY <1>1, <1>4, <2>1, TurnInherits, TurnSilent
<1>7. Bounded'
  <2>1. /\ vidq_head' \in [Keys -> 0..ByteMod - 1] /\ vidq_tail' \in [Keys -> 0..ByteMod - 1]
        /\ channel' \in [Channels -> Channel] /\ pc' \in {"play", "fade", "ended"}
        /\ cleared' \subseteq Channels
    BY <1>1 DEF Bounded, Typed
  <2> QED
    BY <1>1, <1>4, <1>5, <1>6, <2>1, SizeKept DEF Turned
<1>8. \A i \in 0..upper_voices' - 1 : voice'[i].status = "sustained" =>
         \E j \in 0..upper_voices - 1 :
           voice[j].status = "sustained" /\ voice[j].ch = voice'[i].ch
  <2>1. \A i \in 0..upper_voices' - 1 : i \in 0..upper_voices - 1 /\ i \in Slots
    BY <1>1, BoundedFacts
  <2>2. \A i \in 0..upper_voices' - 1 : voice'[i].status = "sustained" => voice'[i] = voice[i]
    BY <1>4, <2>1
  <2> QED
    BY <2>1, <2>2
<1> QED
  BY <1>1, <1>5, <1>6, <1>7, <1>8, PreservePlain

LEMMA SystemResetStep ==
  ASSUME VoicesAssumption, ByteAssumption, Bounded, SystemReset
  PROVE  Keeps
<1> DEFINE S == {i \in 0..upper_voices - 1 : Sounds(i)}
<1>1. /\ UNCHANGED <<setup, upper_voices, voices, old_voices, pc, work>>
      /\ Kill(S) /\ NoVids /\ cleared' = {}
  BY DEF SystemReset, KillAllVoices, sizeVars
<1>2. S \in SUBSET Slots /\ \A i \in S : Plays(voice[i])
  BY BoundedFacts DEF Sounds, Plays
<1> HIDE DEF S
<1>3. /\ Turned /\ Inherits /\ Silent' /\ chorus_link' \in [Slots -> Slots]
      /\ Joined => Joined'
      /\ \A i \in Slots :
           /\ i \in S => voice'[i].status = "die"
           /\ i \notin S => voice'[i] = voice[i]
  BY <1>1, <1>2, KillFacts
<1>4. channel' \in [Channels -> Channel]
  <2>0. \A m \in 1..2 : m \in 0..2
    OBVIOUS
  <2>1. PICK mode \in 1..2 : channel' = [c \in Channels |->
          [ResetChannel(channel[c]) EXCEPT !.damper = FALSE, !.assign = mode]]
    BY DEF SystemReset
  <2>2. ASSUME NEW c \in Channels
        PROVE  [ResetChannel(channel[c]) EXCEPT !.damper = FALSE, !.assign = mode] \in Channel
    <3> DEFINE y == ResetChannel(channel[c])
    <3>1. channel[c] \in Channel
      BY ChannelFacts
    <3>2. y \in Channel
      BY <3>1 DEF ResetChannel, Channel
    <3> HIDE DEF y
    <3>3. mode \in 0..2
      BY <2>0
    <3>4. [y EXCEPT !.damper = FALSE, !.assign = mode] \in Channel
      BY <3>2, <3>3 DEF Channel
    <3> QED
      BY <3>4 DEF y
  <2> QED
    BY <2>1, <2>2
<1>5. Bounded'
  <2>1. /\ vidq_head' \in [Keys -> 0..ByteMod - 1] /\ vidq_tail' \in [Keys -> 0..ByteMod - 1]
        /\ pc' \in {"play", "fade", "ended"} /\ cleared' \subseteq Channels
    BY <1>1, NoVidsFacts DEF Bounded, Typed
  <2> QED
    BY <1>1, <1>3, <1>4, <2>1, SizeKept DEF Turned
<1>6. ASSUME NEW i \in 0..upper_voices' - 1
      PROVE  Silenced(voice'[i])
  <2>1. i \in 0..upper_voices - 1 /\ i \in Slots
    BY <1>1, BoundedFacts
  <2>2. CASE i \in S
    BY <1>3, <2>1, <2>2 DEF Silenced
  <2>3. CASE i \notin S
    <3>1. voice'[i] = voice[i] /\ ~Sounds(i) /\ voice[i] \in Voice
      BY <1>3, <2>1, <2>3 DEF S, Bounded, Typed
    <3> QED
      BY <3>1 DEF Silenced, Sounds, Voice, Statuses
  <2> QED
    BY <2>2, <2>3
<1> QED
  BY <1>1, <1>3, <1>5, <1>6, PreserveNothing

LEMMA EndFinishStep ==
  ASSUME VoicesAssumption, ByteAssumption, Bounded, EndFinish
  PROVE  Keeps
<1> DEFINE S == {i \in 0..upper_voices - 1 : voice[i].status \in {"on", "sustained"}}
<1>1. /\ UNCHANGED <<setup, upper_voices, voices, old_voices, vidq_head, vidq_tail, channel,
                     cleared, work>>
      /\ pc' = "fade" /\ Change(S, "off")
  BY DEF EndFinish, sizeVars, vidVars, chanVars
<1>2. S \in SUBSET Slots /\ \A i \in S : Plays(voice[i])
  BY BoundedFacts DEF Plays
<1> HIDE DEF S
<1>3. /\ Turned /\ Inherits /\ Silent' /\ chorus_link' \in [Slots -> Slots]
      /\ NarrowPool /\ Joined => Joined'
      /\ \A i \in Slots :
           /\ i \in S => voice'[i].status \in {"free", "off"}
           /\ i \notin S => voice'[i] = voice[i]
  BY <1>1, <1>2, ChangeFacts
<1>4. Bounded'
  <2>1. /\ vidq_head' \in [Keys -> 0..ByteMod - 1] /\ vidq_tail' \in [Keys -> 0..ByteMod - 1]
        /\ channel' \in [Channels -> Channel] /\ pc' \in {"play", "fade", "ended"}
        /\ cleared' \subseteq Channels
    BY <1>1 DEF Bounded, Typed
  <2> QED
    BY <1>1, <1>3, <2>1, SizeKept DEF Turned
<1>5. \A i \in 0..upper_voices' - 1 : voice'[i].status = "sustained" =>
         \E j \in 0..upper_voices - 1 :
           voice[j].status = "sustained" /\ voice[j].ch = voice'[i].ch
  <2>1. \A i \in 0..upper_voices' - 1 : i \in 0..upper_voices - 1 /\ i \in Slots
    BY <1>1, BoundedFacts
  <2>2. \A i \in 0..upper_voices' - 1 : voice'[i].status = "sustained" => voice'[i] = voice[i]
    BY <1>3, <2>1
  <2> QED
    BY <2>1, <2>2
<1> QED
  BY <1>1, <1>3, <1>4, <1>5, PreservePlain

LEMMA MixStep ==
  ASSUME VoicesAssumption, ByteAssumption, Bounded, Mix
  PROVE  Keeps
<1>1. UNCHANGED <<setup, voices, old_voices, vidq_head, vidq_tail, channel, cleared, pc, work>>
  BY DEF Mix, sizeVars, vidVars, chanVars
<1>2. PICK R \in SUBSET (0..upper_voices - 1) :
        /\ voice' = [i \in Slots |->
             IF i \in R THEN [voice[i] EXCEPT !.status = "free"] ELSE voice[i]]
        /\ chorus_link' = UnlinkAll(chorus_link, R)
        /\ upper_voices' = Top(voice', upper_voices)
  <2> DEFINE dying == {i \in 0..upper_voices - 1 : voice[i].status = "die"}
             sounding == {i \in 0..upper_voices - 1 : Sounds(i)}
  <2>1. PICK T \in SUBSET sounding :
          /\ voice' = [i \in Slots |->
               IF i \in dying \cup T THEN [voice[i] EXCEPT !.status = "free"] ELSE voice[i]]
          /\ chorus_link' = UnlinkAll(chorus_link, dying \cup T)
          /\ upper_voices' = Top(voice', upper_voices)
    BY DEF Mix, MixVoices
  <2>2. dying \cup T \in SUBSET (0..upper_voices - 1)
    OBVIOUS
  <2> HIDE DEF dying
  <2> QED
    BY <2>1, <2>2
<1>3. R \in SUBSET Slots
  BY BoundedFacts
<1>4. /\ Turned
      /\ \A i \in Slots :
           /\ i \in R => voice'[i].status = "free"
           /\ i \notin R => voice'[i] = voice[i]
  BY <1>2, FreeFacts
<1>5. chorus_link' \in [Slots -> Slots] /\ (NarrowPool /\ Joined => Joined')
  <2>1. \A i \in Slots : voice'[i].status = "free" => i \in R \/ voice[i].status = "free"
    BY <1>4
  <2> QED
    BY <1>1, <1>2, <1>3, <2>1, UnlinkStep
<1>6. /\ upper_voices' \in 0..upper_voices
      /\ \A i \in upper_voices'..upper_voices - 1 : voice'[i].status = "free"
      /\ upper_voices \in 0..MaxVoices /\ MaxVoices \in Nat /\ voices \in 0..MaxVoices
  <2>1. upper_voices \in 0..MaxVoices /\ MaxVoices \in Nat /\ voices \in 0..MaxVoices
    BY BoundedFacts
  <2> DEFINE vs == voice'
  <2>2. /\ Top(vs, upper_voices) \in 0..upper_voices
        /\ \A i \in Top(vs, upper_voices)..upper_voices - 1 : vs[i].status = "free"
    <3> HIDE DEF vs
    <3> QED
      BY <2>1, TopFacts
  <2> QED
    BY <1>2, <2>1, <2>2
<1>7. Inherits
  BY <1>4, <1>6, TurnInherits
<1>8. Silent'
  <2> SUFFICES ASSUME NEW i \in upper_voices'..voices - 1
               PROVE  voice'[i].status = "free"
    BY <1>1 DEF Silent
  <2>1. i \in upper_voices'..upper_voices - 1 \/ i \in upper_voices..voices - 1
    BY <1>6
  <2>2. CASE i \in upper_voices..voices - 1
    BY <1>4, <2>2, BoundedFacts DEF Turned, Turns
  <2> QED
    BY <1>6, <2>1, <2>2
<1>9. Bounded'
  <2>1. Loops'
    BY <1>1, <1>6 DEF Bounded, Loops
  <2>2. Typed'
    <3>1. upper_voices' \in 0..MaxVoices
      BY <1>6
    <3> QED
      BY <1>1, <1>4, <1>5, <3>1 DEF Bounded, Typed, Turned
  <2> QED
    BY <1>8, <2>1, <2>2 DEF Bounded
<1>10. \A i \in 0..upper_voices' - 1 : voice'[i].status = "sustained" =>
         \E j \in 0..upper_voices - 1 :
           voice[j].status = "sustained" /\ voice[j].ch = voice'[i].ch
  <2>1. \A i \in 0..upper_voices' - 1 : i \in 0..upper_voices - 1
    BY <1>6
  <2>2. \A i \in 0..upper_voices - 1 : i \in Slots
    BY BoundedFacts
  <2>3. \A i \in 0..upper_voices' - 1 : voice'[i].status = "sustained" => voice'[i] = voice[i]
    BY <1>4, <2>1, <2>2
  <2> QED
    BY <2>1, <2>3
<1> QED
  BY <1>1, <1>5, <1>7, <1>9, <1>10, PreservePlain

LEMMA EndKillStep ==
  ASSUME VoicesAssumption, ByteAssumption, Bounded, EndKill
  PROVE  Keeps
<1> DEFINE R == {i \in Slots : i < upper_voices}
           Q == {i \in 0..upper_voices - 1 : voice[i].status # "free"}
<1>1. /\ UNCHANGED <<setup, voices, old_voices, channel, cleared, work>>
      /\ voice' = [i \in Slots |->
           IF i \in R THEN [voice[i] EXCEPT !.status = "free"] ELSE voice[i]]
      /\ chorus_link' = UnlinkAll(chorus_link, Q)
      /\ upper_voices' = 0 /\ NoVids /\ pc' = "ended"
  BY DEF EndKill, sizeVars, chanVars
<1>2. Q \in SUBSET Slots /\ upper_voices \in 0..MaxVoices /\ voices \in 0..MaxVoices
      /\ MaxVoices \in Nat
      /\ \A i \in R : i \in 0..upper_voices - 1
  BY BoundedFacts
<1> HIDE DEF R
<1>3. /\ Turned
      /\ \A i \in Slots :
           /\ i \in R => voice'[i].status = "free"
           /\ i \notin R => voice'[i] = voice[i]
  BY <1>1, FreeFacts
<1>4. chorus_link' \in [Slots -> Slots] /\ (NarrowPool /\ Joined => Joined')
  <2>1. \A i \in Slots : voice'[i].status = "free" => i \in Q \/ voice[i].status = "free"
    BY <1>2, <1>3
  <2> HIDE DEF Q
  <2> QED
    BY <1>1, <1>2, <2>1, UnlinkStep
<1>5. Silent'
  <2> SUFFICES ASSUME NEW i \in 0..voices - 1
               PROVE  voice'[i].status = "free"
    BY <1>1 DEF Silent
  <2>1. i \in Slots /\ (i < upper_voices \/ i \in upper_voices..voices - 1)
    BY <1>2, BoundedFacts
  <2>2. CASE i < upper_voices
    BY <1>3, <2>1, <2>2 DEF R
  <2>3. CASE i \in upper_voices..voices - 1
    BY <1>3, <2>1, <2>3, BoundedFacts DEF Turned, Turns
  <2> QED
    BY <2>1, <2>2, <2>3
<1>6. Bounded'
  <2>1. Loops'
    BY <1>1, <1>2 DEF Bounded, Loops
  <2>2. Typed'
    <3>1. upper_voices' \in 0..MaxVoices
      BY <1>1, <1>2
    <3>2. vidq_head' \in [Keys -> 0..ByteMod - 1] /\ vidq_tail' \in [Keys -> 0..ByteMod - 1]
      BY <1>1, NoVidsFacts
    <3> QED
      BY <1>1, <1>3, <1>4, <3>1, <3>2 DEF Bounded, Typed, Turned
  <2> QED
    BY <1>5, <2>1, <2>2 DEF Bounded
<1>7. \A i \in 0..upper_voices' - 1 : Silenced(voice'[i])
  BY <1>1
<1> QED
  BY <1>1, <1>4, <1>6, <1>7, PreserveNothing
(* reset_midi(0): every voice is free, upper_voices is 0. *)
LEMMA ResetStep ==
  ASSUME VoicesAssumption, ByteAssumption, Bounded, ResetVoices,
         voices' \in 0..MaxVoices, old_voices' \in 0..MaxVoices,
         work.op = "none", pc' = "play", UNCHANGED <<setup, work>>
  PROVE  Keeps
<1>1. /\ MaxVoices \in Nat /\ Slots \subseteq Nat /\ voices' \in Nat
      /\ \A u \in 0..MaxVoices : \A i \in 0..u - 1 : i \in Slots
  BY SlotFacts
<1>2. \A i \in Slots : LinkTo(i) \in Slots /\ (NarrowPool => LinkTo(i) = i)
  BY LinkToFacts DEF NarrowPool
<1>3. /\ upper_voices' = 0 /\ cleared' = {} /\ NoVids
      /\ channel' \in [Channels -> Replayed]
      /\ chorus_link' = [i \in Slots |-> LinkTo(i)]
      /\ voice' = [i \in Slots |-> [voice[i] EXCEPT !.status = "free"]]
  BY DEF ResetVoices
<1>4. Turned /\ \A i \in Slots : voice'[i].status = "free"
  <2>1. voice' = [i \in Slots |->
          IF i \in Slots THEN [voice[i] EXCEPT !.status = "free"] ELSE voice[i]]
    BY <1>3
  <2> QED
    BY <2>1, FreeFacts
<1>5. chorus_link' \in [Slots -> Slots]
  BY <1>2, <1>3
<1>6. Typed'
  <2>1. vidq_head' \in [Keys -> 0..ByteMod - 1] /\ vidq_tail' \in [Keys -> 0..ByteMod - 1]
    BY <1>3, NoVidsFacts
  <2>2. channel' \in [Channels -> Channel]
    <3>1. Replayed \subseteq Channel
      BY DEF Replayed
    <3> HIDE DEF Replayed
    <3> QED
      BY <1>3, <3>1
  <2>3. upper_voices' \in 0..MaxVoices /\ cleared' \subseteq Channels
    BY <1>1, <1>3
  <2> QED
    BY <1>4, <1>5, <2>1, <2>2, <2>3 DEF Bounded, Typed, Turned
<1>7. Silent'
  <2>1. \A i \in 0..voices' - 1 : i \in Slots
    BY <1>1
  <2> QED
    BY <1>3, <1>4, <2>1 DEF Silent
<1>8. Loops'
  <2>1. 0 <= voices'
    BY <1>1
  <2> QED
    BY <1>3, <2>1 DEF Loops
<1>9. NarrowPool => Joined'
  BY <1>2, <1>3 DEF Joined, Paired
<1>10. \A i \in 0..upper_voices' - 1 : Silenced(voice'[i])
  BY <1>3
<1> QED
  BY <1>6, <1>7, <1>8, <1>9, <1>10, PreserveNothing DEF Bounded

LEMMA RestartStep ==
  ASSUME VoicesAssumption, ByteAssumption, Bounded, Restart
  PROVE  Keeps
<1>1. /\ ResetVoices /\ work.op = "none" /\ pc' = "play" /\ UNCHANGED <<setup, work>>
      /\ voices' \in 0..MaxVoices /\ old_voices' \in 0..MaxVoices
  BY DEF Restart, Ready, sizeVars, Bounded, Typed
<1> QED
  BY <1>1, ResetStep

-----------------------------------------------------------------------------
(* The polyphony *)

(* Voices are taken away or handed on, the notes and pedals stay. *)
Handed ==
  \A i \in 0..upper_voices' - 1 :
    Silenced(voice'[i]) \/ \E j \in 0..upper_voices - 1 : voice'[i] = voice[j]

LEMMA HandedStep ==
  ASSUME Bounded', Handed, UNCHANGED <<setup, channel, cleared, vidq_head, vidq_tail>>,
         NarrowPool /\ Single /\ Joined => Joined'
  PROVE  Keeps
<1>1. \A j \in 0..upper_voices - 1 : Heir(voice[j], voice[j])
  BY DEF Heir
<1>2. Inherits
  BY <1>1 DEF Handed, Inherits
<1>3. \A i \in 0..upper_voices' - 1 : voice'[i].status = "sustained" =>
        \E j \in 0..upper_voices - 1 :
          voice[j].status = "sustained" /\ voice[j].ch = voice'[i].ch
  BY DEF Handed, Silenced
<1> QED
  BY <1>2, <1>3, PreservePlain

(* voice_increment() *)
LEMMA FreshStep ==
  ASSUME VoicesAssumption, ByteAssumption, Bounded, NEW hi, hi \in voices..MaxVoices,
         Fresh(voices, hi), upper_voices <= voices, upper_voices' \in 0..upper_voices,
         \A i \in upper_voices'..upper_voices - 1 : voice'[i].status = "free",
         old_voices' \in 0..MaxVoices,
         UNCHANGED <<setup, channel, cleared, vidq_head, vidq_tail, pc>>,
         work'.op = "none",
         work' \in [op: {"none", "reduce", "conserve", "decrement"},
                    n: 0..MaxVoices, target: 0..MaxVoices],
         ~(Single /\ Joined)
  PROVE  Keeps
<1>1. /\ MaxVoices \in Nat /\ Slots \subseteq Nat /\ voices \in 0..MaxVoices
      /\ upper_voices \in 0..MaxVoices
      /\ \A i \in 0..upper_voices - 1 : i \in Slots
      /\ \A i \in upper_voices..voices - 1 : i \in Slots /\ voice[i].status = "free"
  BY BoundedFacts
<1>2. /\ \A u \in 0..MaxVoices : \A i \in 0..u - 1 : i \in Slots
      /\ \A i \in Slots : LinkTo(i) \in Slots
  BY SlotFacts, LinkToFacts
<1> DEFINE R == voices..hi - 1
<1>3. /\ voice' = [i \in Slots |->
           IF i \in R THEN [voice[i] EXCEPT !.status = "free"] ELSE voice[i]]
      /\ chorus_link' = [i \in Slots |-> IF i \in R THEN LinkTo(i) ELSE chorus_link[i]]
      /\ voices' = hi
  BY DEF Fresh
<1>4. hi \in 0..MaxVoices /\ voices' \in 0..MaxVoices
      /\ upper_voices' \in 0..MaxVoices /\ upper_voices' <= voices'
  BY <1>1, <1>3
<1> HIDE DEF R
<1>5. /\ Turned
      /\ \A i \in Slots :
           /\ i \in R => voice'[i].status = "free"
           /\ i \notin R => voice'[i] = voice[i]
  BY <1>3, FreeFacts
<1>6. chorus_link' \in [Slots -> Slots]
  <2>1. chorus_link \in [Slots -> Slots]
    BY DEF Bounded, Typed
  <2> QED
    BY <1>2, <1>3, <2>1
<1>7. Typed'
  BY <1>4, <1>5, <1>6 DEF Bounded, Typed, Turned
<1>8. Silent'
  <2> SUFFICES ASSUME NEW i \in upper_voices'..hi - 1
               PROVE  voice'[i].status = "free"
    BY <1>3 DEF Silent
  <2>1. \/ i \in upper_voices'..upper_voices - 1
        \/ i \in upper_voices..voices - 1
        \/ i \in R
    BY <1>1, <1>4 DEF R
  <2>2. i \in Slots
    <3>1. i \in 0..hi - 1
      BY <1>1
    <3> QED
      BY <1>2, <1>4, <3>1
  <2>3. CASE i \in upper_voices..voices - 1
    BY <1>1, <1>5, <2>2, <2>3
  <2> QED
    BY <1>5, <2>1, <2>2, <2>3
<1>9. Loops'
  BY <1>4 DEF Loops
<1>10. Handed
  <2> SUFFICES ASSUME NEW i \in 0..upper_voices' - 1
               PROVE  i \in 0..upper_voices - 1 /\ (Silenced(voice'[i]) \/ voice'[i] = voice[i])
    BY DEF Handed
  <2>1. i \in 0..upper_voices - 1
    <3>1. \A a \in Nat : \A b \in 0..a : \A j \in 0..b - 1 : j \in 0..a - 1
      OBVIOUS
    <3>2. upper_voices \in Nat
      BY BoundedFacts
    <3> QED
      BY <3>1, <3>2
  <2>2. i \in Slots
    BY <1>1, <2>1
  <2> QED
    BY <1>5, <2>1, <2>2 DEF Silenced
<1> QED
  BY <1>7, <1>8, <1>9, <1>10, HandedStep DEF Bounded
LEMMA SingleFacts ==
  /\ Single => ~Occurs("tune") /\ ~Occurs("polyphony")
  /\ Joined => work.op = "none"
BY DEF Single, Joined, Occurs

LEMMA SetupFacts ==
  ASSUME Bounded
  PROVE  /\ setup.voices \in 1..MaxVoices /\ setup.notes \subseteq Notes
         /\ setup.pending \in Nat /\ setup \in Setups
<1>1. setup \in Setup /\ setup \in Setups
  BY SetupsAssumption DEF Bounded, Typed
<1> QED
  BY <1>1 DEF Setup

(* compute_data() and restore_voices(): a loop begins, the pool stays. *)
LEMMA BeginStep ==
  ASSUME Bounded,
         UNCHANGED <<setup, voice, chorus_link, upper_voices, voices, vidq_head, vidq_tail,
                     channel, cleared, pc>>,
         old_voices' \in 0..MaxVoices,
         work' \in [op: {"none", "reduce", "conserve", "decrement"},
                    n: 0..MaxVoices, target: 0..MaxVoices],
         Loops', ~(Single /\ Joined)
  PROVE  Keeps
<1>1. Typed'
  BY DEF Bounded, Typed
<1>2. Silent'
  BY DEF Bounded, Silent
<1>3. Handed
  BY DEF Handed
<1> QED
  BY <1>1, <1>2, <1>3, HandedStep DEF Bounded

LEMMA TuneStep ==
  ASSUME VoicesAssumption, ByteAssumption, Bounded, Tune
  PROVE  Keeps
<1>1. /\ UNCHANGED <<setup, voice, chorus_link, upper_voices, voices, old_voices, vidq_head,
                     vidq_tail, channel, cleared, pc>>
      /\ work.op = "none" /\ ~Single
  BY SingleFacts DEF Tune, Ready, poolVars, sizeVars, vidVars, chanVars
<1>2. PICK kill \in 0..Cardinality(Live(Pool)) :
        work' = [op |-> "reduce", n |-> kill, target |-> 0]
  BY DEF Tune
<1>3. Cardinality(Live(Pool)) \in 0..MaxVoices
  <2>1. upper_voices \in 0..MaxVoices /\ MaxVoices \in Nat
    BY BoundedFacts
  <2>2. IsFiniteSet(0..upper_voices - 1) /\ Cardinality(0..upper_voices - 1) = upper_voices
    <3>1. 0 \in Int /\ upper_voices - 1 \in Int
      BY <2>1
    <3>2. /\ IsFiniteSet(0..upper_voices - 1)
          /\ Cardinality(0..upper_voices - 1) =
               IF 0 > upper_voices - 1 THEN 0 ELSE upper_voices - 1 - 0 + 1
      BY <3>1, FS_Interval
    <3> QED
      BY <2>1, <3>2
  <2>3. Live(Pool) \in SUBSET (0..upper_voices - 1)
    BY DEF Live, Pool
  <2>4. IsFiniteSet(Live(Pool)) /\ Cardinality(Live(Pool)) <= upper_voices
    BY <2>2, <2>3, FS_Subset
  <2>5. Cardinality(Live(Pool)) \in Nat
    BY <2>4, FS_CardinalityType
  <2> QED
    BY <2>1, <2>4, <2>5
<1>4. kill \in 0..MaxVoices /\ 0 \in 0..MaxVoices
  <2>1. \A a \in 0..MaxVoices : \A b \in 0..a : b \in 0..MaxVoices
    BY DEF VoicesAssumption
  <2>2. 0 \in 0..MaxVoices
    BY DEF VoicesAssumption
  <2> QED
    BY <1>2, <1>3, <2>1, <2>2
<1>5. work' \in [op: {"none", "reduce", "conserve", "decrement"},
                 n: 0..MaxVoices, target: 0..MaxVoices]
  BY <1>2, <1>4
<1>6. Loops'
  BY <1>1, <1>2 DEF Bounded, Loops
<1>7. old_voices' \in 0..MaxVoices
  BY <1>1 DEF Bounded, Typed
<1> QED
  BY <1>1, <1>5, <1>6, <1>7, BeginStep

LEMMA PoolOfBounded ==
  ASSUME Bounded
  PROVE  /\ Pool \in Pools /\ Pool.voice = voice /\ Pool.link = chorus_link
         /\ Pool.upper = upper_voices
BY DEF Bounded, Typed, Pool, Pools

LEMMA ReduceStep ==
  ASSUME VoicesAssumption, ByteAssumption, Bounded, Reduce
  PROVE  Keeps
<1>1. /\ UNCHANGED <<setup, voices, old_voices, vidq_head, vidq_tail, channel, cleared, pc>>
      /\ work.op = "reduce" /\ work.n > 0 /\ work' = [work EXCEPT !.n = @ - 1]
      /\ \E r \in ReduceVoice(Pool) : Becomes(r.pool)
  BY DEF Reduce, sizeVars, vidVars, chanVars
<1>2. PICK v \in Victims(Pool) : Becomes(FreeVoice(Pool, v))
  BY <1>1 DEF ReduceVoice
<1>3. /\ Pool \in Pools /\ Pool.voice = voice /\ Pool.link = chorus_link
      /\ Pool.upper = upper_voices
  BY PoolOfBounded
<1>4. v \in Slots
  BY <1>3, VictimsFacts
<1> DEFINE q == FreeVoice(Pool, v)
<1>5. /\ q \in Pools /\ q.upper = Pool.upper
      /\ \A i \in Slots : i # v => q.voice[i] = Pool.voice[i]
      /\ q.voice[v].status = "free"
  BY <1>3, <1>4, FreeVoiceFacts
<1>6. voice' = q.voice /\ chorus_link' = q.link /\ upper_voices' = q.upper
  BY <1>2 DEF Becomes
<1>7. q.voice \in [Slots -> Voice] /\ q.link \in [Slots -> Slots]
  BY <1>5, PoolFacts
<1> HIDE DEF q
<1>8. /\ voice' \in [Slots -> Voice] /\ chorus_link' \in [Slots -> Slots]
      /\ upper_voices' = upper_voices
      /\ \A i \in Slots : voice'[i].status = "free" \/ voice'[i] = voice[i]
  BY <1>3, <1>5, <1>6, <1>7
<1>9. /\ work' \in [op: {"none", "reduce", "conserve", "decrement"},
                    n: 0..MaxVoices, target: 0..MaxVoices]
      /\ work'.op = "reduce"
  <2>1. work \in [op: {"none", "reduce", "conserve", "decrement"},
                  n: 0..MaxVoices, target: 0..MaxVoices]
    BY DEF Bounded, Typed
  <2>2. work.n - 1 \in 0..MaxVoices
    BY <1>1, <2>1 DEF VoicesAssumption
  <2> QED
    BY <1>1, <2>1, <2>2
<1>10. Typed'
  BY <1>1, <1>8, <1>9 DEF Bounded, Typed
<1>11. Silent'
  <2>1. \A i \in upper_voices..voices - 1 : i \in Slots /\ voice[i].status = "free"
    BY BoundedFacts
  <2> QED
    BY <1>1, <1>8, <2>1 DEF Silent
<1>12. Loops'
  BY <1>1, <1>8, <1>9 DEF Bounded, Loops
<1>13. Handed
  <2>1. \A i \in 0..upper_voices - 1 : i \in Slots
    BY BoundedFacts
  <2> QED
    BY <1>8, <2>1 DEF Handed, Silenced
<1>14. ~Joined
  BY <1>1, SingleFacts
<1> QED
  BY <1>1, <1>10, <1>11, <1>12, <1>13, <1>14, HandedStep DEF Bounded
LEMMA ResizeStep ==
  ASSUME VoicesAssumption, ByteAssumption, Bounded, Resize
  PROVE  Keeps
<1>1. /\ UNCHANGED <<setup, old_voices, vidq_head, vidq_tail, channel, cleared, pc>>
      /\ work.op = "reduce" /\ upper_voices <= voices /\ ~Joined
      /\ old_voices' \in 0..MaxVoices
  BY SingleFacts DEF Resize, vidVars, chanVars, Bounded, Loops, Typed
<1>2. /\ MaxVoices \in Nat /\ voices \in 0..MaxVoices /\ upper_voices \in 0..MaxVoices
      /\ setup.voices \in 1..MaxVoices
  BY BoundedFacts, SetupFacts
<1>3. ASSUME NEW target \in 0..voices - 1,
             work' = [op |-> "conserve", n |-> voices - target, target |-> target],
             UNCHANGED <<voice, chorus_link, upper_voices, voices>>
      PROVE  Keeps
  <2>1. /\ voices - target \in 0..MaxVoices /\ target \in 0..MaxVoices
        /\ target + (voices - target) = voices
    BY <1>2
  <2>2. work' \in [op: {"none", "reduce", "conserve", "decrement"},
                   n: 0..MaxVoices, target: 0..MaxVoices]
    BY <1>3, <2>1
  <2>3. Loops'
    BY <1>3, <2>1 DEF Loops
  <2> QED
    BY <1>1, <1>3, <2>2, <2>3, BeginStep
<1>4. ASSUME NEW target \in voices..setup.voices, Fresh(voices, target),
             upper_voices' = Top(voice', upper_voices), work' = Idle
      PROVE  Keeps
  <2>1. target \in voices..MaxVoices
    BY <1>2
  <2>2. /\ upper_voices' \in 0..upper_voices
        /\ \A i \in upper_voices'..upper_voices - 1 : voice'[i].status = "free"
    <3> DEFINE vs == voice'
    <3>1. /\ Top(vs, upper_voices) \in 0..upper_voices
          /\ \A i \in Top(vs, upper_voices)..upper_voices - 1 : vs[i].status = "free"
      <4> HIDE DEF vs
      <4> QED
        BY <1>2, TopFacts
    <3> QED
      BY <1>4, <3>1
  <2>3. /\ work'.op = "none"
        /\ work' \in [op: {"none", "reduce", "conserve", "decrement"},
                      n: 0..MaxVoices, target: 0..MaxVoices]
    BY <1>2, <1>4 DEF Idle
  <2> QED
    BY <1>1, <1>4, <2>1, <2>2, <2>3, FreshStep
<1>5. \/ \E target \in 0..voices - 1 :
           /\ work' = [op |-> "conserve", n |-> voices - target, target |-> target]
           /\ UNCHANGED <<voice, chorus_link, upper_voices, voices>>
      \/ \E target \in voices..setup.voices :
           /\ Fresh(voices, target)
           /\ upper_voices' = Top(voice', upper_voices)
           /\ work' = Idle
  BY DEF Resize, poolVars
<1> QED
  BY <1>3, <1>4, <1>5

LEMMA RestoreVoicesStep ==
  ASSUME VoicesAssumption, ByteAssumption, Bounded, RestoreVoices
  PROVE  Keeps
<1>1. /\ UNCHANGED <<setup, upper_voices, old_voices, vidq_head, vidq_tail, channel, cleared, pc>>
      /\ work.op = "none" /\ upper_voices <= voices /\ ~Single
      /\ old_voices \in 0..MaxVoices /\ old_voices' \in 0..MaxVoices
      /\ work \in [op: {"none", "reduce", "conserve", "decrement"},
                   n: 0..MaxVoices, target: 0..MaxVoices]
  BY SingleFacts DEF RestoreVoices, Ready, vidVars, chanVars, Bounded, Loops, Typed
<1>2. /\ MaxVoices \in Nat /\ voices \in 0..MaxVoices /\ upper_voices \in 0..MaxVoices
  BY BoundedFacts
<1>3. ASSUME voices < old_voices, Fresh(voices, old_voices), work' = work
      PROVE  Keeps
  <2>1. old_voices \in voices..MaxVoices
    BY <1>1, <1>2, <1>3
  <2>2. /\ upper_voices' \in 0..upper_voices
        /\ \A i \in upper_voices'..upper_voices - 1 : voice'[i].status = "free"
    BY <1>1, <1>2
  <2> QED
    BY <1>1, <1>3, <2>1, <2>2, FreshStep
<1>4. ASSUME voices > old_voices,
             work' = [op |-> "decrement", n |-> voices - old_voices, target |-> 0],
             UNCHANGED <<voice, chorus_link, voices>>
      PROVE  Keeps
  <2>1. voices - old_voices \in 0..MaxVoices /\ 0 \in 0..MaxVoices
    BY <1>1, <1>2, <1>4
  <2>2. /\ work' \in [op: {"none", "reduce", "conserve", "decrement"},
                      n: 0..MaxVoices, target: 0..MaxVoices]
        /\ Loops'
    BY <1>4, <2>1 DEF Loops
  <2> QED
    BY <1>1, <1>4, <2>2, BeginStep
<1> QED
  BY <1>3, <1>4 DEF RestoreVoices

LEMMA VoiceIncrementStep ==
  ASSUME VoicesAssumption, ByteAssumption, Bounded, VoiceIncrement
  PROVE  Keeps
<1>1. /\ UNCHANGED <<setup, work>>
      /\ work.op = "none" /\ upper_voices <= voices /\ ~Single
      /\ old_voices' = voices + 1 /\ voices < setup.voices
      /\ work \in [op: {"none", "reduce", "conserve", "decrement"},
                   n: 0..MaxVoices, target: 0..MaxVoices]
  BY SingleFacts DEF VoiceIncrement, Ready, Bounded, Loops, Typed
<1>2. /\ MaxVoices \in Nat /\ voices \in 0..MaxVoices /\ upper_voices \in 0..MaxVoices
      /\ setup.voices \in 1..MaxVoices
  BY BoundedFacts, SetupFacts
<1>3. voices + 1 \in voices..MaxVoices /\ voices + 1 \in 0..MaxVoices
  BY <1>1, <1>2
<1>4. ASSUME Fresh(voices, voices + 1), UNCHANGED <<upper_voices, vidVars, chanVars, pc>>
      PROVE  Keeps
  <2>1. /\ upper_voices' \in 0..upper_voices
        /\ \A i \in upper_voices'..upper_voices - 1 : voice'[i].status = "free"
    BY <1>2, <1>4
  <2>2. UNCHANGED <<setup, channel, cleared, vidq_head, vidq_tail, pc>>
    BY <1>1, <1>4 DEF vidVars, chanVars
  <2>3. work'.op = "none" /\ old_voices' \in 0..MaxVoices
        /\ work' \in [op: {"none", "reduce", "conserve", "decrement"},
                      n: 0..MaxVoices, target: 0..MaxVoices]
    BY <1>1, <1>3
  <2> DEFINE hi == voices + 1
  <2>4. Fresh(voices, hi) /\ hi \in voices..MaxVoices
    BY <1>3, <1>4
  <2> HIDE DEF hi
  <2> QED
    BY <1>1, <2>1, <2>2, <2>3, <2>4, FreshStep
<1>5. ASSUME voices' = voices + 1, ResetVoices, pc' = "play"
      PROVE  Keeps
  BY <1>1, <1>3, <1>5, ResetStep
<1> QED
  BY <1>4, <1>5 DEF VoiceIncrement

LEMMA VoiceDecrementStep ==
  ASSUME VoicesAssumption, ByteAssumption, Bounded, VoiceDecrement
  PROVE  Keeps
<1>1. /\ UNCHANGED setup
      /\ work.op = "none" /\ ~Single
      /\ old_voices' = voices - 1 /\ voices > 0
  BY SingleFacts DEF VoiceDecrement, Ready
<1>2. MaxVoices \in Nat /\ voices \in 0..MaxVoices
  BY BoundedFacts
<1>3. voices - 1 \in 0..MaxVoices /\ 0 \in 0..MaxVoices /\ 1 \in 0..MaxVoices
  BY <1>1, <1>2
<1>4. ASSUME voices' = voices - 1, ResetVoices, pc' = "play", work' = work
      PROVE  Keeps
  BY <1>1, <1>3, <1>4, ResetStep
<1>5. ASSUME work' = [op |-> "decrement", n |-> 1, target |-> 0],
             UNCHANGED <<poolVars, voices, vidVars, chanVars, pc>>
      PROVE  Keeps
  <2>1. UNCHANGED <<setup, voice, chorus_link, upper_voices, voices, vidq_head, vidq_tail,
                    channel, cleared, pc>>
    BY <1>1, <1>5 DEF poolVars, vidVars, chanVars
  <2>2. /\ work' \in [op: {"none", "reduce", "conserve", "decrement"},
                      n: 0..MaxVoices, target: 0..MaxVoices]
        /\ Loops' /\ old_voices' \in 0..MaxVoices
    BY <1>1, <1>3, <1>5 DEF Loops
  <2> QED
    BY <1>1, <2>1, <2>2, BeginStep
<1> QED
  BY <1>4, <1>5 DEF VoiceDecrement
(* voice[to] = voice[from] *)
LEMMA MovedFacts ==
  ASSUME NEW p \in Pools, NEW to \in Slots, NEW from \in Slots
  PROVE  LET q == Moved(p, to, from)
         IN  /\ q \in Pools /\ q.upper = p.upper /\ q.voice[to] = p.voice[from]
             /\ \A i \in Slots : i # to => q.voice[i] = p.voice[i]
<1> DEFINE q == Moved(p, to, from)
<1>1. /\ p = [voice |-> p.voice, link |-> p.link, upper |-> p.upper]
      /\ p.voice \in [Slots -> Voice] /\ p.link \in [Slots -> Slots]
      /\ p.upper \in 0..MaxVoices
  BY PoolFacts
<1>2. q = [p EXCEPT !.voice = [p.voice EXCEPT ![to] = p.voice[from]],
                    !.link = [p.link EXCEPT ![to] = p.link[from]]]
  BY DEF Moved
<1> HIDE DEF q
<1>3. /\ q = [voice |-> q.voice, link |-> q.link, upper |-> q.upper]
      /\ q.voice = [p.voice EXCEPT ![to] = p.voice[from]]
      /\ q.link = [p.link EXCEPT ![to] = p.link[from]]
      /\ q.upper = p.upper
  BY <1>1, <1>2
<1>4. q.voice \in [Slots -> Voice] /\ q.link \in [Slots -> Slots]
  BY <1>1, <1>3
<1>5. q \in Pools
  BY <1>1, <1>3, <1>4 DEF Pools
<1>6. q.voice[to] = p.voice[from] /\ \A i \in Slots : i # to => q.voice[i] = p.voice[i]
  BY <1>1, <1>3
<1> QED
  BY <1>3, <1>5, <1>6 DEF q

(* A round of the loops that shrink the polyphony leaves the pool, or      *)
(* hands the topmost voice on to a place below it.                         *)
Shifted(last) ==
  \/ \A i \in Slots : voice'[i] = voice[i]
  \/ /\ voice[last].status # "free"
     /\ \A i \in Slots : \/ voice'[i].status = "free"
                         \/ voice'[i] = voice[i] \/ voice'[i] = voice[last]

LEMMA MoveFacts ==
  ASSUME VoicesAssumption, ByteAssumption, Bounded, voices > 0,
         NEW to \in 0..voices - 1, voice[voices - 1].status # "free",
         \/ Becomes(Moved(Pool, to, voices - 1))
         \/ Becomes(Moved(FreeVoice(Pool, to), to, voices - 1))
  PROVE  /\ Shifted(voices - 1) /\ upper_voices' = upper_voices
         /\ voice' \in [Slots -> Voice] /\ chorus_link' \in [Slots -> Slots]
<1> DEFINE last == voices - 1
<1>1. to \in Slots /\ last \in Slots
  <2>1. last \in 0..voices - 1
    BY BoundedFacts
  <2> HIDE DEF last
  <2> QED
    BY <2>1, BoundedFacts
<1>2. voice[last].status # "free"
  OBVIOUS
<1>3. \/ Becomes(Moved(Pool, to, last))
      \/ Becomes(Moved(FreeVoice(Pool, to), to, last))
  OBVIOUS
<1> HIDE DEF last
<1>4. /\ Pool \in Pools /\ Pool.voice = voice /\ Pool.link = chorus_link
      /\ Pool.upper = upper_voices
  BY PoolOfBounded
<1> DEFINE f == FreeVoice(Pool, to)
<1>5. /\ f \in Pools /\ f.upper = Pool.upper
      /\ \A i \in Slots : i # to => f.voice[i] = Pool.voice[i]
      /\ f.voice[to].status = "free"
  BY <1>1, <1>4, FreeVoiceFacts
<1>6. PICK p \in {Pool, f} : Becomes(Moved(p, to, last))
  BY <1>3
<1> HIDE DEF f
<1>7. /\ p \in Pools /\ p.upper = upper_voices
      /\ \A i \in Slots : i # to => p.voice[i] = voice[i]
      /\ p.voice[to].status = "free" \/ p.voice[to] = voice[to]
  BY <1>4, <1>5, <1>6
<1> DEFINE q == Moved(p, to, last)
<1>8. /\ q \in Pools /\ q.upper = p.upper /\ q.voice[to] = p.voice[last]
      /\ \A i \in Slots : i # to => q.voice[i] = p.voice[i]
  BY <1>1, <1>7, MovedFacts
<1>9. voice' = q.voice /\ chorus_link' = q.link /\ upper_voices' = q.upper
  BY <1>6 DEF Becomes
<1> HIDE DEF q
<1>10. voice' \in [Slots -> Voice] /\ chorus_link' \in [Slots -> Slots]
  BY <1>8, <1>9, PoolFacts
<1>11. p.voice[last].status = "free" \/ p.voice[last] = voice[last]
  BY <1>1, <1>7
<1>12. \A i \in Slots : \/ voice'[i].status = "free"
                        \/ voice'[i] = voice[i] \/ voice'[i] = voice[last]
  BY <1>7, <1>8, <1>9, <1>11
<1>13. Shifted(last)
  BY <1>2, <1>12 DEF Shifted
<1> QED
  BY <1>7, <1>8, <1>9, <1>10, <1>13 DEF last

LEMMA RoundStep ==
  ASSUME VoicesAssumption, ByteAssumption, Bounded, voices > 0,
         work.op \in {"conserve", "decrement"}, work.n > 0,
         work' = [work EXCEPT !.n = @ - 1], voices' = voices - 1,
         Shifted(voices - 1), upper_voices' = upper_voices,
         voice' \in [Slots -> Voice], chorus_link' \in [Slots -> Slots],
         UNCHANGED <<setup, old_voices, vidq_head, vidq_tail, channel, cleared, pc>>
  PROVE  Keeps
<1>1. /\ MaxVoices \in Nat /\ voices \in 0..MaxVoices /\ upper_voices \in 0..MaxVoices
      /\ \A i \in 0..upper_voices - 1 : i \in Slots
      /\ \A i \in upper_voices..voices - 1 : i \in Slots /\ voice[i].status = "free"
  BY BoundedFacts
<1>2. /\ work' \in [op: {"none", "reduce", "conserve", "decrement"},
                    n: 0..MaxVoices, target: 0..MaxVoices]
      /\ work'.op = work.op /\ work'.n = work.n - 1 /\ work'.target = work.target
      /\ work.n \in Nat /\ work.target \in Nat
  <2>1. work \in [op: {"none", "reduce", "conserve", "decrement"},
                  n: 0..MaxVoices, target: 0..MaxVoices]
    BY DEF Bounded, Typed
  <2>2. work.n - 1 \in 0..MaxVoices
    BY <1>1, <2>1
  <2>3. work.n \in Nat /\ work.target \in Nat
    BY <1>1, <2>1
  <2> QED
    BY <2>1, <2>2, <2>3
<1>3. voices' \in 0..MaxVoices
  BY <1>1
<1>4. Typed'
  BY <1>2, <1>3 DEF Bounded, Typed
<1>5. voice[voices - 1].status # "free" => voices - 1 \in 0..upper_voices - 1
  <2>1. voices - 1 \in 0..upper_voices - 1 \/ voices - 1 \in upper_voices..voices - 1
    BY <1>1
  <2> DEFINE last == voices - 1
  <2> HIDE DEF last
  <2>2. last \in upper_voices..voices - 1 => voice[last].status = "free"
    BY <1>1
  <2> QED
    BY <2>1, <2>2 DEF last
<1>6. Silent'
  <2> SUFFICES ASSUME NEW i \in upper_voices..voices - 1 - 1
               PROVE  voice'[i].status = "free"
    BY DEF Silent
  <2>1. i \in upper_voices..voices - 1 /\ ~(voices - 1 \in 0..upper_voices - 1)
    BY <1>1
  <2>2. i \in Slots /\ voice[i].status = "free"
    BY <1>1, <2>1
  <2>3. voice'[i] = voice[i]
    BY <1>5, <2>1, <2>2 DEF Shifted
  <2> QED
    BY <2>2, <2>3
<1>7. Loops'
  <2>1. work.op = "conserve" => work.target + work.n = voices
    BY DEF Bounded, Loops
  <2>2. work.op = "conserve" => work.target + (work.n - 1) = voices - 1
    BY <1>1, <1>2, <2>1
  <2> QED
    BY <1>2, <2>2 DEF Loops
<1>8. Handed
  <2> DEFINE last == voices - 1
  <2>1. Shifted(last) /\ (voice[last].status # "free" => last \in 0..upper_voices - 1)
    BY <1>5
  <2> HIDE DEF last
  <2> SUFFICES ASSUME NEW i \in 0..upper_voices - 1
               PROVE  Silenced(voice'[i]) \/ \E j \in 0..upper_voices - 1 : voice'[i] = voice[j]
    BY DEF Handed
  <2>2. i \in Slots
    BY <1>1
  <2> QED
    BY <2>1, <2>2 DEF Shifted, Silenced
<1>9. ~Joined
  BY SingleFacts
<1> QED
  BY <1>4, <1>6, <1>7, <1>8, <1>9, HandedStep DEF Bounded

LEMMA ConserveStep ==
  ASSUME VoicesAssumption, ByteAssumption, Bounded, Conserve
  PROVE  Keeps
<1> DEFINE last == voices - 1
           free == {j \in 0..work.target - 1 : voice[j].status = "free"}
<1>1. /\ UNCHANGED <<setup, old_voices, vidq_head, vidq_tail, channel, cleared, pc>>
      /\ work.op = "conserve" /\ work.n > 0 /\ voices > 0 /\ voices' = last
      /\ work' = [work EXCEPT !.n = @ - 1]
      /\ \/ UNCHANGED poolVars
         \/ /\ voice[last].status # "free" /\ free # {}
            /\ Becomes(Moved(Pool, Least(free), last))
         \/ /\ voice[last].status # "free"
            /\ \E v \in 0..last : Becomes(Moved(FreeVoice(Pool, v), v, last))
  BY DEF Conserve, vidVars, chanVars
<1>2. /\ MaxVoices \in Nat /\ voices \in 0..MaxVoices
      /\ work.n \in Nat /\ work.target \in Nat /\ work.target + work.n = voices
  <2>1. work \in [op: {"none", "reduce", "conserve", "decrement"},
                  n: 0..MaxVoices, target: 0..MaxVoices] /\ MaxVoices \in Nat
    BY BoundedFacts DEF Bounded, Typed
  <2>2. work.n \in Nat /\ work.target \in Nat
    BY <2>1
  <2> QED
    BY <1>1, <2>1, <2>2, BoundedFacts DEF Bounded, Loops
<1>3. free # {} => Least(free) \in 0..voices - 1
  <2>1. free \in SUBSET Nat /\ \A j \in free : j \in 0..voices - 1
    BY <1>1, <1>2
  <2> HIDE DEF free
  <2> QED
    BY <2>1, LeastFacts
<1> HIDE DEF free
<1>4. /\ Shifted(voices - 1) /\ upper_voices' = upper_voices
      /\ voice' \in [Slots -> Voice] /\ chorus_link' \in [Slots -> Slots]
  <2>1. CASE UNCHANGED poolVars
    BY <2>1 DEF poolVars, Shifted, Bounded, Typed
  <2>2. ASSUME voice[last].status # "free", free # {}, Becomes(Moved(Pool, Least(free), last))
        PROVE  /\ Shifted(voices - 1) /\ upper_voices' = upper_voices
               /\ voice' \in [Slots -> Voice] /\ chorus_link' \in [Slots -> Slots]
    BY <1>1, <1>3, <2>2, MoveFacts
  <2>3. ASSUME voice[last].status # "free", NEW v \in 0..last,
               Becomes(Moved(FreeVoice(Pool, v), v, last))
        PROVE  /\ Shifted(voices - 1) /\ upper_voices' = upper_voices
               /\ voice' \in [Slots -> Voice] /\ chorus_link' \in [Slots -> Slots]
    BY <1>1, <2>3, MoveFacts
  <2> QED
    BY <1>1, <2>1, <2>2, <2>3
<1> QED
  BY <1>1, <1>4, RoundStep

LEMMA DecrementStep ==
  ASSUME VoicesAssumption, ByteAssumption, Bounded, Decrement
  PROVE  Keeps
<1> DEFINE last == voices - 1
           free == {j \in 0..last - 1 : voice[j].status = "free"}
<1>1. /\ UNCHANGED <<setup, old_voices, vidq_head, vidq_tail, channel, cleared, pc>>
      /\ work.op = "decrement" /\ work.n > 0 /\ voices > 0 /\ voices' = last
      /\ work' = [work EXCEPT !.n = @ - 1]
      /\ \/ UNCHANGED poolVars
         \/ /\ voice[last].status # "free" /\ free # {}
            /\ Becomes(Moved(Pool, Least(free), last))
         \/ /\ voice[last].status # "free"
            /\ \E v \in 0..last : Becomes(Moved(FreeVoice(Pool, v), v, last))
  BY DEF Decrement, vidVars, chanVars
<1>2. voices \in Nat
  BY BoundedFacts
<1>3. free # {} => Least(free) \in 0..voices - 1
  <2>1. free \in SUBSET Nat /\ \A j \in free : j \in 0..voices - 1
    BY <1>1, <1>2
  <2> HIDE DEF free
  <2> QED
    BY <2>1, LeastFacts
<1> HIDE DEF free
<1>4. /\ Shifted(voices - 1) /\ upper_voices' = upper_voices
      /\ voice' \in [Slots -> Voice] /\ chorus_link' \in [Slots -> Slots]
  <2>1. CASE UNCHANGED poolVars
    BY <2>1 DEF poolVars, Shifted, Bounded, Typed
  <2>2. ASSUME voice[last].status # "free", free # {}, Becomes(Moved(Pool, Least(free), last))
        PROVE  /\ Shifted(voices - 1) /\ upper_voices' = upper_voices
               /\ voice' \in [Slots -> Voice] /\ chorus_link' \in [Slots -> Slots]
    BY <1>1, <1>3, <2>2, MoveFacts
  <2>3. ASSUME voice[last].status # "free", NEW v \in 0..last,
               Becomes(Moved(FreeVoice(Pool, v), v, last))
        PROVE  /\ Shifted(voices - 1) /\ upper_voices' = upper_voices
               /\ voice' \in [Slots -> Voice] /\ chorus_link' \in [Slots -> Slots]
    BY <1>1, <2>3, MoveFacts
  <2> QED
    BY <1>1, <2>1, <2>2, <2>3
<1> QED
  BY <1>1, <1>4, RoundStep

(* The loops end: upper_voices is brought below the polyphony again. *)
LEMMA DoneStep ==
  ASSUME VoicesAssumption, Bounded, work.op \in {"conserve", "decrement"},
         upper_voices' \in 0..Lesser(upper_voices, voices),
         \A i \in upper_voices'..Lesser(upper_voices, voices) - 1 : voice[i].status = "free",
         work' = Idle,
         UNCHANGED <<setup, voice, chorus_link, voices, old_voices, vidq_head, vidq_tail,
                     channel, cleared, pc>>
  PROVE  Keeps
<1>1. /\ MaxVoices \in Nat /\ voices \in 0..MaxVoices /\ upper_voices \in 0..MaxVoices
      /\ \A i \in upper_voices..voices - 1 : i \in Slots /\ voice[i].status = "free"
  BY BoundedFacts
<1> DEFINE l == Lesser(upper_voices, voices)
<1>2. l = IF upper_voices <= voices THEN upper_voices ELSE voices
  BY DEF Lesser
<1>3. upper_voices' \in 0..l /\ \A i \in upper_voices'..l - 1 : voice[i].status = "free"
  OBVIOUS
<1> HIDE DEF l
<1>4. /\ upper_voices' \in 0..MaxVoices /\ upper_voices' <= voices
      /\ upper_voices' <= upper_voices
  BY <1>1, <1>2, <1>3
<1>5. work' \in [op: {"none", "reduce", "conserve", "decrement"},
                 n: 0..MaxVoices, target: 0..MaxVoices]
  BY <1>1 DEF Idle
<1>6. Typed'
  BY <1>4, <1>5 DEF Bounded, Typed
<1>7. Silent'
  <2> SUFFICES ASSUME NEW i \in upper_voices'..voices - 1
               PROVE  voice[i].status = "free"
    BY DEF Silent
  <2>1. i \in upper_voices'..l - 1 \/ i \in upper_voices..voices - 1
    BY <1>1, <1>2, <1>4
  <2> QED
    BY <1>1, <1>3, <2>1
<1>8. Loops'
  BY <1>4 DEF Loops, Idle
<1>9. Handed
  <2>1. \A i \in 0..upper_voices' - 1 : i \in 0..upper_voices - 1
    BY <1>1, <1>4
  <2> QED
    BY <2>1 DEF Handed
<1>10. ~Joined
  BY SingleFacts
<1> QED
  BY <1>6, <1>7, <1>8, <1>9, <1>10, HandedStep DEF Bounded

LEMMA ConserveDoneStep ==
  ASSUME VoicesAssumption, ByteAssumption, Bounded, ConserveDone
  PROVE  Keeps
<1>1. /\ UNCHANGED <<setup, voice, chorus_link, voices, old_voices, vidq_head, vidq_tail,
                     channel, cleared, pc>>
      /\ work.op = "conserve" /\ work' = Idle
      /\ upper_voices' = Top(voice, Lesser(upper_voices, voices))
  BY DEF ConserveDone, sizeVars, vidVars, chanVars
<1>2. MaxVoices \in Nat /\ Lesser(upper_voices, voices) \in 0..MaxVoices
  BY BoundedFacts DEF Lesser
<1> DEFINE l == Lesser(upper_voices, voices)
<1>3. /\ Top(voice, l) \in 0..l
      /\ \A i \in Top(voice, l)..l - 1 : voice[i].status = "free"
  <2> HIDE DEF l
  <2>1. l \in 0..MaxVoices
    BY <1>2 DEF l
  <2> QED
    BY <1>2, <2>1, TopFacts
<1>4. upper_voices' \in 0..l /\ \A i \in upper_voices'..l - 1 : voice[i].status = "free"
  BY <1>1, <1>3
<1> QED
  BY <1>1, <1>4, DoneStep

LEMMA DecrementDoneStep ==
  ASSUME VoicesAssumption, ByteAssumption, Bounded, DecrementDone
  PROVE  Keeps
<1>1. /\ UNCHANGED <<setup, voice, chorus_link, voices, old_voices, vidq_head, vidq_tail,
                     channel, cleared, pc>>
      /\ work.op = "decrement" /\ work' = Idle
      /\ upper_voices' = Lesser(upper_voices, voices)
  BY DEF DecrementDone, sizeVars, vidVars, chanVars
<1>2. Lesser(upper_voices, voices) \in Nat
  BY BoundedFacts DEF Lesser
<1>3. /\ upper_voices' \in 0..Lesser(upper_voices, voices)
      /\ \A i \in upper_voices'..Lesser(upper_voices, voices) - 1 : voice[i].status = "free"
  BY <1>1, <1>2
<1> QED
  BY <1>1, <1>3, DoneStep
-----------------------------------------------------------------------------
(* A note begins *)

LEMMA StartedFacts ==
  ASSUME VoicesAssumption, ByteAssumption, voices \in 0..MaxVoices,
         NEW p \in Pools, NEW v, Quiet(p), Reach(p, v),
         NEW c \in Channels, NEW n \in Notes, NEW vid \in 0..ByteMod - 1,
         NEW short \in BOOLEAN, NEW W, Sorted(p, c, n, vid, W),
         NEW q \in Started(p, v, c, n, vid, short)
  PROVE  /\ q \in Pools /\ Quiet(q) /\ p.upper <= q.upper
         /\ Sorted(q, c, n, vid, W \ {v})
         /\ Linked(p) /\ p.link[v] = v /\ FullBelow(p, v) => Linked(q)
<1> DEFINE s == Start(p, v, c, n, vid, short)
           X == W \ {v}
<1>1. /\ s \in Pools /\ Quiet(s) /\ s.upper = p.upper
      /\ Sorted(s, c, n, vid, X)
      /\ s.voice[v].status = "free" \/ Struck(s.voice[v], c, n, vid)
      /\ FullBelow(p, v) => FullBelow(s, v)
      /\ Linked(p) /\ p.link[v] = v => Linked(s) /\ s.link[v] = v
  BY StartFacts
<1>2. q \in Chorus(s, v)
  BY DEF Started
<1> HIDE DEF s, X
<1>3. Reach(s, v)
  BY <1>1 DEF Reach
<1>4. /\ q \in Pools /\ Quiet(q) /\ s.upper <= q.upper
      /\ Sorted(q, c, n, vid, X)
      /\ Linked(s) /\ s.link[v] = v /\ FullBelow(s, v) => Linked(q)
  BY <1>1, <1>2, <1>3, ChorusFacts
<1> QED
  BY <1>1, <1>4 DEF X

LEMMA ChosenFacts ==
  ASSUME NEW p, NEW c, NEW n, NEW vid, NEW W, Chosen(p, c, n, W)
  PROVE  Standing(p, c, n, W) /\ Sorted(p, c, n, vid, W)
BY DEF Chosen, Standing, Sorted, Spared, Candidate

LEMMA LinkedPool ==
  ASSUME Bounded
  PROVE  NarrowPool /\ Joined => Linked(Pool)
BY PoolOfBounded DEF NarrowPool, Joined, Linked, FreeAlone

(* note_on(): every voice of the pool is silenced, is spared, or plays the *)
(* new note.                                                               *)
LEMMA NoteOnPool ==
  ASSUME VoicesAssumption, ByteAssumption, Bounded,
         NEW c \in Channels, NEW n \in Notes, NoteOn(c, n)
  PROVE  \E q \in Pools :
           /\ Becomes(q) /\ Quiet(q)
           /\ Sorted(q, c, n, IF Overlap THEN vidq_head[<<c, n>>] ELSE 0, {})
           /\ setup.layers = {1} /\ Linked(Pool) => Linked(q)
<1> DEFINE vid == IF Overlap THEN vidq_head[<<c, n>>] ELSE 0
<1>1. vid \in 0..ByteMod - 1
  <2>1. vidq_head[<<c, n>>] \in 0..ByteMod - 1
    <3>1. vidq_head \in [Keys -> 0..ByteMod - 1] /\ <<c, n>> \in Keys
      BY DEF Bounded, Typed, Keys
    <3> QED
      BY <3>1
  <2>2. 0 \in 0..ByteMod - 1
    BY DEF ByteAssumption
  <2> QED
    BY <2>1, <2>2
<1>2. PICK fixed \in BOOLEAN, short \in BOOLEAN, layers \in setup.layers :
        \E f \in Select(Pool, c, n, fixed) :
          IF layers = 1
          THEN \E p \in Started(f.pool, f.v, c, n, vid, short) : Becomes(p)
          ELSE \E g \in Select(f.pool, c, n, fixed) :
               \E p \in Started(g.pool, f.v, c, n, vid, short) :
               \E q \in Started(p, g.v, c, n, vid, short) : Becomes(q)
  BY DEF NoteOn
<1>3. PICK f \in Select(Pool, c, n, fixed) :
          IF layers = 1
          THEN \E p \in Started(f.pool, f.v, c, n, vid, short) : Becomes(p)
          ELSE \E g \in Select(f.pool, c, n, fixed) :
               \E p \in Started(g.pool, f.v, c, n, vid, short) :
               \E q \in Started(p, g.v, c, n, vid, short) : Becomes(q)
  BY <1>2
<1> HIDE DEF vid
<1>4. voices \in 0..MaxVoices /\ work.op = "none"
  BY DEF NoteOn, Playing, Ready, Bounded, Typed
<1>5. /\ Pool \in Pools /\ Pool.voice = voice /\ Pool.upper = upper_voices
  BY PoolOfBounded
<1>6. Quiet(Pool)
  BY <1>4, <1>5 DEF Quiet, Bounded, Silent, Loops
<1>7. Standing(Pool, c, n, {})
  <2>1. \A i \in 0..upper_voices - 1 : i < upper_voices
    BY BoundedFacts
  <2> QED
    BY <1>5, <2>1 DEF Standing, Candidate
<1> DEFINE P == Pool
           V == {} \cup {f.v}
<1>8. /\ f.pool \in Pools /\ Quiet(f.pool) /\ Reach(f.pool, f.v)
      /\ Chosen(f.pool, c, n, V)
      /\ FullBelow(f.pool, f.v)
      /\ Linked(Pool) => Linked(f.pool) /\ f.pool.link[f.v] = f.v
  BY <1>4, <1>5, <1>6, <1>7, SelectFacts
<1>9. V = {f.v}
  OBVIOUS
<1> HIDE DEF V
<1>10. Standing(f.pool, c, n, V) /\ Sorted(f.pool, c, n, vid, V)
  BY <1>8, ChosenFacts
<1>11. CASE layers = 1
  <2>1. PICK q \in Started(f.pool, f.v, c, n, vid, short) : Becomes(q)
    BY <1>3, <1>11
  <2> DEFINE W == V \ {f.v}
  <2>2. /\ q \in Pools /\ Quiet(q)
        /\ Sorted(q, c, n, vid, W)
        /\ Linked(f.pool) /\ f.pool.link[f.v] = f.v /\ FullBelow(f.pool, f.v) => Linked(q)
    BY <1>1, <1>4, <1>8, <1>10, StartedFacts
  <2>3. W = {}
    BY <1>9
  <2> HIDE DEF W
  <2> QED
    BY <1>8, <2>1, <2>2, <2>3 DEF vid
<1>12. CASE layers # 1
  <2>1. PICK g \in Select(f.pool, c, n, fixed) :
               \E p \in Started(g.pool, f.v, c, n, vid, short) :
               \E q \in Started(p, g.v, c, n, vid, short) : Becomes(q)
    BY <1>3, <1>12
  <2>2. PICK p \in Started(g.pool, f.v, c, n, vid, short) :
               \E q \in Started(p, g.v, c, n, vid, short) : Becomes(q)
    BY <2>1
  <2>3. PICK q \in Started(p, g.v, c, n, vid, short) : Becomes(q)
    BY <2>2
  <2> DEFINE W == V \cup {g.v}
  <2>4. /\ g.pool \in Pools /\ Quiet(g.pool) /\ Reach(g.pool, g.v)
        /\ Chosen(g.pool, c, n, W) /\ f.pool.upper <= g.pool.upper
    BY <1>4, <1>8, <1>10, SelectFacts
  <2>5. W = {f.v, g.v}
    BY <1>9
  <2> HIDE DEF W
  <2>6. Sorted(g.pool, c, n, vid, W)
    BY <2>4, ChosenFacts
  <2>7. f.pool.upper \in Nat /\ g.pool.upper \in Nat /\ Slots \subseteq Nat
    BY <1>8, <2>4, PoolFacts, SlotFacts
  <2>8. Reach(g.pool, f.v)
    <3>1. \A a, b, d \in Nat : a < b /\ b <= d => a < d
      OBVIOUS
    <3>2. f.v \in Slots /\ f.v \in Nat /\ (f.v < f.pool.upper \/ voices = 0)
      BY <1>8, <2>7 DEF Reach
    <3>3. f.v < f.pool.upper => f.v < g.pool.upper
      BY <2>4, <2>7, <3>1, <3>2
    <3> QED
      BY <3>2, <3>3 DEF Reach
  <2> DEFINE X == W \ {f.v}
  <2>9. /\ p \in Pools /\ Quiet(p) /\ g.pool.upper <= p.upper
        /\ Sorted(p, c, n, vid, X)
    BY <1>1, <1>4, <2>2, <2>4, <2>6, <2>8, StartedFacts
  <2> DEFINE Y == X \ {g.v}
  <2>10. Y = {}
    BY <2>5
  <2> HIDE DEF X
  <2>11. p.upper \in Nat
    BY <2>9, PoolFacts
  <2>12. Reach(p, g.v)
    BY <2>4, <2>7, <2>9, <2>11 DEF Reach
  <2>13. /\ q \in Pools /\ Quiet(q) /\ Sorted(q, c, n, vid, Y)
    BY <1>1, <1>4, <2>3, <2>9, <2>12, StartedFacts
  <2> HIDE DEF Y
  <2>14. setup.layers # {1}
    BY <1>12
  <2> QED
    BY <2>3, <2>10, <2>13, <2>14 DEF vid
<1> QED
  BY <1>11, <1>12
(* Nothing that the new note cuts plays on beside it. *)
LEMMA StruckNotes ==
  ASSUME VoicesAssumption, Bounded, NotesExclusive, UNCHANGED <<setup, channel>>,
         NEW c \in Channels, NEW n, NEW vid,
         \A i \in 0..upper_voices' - 1 :
           Silenced(voice'[i]) \/ Spared(voice'[i], i, c, n) \/ Struck(voice'[i], c, n, vid)
  PROVE  NotesExclusive'
<1>1. /\ OneInstance /\ MonoOneNote /\ GroupExclusive
      /\ upper_voices \in Nat
  BY BoundedFacts DEF NotesExclusive
<1>2. ASSUME NEW i \in 0..upper_voices' - 1, Plays(voice'[i])
      PROVE  \/ Struck(voice'[i], c, n, vid)
             \/ Spared(voice'[i], i, c, n) /\ i \in 0..upper_voices - 1 /\ Sounds(i)
  <2>1. Spared(voice'[i], i, c, n) \/ Struck(voice'[i], c, n, vid)
    BY <1>2 DEF Silenced, Plays
  <2>2. ASSUME Spared(voice'[i], i, c, n)
        PROVE  i \in 0..upper_voices - 1 /\ Sounds(i)
    <3>1. i < upper_voices /\ voice'[i].status = voice[i].status
      BY <2>2 DEF Spared
    <3>2. i \in 0..upper_voices - 1
      BY <1>1, <3>1
    <3> QED
      BY <1>2, <3>1, <3>2 DEF Plays, Sounds
  <2> QED
    BY <2>1, <2>2
<1>3. OneInstance'
  <2> SUFFICES ASSUME ~Overlap, NEW i \in 0..upper_voices' - 1, Plays(voice'[i])
               PROVE  voice'[i].proximate
    BY DEF OneInstance, Sounds, Plays, Overlap
  <2>1. CASE Struck(voice'[i], c, n, vid)
    BY <2>1 DEF Struck
  <2>2. CASE Spared(voice'[i], i, c, n) /\ i \in 0..upper_voices - 1 /\ Sounds(i)
    <3>1. voice[i].proximate
      BY <1>1, <2>2 DEF OneInstance
    <3>2. ~(voice'[i].ch = c /\ voice'[i].note = n)
      BY <2>2 DEF Spared, Cut
    <3> QED
      BY <2>2, <3>1, <3>2 DEF Spared
  <2> QED
    BY <1>2, <2>1, <2>2
<1>4. MonoOneNote'
  <2> SUFFICES ASSUME NEW i \in 0..upper_voices' - 1, NEW j \in 0..upper_voices' - 1,
                      voice'[i].status = "on", voice'[j].status = "on",
                      voice'[i].ch = voice'[j].ch, channel[voice'[i].ch].mono
               PROVE  voice'[i].note = voice'[j].note
    BY DEF MonoOneNote
  <2>1. /\ \/ Struck(voice'[i], c, n, vid)
           \/ Spared(voice'[i], i, c, n) /\ i \in 0..upper_voices - 1
        /\ \/ Struck(voice'[j], c, n, vid)
           \/ Spared(voice'[j], j, c, n) /\ j \in 0..upper_voices - 1
    BY <1>2 DEF Plays
  <2>2. voice'[i].ch = c => Struck(voice'[i], c, n, vid) /\ Struck(voice'[j], c, n, vid)
    BY <2>1 DEF Spared, Cut
  <2>3. voice'[i].ch # c => Spared(voice'[i], i, c, n) /\ Spared(voice'[j], j, c, n)
    BY <2>1 DEF Struck
  <2>4. CASE voice'[i].ch = c
    BY <2>2, <2>4 DEF Struck
  <2>5. CASE voice'[i].ch # c
    <3>1. /\ voice[i].status = "on" /\ voice[j].status = "on" /\ voice[i].ch = voice[j].ch
          /\ channel[voice[i].ch].mono
          /\ voice'[i].note = voice[i].note /\ voice'[j].note = voice[j].note
      BY <2>3, <2>5 DEF Spared
    <3>2. i \in 0..upper_voices - 1 /\ j \in 0..upper_voices - 1
      BY <2>1, <2>5 DEF Struck
    <3> QED
      BY <1>1, <3>1, <3>2 DEF MonoOneNote
  <2> QED
    BY <2>4, <2>5
<1>5. GroupExclusive'
  <2> SUFFICES ASSUME NEW i \in 0..upper_voices' - 1, NEW j \in 0..upper_voices' - 1,
                      NEW g \in AltGroups,
                      Plays(voice'[i]), Plays(voice'[j]), voice'[i].ch = voice'[j].ch,
                      voice'[i].note \in g, voice'[j].note \in g
               PROVE  voice'[i].note = voice'[j].note
    BY DEF GroupExclusive, Sounds, Plays
  <2>1. /\ \/ Struck(voice'[i], c, n, vid)
           \/ Spared(voice'[i], i, c, n) /\ i \in 0..upper_voices - 1 /\ Sounds(i)
        /\ \/ Struck(voice'[j], c, n, vid)
           \/ Spared(voice'[j], j, c, n) /\ j \in 0..upper_voices - 1 /\ Sounds(j)
    BY <1>2
  <2>2. CASE Struck(voice'[i], c, n, vid)
    BY <2>1, <2>2 DEF Struck, Spared, Cut
  <2>3. CASE Struck(voice'[j], c, n, vid)
    BY <2>1, <2>3 DEF Struck, Spared, Cut
  <2>4. CASE /\ Spared(voice'[i], i, c, n) /\ i \in 0..upper_voices - 1 /\ Sounds(i)
             /\ Spared(voice'[j], j, c, n) /\ j \in 0..upper_voices - 1 /\ Sounds(j)
    <3>1. /\ voice[i].ch = voice[j].ch
          /\ voice'[i].note = voice[i].note /\ voice'[j].note = voice[j].note
      BY <2>4 DEF Spared
    <3>2. {voice[i].note, voice[j].note} \subseteq g
      BY <3>1
    <3> QED
      BY <1>1, <2>4, <3>1, <3>2 DEF GroupExclusive
  <2> QED
    BY <2>1, <2>2, <2>3, <2>4
<1> QED
  BY <1>3, <1>4, <1>5 DEF NotesExclusive

(* The vid of the new note is the head of its key, which moves on. *)
LEMMA StruckVids ==
  ASSUME VoicesAssumption, ByteAssumption, Bounded, OnVoicePending, FewPending,
         UNCHANGED <<setup, vidq_tail>>,
         NEW c \in Channels, NEW n \in Notes, Pending(<<c, n>>) < setup.pending,
         vidq_head' = IF Overlap THEN [vidq_head EXCEPT ![<<c, n>>] = NextVid(<<c, n>>)]
                                 ELSE vidq_head,
         \A i \in 0..upper_voices' - 1 :
           \/ Silenced(voice'[i]) \/ Spared(voice'[i], i, c, n)
           \/ Struck(voice'[i], c, n, IF Overlap THEN vidq_head[<<c, n>>] ELSE 0)
  PROVE  OnVoicePending'
<1> DEFINE k == <<c, n>>
<1> SUFFICES ASSUME Overlap, NEW i \in 0..upper_voices' - 1, voice'[i].status = "on"
             PROVE  LET m == <<voice'[i].ch, voice'[i].note>>
                    IN  (voice'[i].vid - vidq_tail[m]) % ByteMod
                          < (vidq_head'[m] - vidq_tail[m]) % ByteMod
  BY DEF OnVoicePending, Overlap, Pending
<1>1. /\ vidq_head \in [Keys -> 0..ByteMod - 1] /\ vidq_tail \in [Keys -> 0..ByteMod - 1]
      /\ k \in Keys /\ ByteMod \in Nat \ {0}
  BY DEF Bounded, Typed, Keys, ByteAssumption
<1> DEFINE h == vidq_head[k]
           t == vidq_tail[k]
<1>2. h \in 0..ByteMod - 1 /\ t \in 0..ByteMod - 1
  BY <1>1
<1>3. (h - t) % ByteMod < ByteMod - 1
  <2>1. (h - t) % ByteMod < setup.pending
    BY DEF Pending
  <2>2. setup.pending \in Nat /\ setup.pending < ByteMod
    BY SetupFacts DEF FewPending
  <2>3. (h - t) % ByteMod \in 0..ByteMod - 1
    BY <1>2, Circle
  <2> DEFINE d == (h - t) % ByteMod
  <2> HIDE DEF d
  <2>4. d < setup.pending /\ d \in 0..ByteMod - 1
    BY <2>1, <2>3 DEF d
  <2>5. d < ByteMod - 1
    BY <1>1, <2>2, <2>4
  <2> QED
    BY <2>5 DEF d
<1>4. (((h + 1) % ByteMod) - t) % ByteMod = ((h - t) % ByteMod) + 1
      /\ (h - t) % ByteMod \in 0..ByteMod - 1
  BY <1>2, <1>3, Circle
<1>5. vidq_head'[k] = (h + 1) % ByteMod /\ \A m \in Keys : m # k => vidq_head'[m] = vidq_head[m]
  BY <1>1 DEF NextVid
<1> DEFINE m == <<voice'[i].ch, voice'[i].note>>
<1>6. CASE Spared(voice'[i], i, c, n)
  <2>1. /\ i < upper_voices /\ voice[i].status = "on" /\ voice'[i].vid = voice[i].vid
        /\ m = <<voice[i].ch, voice[i].note>>
    BY <1>6 DEF Spared
  <2>2. i \in 0..upper_voices - 1 /\ i \in Slots
    <3>1. upper_voices \in Nat
      BY BoundedFacts
    <3>2. i \in 0..upper_voices - 1
      BY <2>1, <3>1
    <3> QED
      BY <3>2, BoundedFacts
  <2>3. (voice'[i].vid - vidq_tail[m]) % ByteMod < (vidq_head[m] - vidq_tail[m]) % ByteMod
    BY <2>1, <2>2 DEF OnVoicePending, Pending
  <2>4. m \in Keys /\ voice'[i].vid \in 0..ByteMod - 1
    <3>1. voice[i] \in Voice
      BY <2>2 DEF Bounded, Typed
    <3> QED
      BY <2>1, <3>1 DEF Voice, Keys
  <2> HIDE DEF m, k
  <2>5. CASE m = k
    <3> DEFINE a == voice'[i].vid
               d == (h - t) % ByteMod
    <3>1. (a - t) % ByteMod < d
      BY <2>3, <2>5
    <3>2. (a - t) % ByteMod \in 0..ByteMod - 1
      BY <1>2, <2>4, Circle
    <3> DEFINE e == (a - t) % ByteMod
    <3>3. d \in 0..ByteMod - 1
      BY <1>4
    <3> HIDE DEF d, e
    <3>4. e < d + 1
      BY <1>1, <3>1, <3>2, <3>3 DEF e
    <3>5. (vidq_head'[m] - vidq_tail[m]) % ByteMod = d + 1
      BY <1>4, <1>5, <2>5 DEF d
    <3>6. (voice'[i].vid - vidq_tail[m]) % ByteMod = e
      BY <2>5 DEF e
    <3> QED
      BY <3>4, <3>5, <3>6 DEF m
  <2>6. CASE m # k
    BY <1>5, <2>3, <2>4, <2>6 DEF m
  <2> QED
    BY <2>5, <2>6
<1>7. CASE Struck(voice'[i], c, n, h)
  <2>1. m = k /\ voice'[i].vid = h
    BY <1>7 DEF Struck
  <2> DEFINE d == (h - t) % ByteMod
  <2>2. (vidq_head'[m] - vidq_tail[m]) % ByteMod = d + 1
    BY <1>4, <1>5, <2>1
  <2>3. (voice'[i].vid - vidq_tail[m]) % ByteMod = d
    BY <2>1
  <2>4. d \in 0..ByteMod - 1
    BY <1>4
  <2> HIDE DEF d
  <2>5. d < d + 1
    BY <1>1, <2>4
  <2> QED
    BY <2>2, <2>3, <2>5
<1> QED
  BY <1>6, <1>7 DEF Silenced

LEMMA NoteOnStep ==
  ASSUME VoicesAssumption, ByteAssumption, Bounded,
         NEW c \in Channels, NEW n \in setup.notes, NoteOn(c, n)
  PROVE  Keeps
<1> DEFINE k == <<c, n>>
           vid == IF Overlap THEN vidq_head[k] ELSE 0
<1>1. n \in Notes /\ k \in Keys
  BY SetupFacts DEF Keys
<1>2. /\ UNCHANGED <<setup, voices, old_voices, vidq_tail, channel, cleared, pc, work>>
      /\ work.op = "none" /\ Pending(k) < setup.pending
      /\ vidq_head' = IF Overlap THEN [vidq_head EXCEPT ![k] = NextVid(k)] ELSE vidq_head
  BY DEF NoteOn, Playing, Ready, sizeVars, chanVars
<1>3. PICK q \in Pools :
           /\ Becomes(q) /\ Quiet(q) /\ Sorted(q, c, n, vid, {})
           /\ setup.layers = {1} /\ Linked(Pool) => Linked(q)
  BY <1>1, NoteOnPool
<1>4. /\ voice' = q.voice /\ chorus_link' = q.link /\ upper_voices' = q.upper
      /\ q.voice \in [Slots -> Voice] /\ q.link \in [Slots -> Slots]
      /\ q.upper \in 0..MaxVoices
  BY <1>3, PoolFacts DEF Becomes
<1>5. \A i \in 0..upper_voices' - 1 :
        Silenced(voice'[i]) \/ Spared(voice'[i], i, c, n) \/ Struck(voice'[i], c, n, vid)
  BY <1>3, <1>4 DEF Sorted
<1> HIDE DEF vid
<1>6. vidq_head' \in [Keys -> 0..ByteMod - 1]
  <2>1. vidq_head \in [Keys -> 0..ByteMod - 1]
    BY DEF Bounded, Typed
  <2>2. NextVid(k) \in 0..ByteMod - 1
    <3>1. vidq_head[k] + 1 \in Nat
      BY <1>1, <2>1 DEF ByteAssumption
    <3> DEFINE h == vidq_head[k] + 1
    <3> HIDE DEF h
    <3>2. h % ByteMod \in 0..ByteMod - 1
      BY <3>1, Modulo DEF ByteAssumption, h
    <3> QED
      BY <3>2 DEF NextVid, h
  <2> QED
    BY <1>2, <2>1, <2>2
<1>7. Bounded'
  <2>1. Typed'
    BY <1>2, <1>4, <1>6 DEF Bounded, Typed
  <2>2. Silent' /\ Loops'
    BY <1>2, <1>3, <1>4 DEF Quiet, Silent, Loops
  <2> QED
    BY <2>1, <2>2 DEF Bounded
<1>8. NotesExclusive => NotesExclusive'
  BY <1>2, <1>5, StruckNotes
<1>9. SustainedHasPedal => SustainedHasPedal'
  <2> SUFFICES ASSUME SustainedHasPedal, NEW i \in 0..upper_voices' - 1,
                      voice'[i].status = "sustained"
               PROVE  PedalHeld(channel[voice'[i].ch]) \/ voice'[i].ch \in cleared
    BY <1>2 DEF SustainedHasPedal
  <2>1. Spared(voice'[i], i, c, n)
    BY <1>5 DEF Silenced, Struck
  <2>2. i < upper_voices /\ upper_voices \in Nat
    BY <2>1, BoundedFacts DEF Spared
  <2>3. i \in 0..upper_voices - 1
    BY <2>2
  <2> QED
    BY <2>1, <2>3 DEF Spared, SustainedHasPedal
<1>10. FewPending /\ OnVoicePending => OnVoicePending'
  BY <1>1, <1>2, <1>5, StruckVids DEF vid
<1>11. NarrowPool /\ Links => Links'
  <2> SUFFICES ASSUME NarrowPool, Links, Single
               PROVE  Joined'
    BY <1>2 DEF Links, Single
  <2>1. Linked(q)
    BY <1>3, LinkedPool DEF Links, Single
  <2> QED
    BY <1>2, <1>4, <2>1 DEF Linked, Joined, FreeAlone, Paired
<1> QED
  BY <1>7, <1>8, <1>9, <1>10, <1>11 DEF Keeps
-----------------------------------------------------------------------------
(* The theorems *)

LEMMA InitFacts ==
  ASSUME VoicesAssumption, ByteAssumption, Init
  PROVE  /\ Bounded /\ NotesExclusive /\ SustainedHasPedal /\ OnVoicePending
         /\ NarrowPool => Links
<1>1. PICK s \in Setups, c \in Channels : \E n \in s.notes :
        /\ setup = s
        /\ voice = [i \in Slots |-> [status |-> "free", ch |-> c, note |-> n,
                      vid |-> 0, proximate |-> FALSE, fixed |-> FALSE]]
        /\ chorus_link = [i \in Slots |-> LinkTo(i)]
        /\ upper_voices = 0 /\ voices = setup.voices /\ old_voices = setup.voices
        /\ vidq_head = [k \in Keys |-> 0] /\ vidq_tail = [k \in Keys |-> 0]
        /\ channel \in [Channels -> [sustain: {Up}, sostenuto: {FALSE},
                          damper: {FALSE}, mono: {FALSE}, assign: {1, 2}]]
        /\ pc = "play" /\ work = Idle /\ cleared = {}
  BY DEF Init
<1>2. PICK n \in s.notes :
        /\ setup = s
        /\ voice = [i \in Slots |-> [status |-> "free", ch |-> c, note |-> n,
                      vid |-> 0, proximate |-> FALSE, fixed |-> FALSE]]
        /\ chorus_link = [i \in Slots |-> LinkTo(i)]
        /\ upper_voices = 0 /\ voices = setup.voices /\ old_voices = setup.voices
        /\ vidq_head = [k \in Keys |-> 0] /\ vidq_tail = [k \in Keys |-> 0]
        /\ channel \in [Channels -> [sustain: {Up}, sostenuto: {FALSE},
                          damper: {FALSE}, mono: {FALSE}, assign: {1, 2}]]
        /\ pc = "play" /\ work = Idle /\ cleared = {}
  BY <1>1
<1>3. /\ chorus_link = [i \in Slots |-> LinkTo(i)]
      /\ upper_voices = 0 /\ voices = setup.voices /\ old_voices = setup.voices
      /\ vidq_head = [k \in Keys |-> 0] /\ vidq_tail = [k \in Keys |-> 0]
      /\ channel \in [Channels -> [sustain: {Up}, sostenuto: {FALSE},
                        damper: {FALSE}, mono: {FALSE}, assign: {1, 2}]]
      /\ pc = "play" /\ work = Idle /\ cleared = {}
  BY <1>2
<1>4. setup \in Setups /\ setup.voices \in 1..MaxVoices /\ n \in Notes
  <2>1. s \in Setup /\ s \in Setups
    BY SetupsAssumption
  <2> QED
    BY <1>2, <2>1 DEF Setup
<1>5. /\ MaxVoices \in Nat /\ Slots \subseteq Nat
      /\ \A u \in 0..MaxVoices : \A i \in 0..u - 1 : i \in Slots
  BY SlotFacts
<1>6. \A i \in Slots : LinkTo(i) \in Slots /\ (NarrowPool => LinkTo(i) = i)
  BY LinkToFacts DEF NarrowPool
<1>7. voices \in 0..MaxVoices /\ old_voices \in 0..MaxVoices /\ voices \in Nat
  BY <1>3, <1>4, <1>5
<1>8. /\ voice \in [Slots -> Voice]
      /\ \A i \in Slots : voice[i].status = "free"
  <2> DEFINE y == [status |-> "free", ch |-> c, note |-> n,
                   vid |-> 0, proximate |-> FALSE, fixed |-> FALSE]
  <2>1. 0 \in 0..ByteMod - 1
    BY DEF ByteAssumption
  <2>2. y \in Voice /\ y.status = "free"
    BY <1>4, <2>1 DEF Voice, Statuses
  <2>3. voice = [i \in Slots |-> y]
    BY <1>2
  <2> HIDE DEF y
  <2> QED
    BY <2>2, <2>3
<1>9. Typed
  <2>1. chorus_link \in [Slots -> Slots]
    BY <1>3, <1>6
  <2>2. vidq_head \in [Keys -> 0..ByteMod - 1] /\ vidq_tail \in [Keys -> 0..ByteMod - 1]
    BY <1>3 DEF ByteAssumption
  <2>3. channel \in [Channels -> Channel]
    <3> DEFINE AtStart == [sustain: {Up}, sostenuto: {FALSE},
                          damper: {FALSE}, mono: {FALSE}, assign: {1, 2}]
    <3>1. ASSUME NEW x \in AtStart
          PROVE  x \in Channel
      <4>1. x.assign \in 0..2
        OBVIOUS
      <4> QED
        BY <4>1 DEF Channel
    <3>2. channel \in [Channels -> AtStart]
      BY <1>3
    <3> HIDE DEF AtStart
    <3>3. AtStart \subseteq Channel
      BY <3>1
    <3> QED
      BY <3>2, <3>3
  <2>4. work \in [op: {"none", "reduce", "conserve", "decrement"},
                  n: 0..MaxVoices, target: 0..MaxVoices]
    BY <1>3, <1>5 DEF Idle
  <2>5. upper_voices \in 0..MaxVoices
    BY <1>3, <1>5
  <2> QED
    BY <1>3, <1>4, <1>7, <1>8, <2>1, <2>2, <2>3, <2>4, <2>5 DEF Typed
<1>10. Silent
  BY <1>3, <1>5, <1>7, <1>8 DEF Silent
<1>11. Loops
  BY <1>3, <1>7 DEF Loops, Idle
<1>12. NotesExclusive /\ SustainedHasPedal /\ OnVoicePending
  <2>1. ~\E i \in 0..upper_voices - 1 : TRUE
    BY <1>3
  <2> QED
    BY <2>1 DEF NotesExclusive, OneInstance, MonoOneNote, GroupExclusive,
                SustainedHasPedal, OnVoicePending
<1>13. NarrowPool => Links
  BY <1>3, <1>6 DEF Links, Joined, Paired, Idle
<1> QED
  BY <1>9, <1>10, <1>11, <1>12, <1>13 DEF Bounded

LEMMA StutterStep ==
  ASSUME Bounded, UNCHANGED vars
  PROVE  Keeps
<1>1. /\ UNCHANGED <<setup, voice, chorus_link, upper_voices, voices, old_voices, vidq_head,
                     vidq_tail, channel, cleared, pc, work>>
  BY DEF vars, poolVars, sizeVars, vidVars, chanVars
<1>2. Typed' /\ Silent' /\ Loops'
  BY <1>1 DEF Bounded, Typed, Silent, Loops
<1>3. Handed
  BY <1>1 DEF Handed
<1>4. Joined => Joined'
  BY <1>1 DEF Joined, Paired
<1> QED
  BY <1>1, <1>2, <1>3, <1>4, HandedStep DEF Bounded

LEMMA EveryStep ==
  ASSUME VoicesAssumption, ByteAssumption, Bounded, [Next]_vars
  PROVE  Keeps
<1>1. ASSUME NEW c \in Channels, NEW n \in setup.notes, NoteOn(c, n)
      PROVE  Keeps
  BY <1>1, NoteOnStep
<1>2. ASSUME NEW c \in Channels, NEW n \in setup.notes, NoteOff(c, n)
      PROVE  Keeps
  <2>1. n \in Notes
    BY SetupFacts
  <2> QED
    BY <1>2, <2>1, NoteOffStep
<1>3. ASSUME NEW c \in Channels, AllNotesOffEvent(c)
      PROVE  Keeps
  BY <1>3, ModeMessageStep
<1>4. ASSUME NEW c \in Channels, AllSoundsOff(c)
      PROVE  Keeps
  BY <1>4, AllSoundsOffStep
<1>5. ASSUME NEW c \in Channels, NEW mono \in BOOLEAN, MonoPoly(c, mono)
      PROVE  Keeps
  BY <1>5, ModeMessageStep
<1>6. ASSUME NEW c \in Channels, NEW a \in {Up, Half, Down}, Sustain(c, a)
      PROVE  Keeps
  BY <1>6, PedalStep
<1>7. ASSUME NEW c \in Channels, NEW on \in BOOLEAN, Sostenuto(c, on)
      PROVE  Keeps
  BY <1>7, PedalStep
<1>8. ASSUME NEW c \in Channels, ResetControllers(c)
      PROVE  Keeps
  BY <1>8, ResetControllersStep
<1>9. ASSUME NEW c \in Channels, NEW mode \in 0..2, NEW damper \in BOOLEAN,
             SetAssign(c, mode, damper)
      PROVE  Keeps
  BY <1>9, SetAssignStep
<1>10. CASE \/ AdjustVolume \/ SystemReset \/ Restart \/ Mix \/ EndFinish \/ EndKill
  BY <1>10, AdjustVolumeStep, SystemResetStep, RestartStep, MixStep, EndFinishStep, EndKillStep
<1>11. CASE \/ Tune \/ Reduce \/ Resize \/ Conserve \/ ConserveDone \/ RestoreVoices
  BY <1>11, TuneStep, ReduceStep, ResizeStep, ConserveStep, ConserveDoneStep, RestoreVoicesStep
<1>12. CASE VoiceIncrement \/ VoiceDecrement \/ Decrement \/ DecrementDone
  BY <1>12, VoiceIncrementStep, VoiceDecrementStep, DecrementStep, DecrementDoneStep
<1>13. CASE UNCHANGED vars
  BY <1>13, StutterStep
<1> QED
  BY <1>1, <1>2, <1>3, <1>4, <1>5, <1>6, <1>7, <1>8, <1>9, <1>10, <1>11, <1>12, <1>13 DEF Next

LEMMA AlwaysBounded ==
  Spec => []Bounded
<1>1. Init => Bounded
  BY InitFacts, VoicesAssumption, ByteAssumption
<1>2. Bounded /\ [Next]_vars => Bounded'
  BY EveryStep, VoicesAssumption, ByteAssumption DEF Keeps
<1> QED
  BY <1>1, <1>2, PTL DEF Spec

(* The pool of voices is well typed and never exceeds the polyphony:       *)
(* outside of the loops that change it, upper_voices is at most `voices`,  *)
(* and what lies behind upper_voices, where no loop over voice[] looks, is *)
(* free.                                                                   *)
THEOREM VoicePoolTyped ==
  Spec => []TypeOK
<1>1. Bounded => TypeOK
  <2> SUFFICES ASSUME Bounded
               PROVE  TypeOK
    OBVIOUS
  <2>1. PoolBounded
    BY DEF Bounded, Silent, Loops, PoolBounded, Ready
  <2> QED
    BY <2>1 DEF Bounded, Typed, TypeOK
<1> QED
  BY <1>1, AlwaysBounded, PTL

(* A note ends what it must end: its own key when notes do not overlap,    *)
(* the other notes of a channel in mono mode and of its alternate assign   *)
(* groups, through every reduction of the polyphony and every reset.       *)
THEOREM NotesStayExclusive ==
  Spec => []NotesExclusive
<1>1. Init => NotesExclusive
  BY InitFacts, VoicesAssumption, ByteAssumption
<1>2. Bounded /\ NotesExclusive /\ [Next]_vars => NotesExclusive'
  BY EveryStep, VoicesAssumption, ByteAssumption DEF Keeps
<1> QED
  BY <1>1, <1>2, AlwaysBounded, PTL DEF Spec

(* A sustained voice is never forgotten: a pedal holds its channel and     *)
(* drops it when it goes up, or Reset All Controllers lifted the pedal.    *)
THEOREM SustainedStaysHeld ==
  Spec => []SustainedHasPedal
<1>1. Init => SustainedHasPedal
  BY InitFacts, VoicesAssumption, ByteAssumption
<1>2. Bounded /\ SustainedHasPedal /\ [Next]_vars => SustainedHasPedal'
  BY EveryStep, VoicesAssumption, ByteAssumption DEF Keeps
<1> QED
  BY <1>1, <1>2, AlwaysBounded, PTL DEF Spec

(* No note hangs: as long as fewer notes of one key wait for their Note    *)
(* Offs than the uint8 counters of its queue can tell apart, every voice   *)
(* that is on belongs to one of them.                                      *)
THEOREM VoicesStayPending ==
  ASSUME FewPending
  PROVE  Spec => []OnVoicePending
<1>1. Init => OnVoicePending
  BY InitFacts, VoicesAssumption, ByteAssumption
<1>2. Bounded /\ OnVoicePending /\ [Next]_vars => OnVoicePending'
  BY EveryStep, VoicesAssumption, ByteAssumption DEF Keeps
<1> QED
  BY <1>1, <1>2, AlwaysBounded, PTL DEF Spec

(* Chorus links stay doubled for instruments of one sample while the       *)
(* polyphony stays, as long as a uint8 chorus_link can name every voice.   *)
THEOREM SingleLinksStayPaired ==
  ASSUME NarrowPool
  PROVE  Spec => []SingleLinksPaired
<1>1. Init => Links
  BY InitFacts, VoicesAssumption, ByteAssumption
<1>2. Bounded /\ Links /\ [Next]_vars => Links'
  BY EveryStep, VoicesAssumption, ByteAssumption DEF Keeps
<1>3. Bounded /\ Links => SingleLinksPaired
  <2>1. VoicesAssumption
    BY VoicesAssumption
  <2> QED
    BY <2>1, BoundedFacts DEF Links, Single, Joined, Paired, SingleLinksPaired, LinksPaired
<1> QED
  BY <1>1, <1>2, <1>3, AlwaysBounded, PTL DEF Spec
=============================================================================
