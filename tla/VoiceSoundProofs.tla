-------------------------- MODULE VoiceSoundProofs --------------------------
(***************************************************************************)
(* Proofs about VoiceSound, for every set of samples, pitches and blocks   *)
(* and whatever happens to the key, the pedals, the volume and the pitch:  *)
(*  1. what recompute_envelope() and next_stage() make of an envelope;     *)
(*  2. a held voice keeps to its sustain level, a released one only fades; *)
(*  3. what a block reads of a sample and where it leaves the cursor;      *)
(*  4. every block stays inside the data.                                  *)
(***************************************************************************)
EXTENDS VoiceSound, WellFoundedInduction, TLAPS

-----------------------------------------------------------------------------
(* 1. The envelope.                                                        *)
Stages == 0..EG_GUS_RELEASE3 + 1
IsEnvelope(e) == e \in [stage: Stages, volume: Nat, inc: Int, target: Nat]

(* it stands still, or it goes down from a stage behind the sustain stage  *)
Falls(e) ==
  e.inc = 0 \/ (e.inc < 0 /\ e.target <= e.volume /\ e.stage >= EG_GUS_RELEASE1)

(* what a held voice's envelope is, from the attack to the sustain stage   *)
Holds(e) ==
  /\ e.stage <= EG_GUS_RELEASE1
  /\ e.stage = EG_GUS_RELEASE1 => e.target = sample.envelope_offset[EG_GUS_SUSTAIN]

(* The function from[s][v] of Recompute(), one stage at a time: what is    *)
(* made of stage s at volume v, when `next' is what is made of the next.   *)
StageOf(st, e, s, v, next) ==
  IF s > EG_GUS_RELEASE3 \/ (s > EG_GUS_SUSTAIN /\ v <= 0) THEN {RanOut}
  ELSE IF Sustains(st, s)
  THEN IF st = "on" \/ min_sustain_time = 0
       THEN {[e EXCEPT !.stage = s, !.volume = v]} ELSE SustainDecay(v)
  ELSE IF Passed(s, v) THEN next[v]
  ELSE LET offset == sample.envelope_offset[s]
       IN  {[stage |-> s + 1, volume |-> v, inc |-> i, target |-> offset] :
              i \in Rates(v, offset)}
           \cup IF sample.instant /\ s < EG_SF_DECAY THEN next[offset] ELSE {}
IsFrom(f, st, e) ==
  f = [s \in 0..EG_GUS_RELEASE3 + 1 |-> [v \in Nat |-> StageOf(st, e, s, v, f[s + 1])]]

LEMMA FromExists ==
  ASSUME NEW st, NEW e
  PROVE  \E f : IsFrom(f, st, e)
<1> DEFINE G(s, g) == [v \in Nat |-> StageOf(st, e, s, v, g)]
           g6 == G(6, <<>>)
           g5 == G(5, g6)
           g4 == G(4, g5)
           g3 == G(3, g4)
           g2 == G(2, g3)
           g1 == G(1, g2)
           g0 == G(0, g1)
           f == [s \in 0..6 |-> CASE s = 0 -> g0 [] s = 1 -> g1 [] s = 2 -> g2
                                  [] s = 3 -> g3 [] s = 4 -> g4 [] s = 5 -> g5
                                  [] s = 6 -> g6]
<1>1. f[0] = g0 /\ f[1] = g1 /\ f[2] = g2 /\ f[3] = g3 /\ f[4] = g4 /\ f[5] = g5 /\ f[6] = g6
  <2> HIDE DEF g0, g1, g2, g3, g4, g5, g6
  <2> QED
    OBVIOUS
<1>2. \A v \in Nat : \A g : StageOf(st, e, 6, v, g) = {RanOut}
  BY DEF StageOf, EG_GUS_RELEASE3
<1>3. g6 = G(6, f[7])
  BY <1>2
<1>4. \A s \in 0..6 : f[s] = G(s, f[s + 1])
  <2>1. f[0] = G(0, f[1]) /\ f[1] = G(1, f[2]) /\ f[2] = G(2, f[3])
        /\ f[3] = G(3, f[4]) /\ f[4] = G(4, f[5]) /\ f[5] = G(5, f[6])
    BY <1>1
  <2>2. f[6] = G(6, f[7])
    BY <1>1, <1>3
  <2> HIDE DEF f, G
  <2>3. SUFFICES ASSUME NEW s \in 0..6 PROVE f[s] = G(s, f[s + 1])
    OBVIOUS
  <2>4. s = 0 \/ s = 1 \/ s = 2 \/ s = 3 \/ s = 4 \/ s = 5 \/ s = 6
    OBVIOUS
  <2>5. 0 + 1 = 1 /\ 1 + 1 = 2 /\ 2 + 1 = 3 /\ 3 + 1 = 4 /\ 4 + 1 = 5 /\ 5 + 1 = 6
        /\ 6 + 1 = 7
    OBVIOUS
  <2> QED
    BY <2>1, <2>2, <2>4, <2>5
<1>5. f = [s \in 0..6 |-> f[s]]
  OBVIOUS
<1>6. f = [s \in 0..6 |-> G(s, f[s + 1])]
  <2> HIDE DEF f, G
  <2> QED
    BY <1>4, <1>5
<1>7. EG_GUS_RELEASE3 + 1 = 6
  BY DEF EG_GUS_RELEASE3
<1> HIDE DEF f
<1>8. IsFrom(f, st, e)
  BY <1>6, <1>7 DEF IsFrom
<1> QED
  BY <1>8

LEMMA FromFunction ==
  ASSUME NEW st, NEW e
  PROVE  \E f : IsFrom(f, st, e) /\ Recompute(st, e) = f[e.stage][e.volume]
<1> DEFINE f == CHOOSE g : g =
         [s \in 0..EG_GUS_RELEASE3 + 1 |-> [v \in Nat |-> StageOf(st, e, s, v, g[s + 1])]]
<1>1. Recompute(st, e) = f[e.stage][e.volume]
  BY DEF Recompute, StageOf
<1>2. \E g : g =
         [s \in 0..EG_GUS_RELEASE3 + 1 |-> [v \in Nat |-> StageOf(st, e, s, v, g[s + 1])]]
  <2>1. PICK g : IsFrom(g, st, e)
    BY FromExists
  <2> QED
    BY <2>1 DEF IsFrom
<1>3. IsFrom(f, st, e)
  BY <1>2 DEF IsFrom
<1> QED
  BY <1>1, <1>3

LEMMA FromAt ==
  ASSUME NEW st, NEW e, NEW f, IsFrom(f, st, e), NEW s \in Stages, NEW v \in Nat
  PROVE  f[s][v] = StageOf(st, e, s, v, f[s + 1])
<1> DEFINE h == [t \in Stages |-> [u \in Nat |-> StageOf(st, e, t, u, f[t + 1])]]
<1>1. f = h
  BY DEF IsFrom, Stages
<1>2. h[s][v] = StageOf(st, e, s, v, f[s + 1])
  OBVIOUS
<1> HIDE DEF h
<1> QED
  BY <1>1, <1>2

LEMMA Numbers ==
  /\ EG_GUS_ATTACK = 0 /\ EG_SF_DECAY = 2 /\ EG_GUS_SUSTAIN = 2
  /\ EG_GUS_RELEASE1 = 3 /\ EG_GUS_RELEASE3 = 5 /\ Stages = 0..6
BY DEF EG_GUS_ATTACK, EG_SF_DECAY, EG_GUS_SUSTAIN, EG_GUS_RELEASE1, EG_GUS_RELEASE3, Stages

LEMMA RanOutIs == IsEnvelope(RanOut) /\ Falls(RanOut) /\ RanOut.volume = 0
BY Numbers DEF IsEnvelope, Falls, RanOut

LEMMA OffsetNat ==
  ASSUME sample \in Samples, NEW s \in 0..EG_GUS_RELEASE3
  PROVE  sample.envelope_offset[s] \in Nat
<1>1. sample \in Sample
  BY SamplesAssumption
<1> QED
  BY <1>1 DEF Sample

(* the decay of a voice that a pedal holds *)
LEMMA DecayFalls ==
  ASSUME NEW v \in Nat, NEW x \in SustainDecay(v)
  PROVE  IsEnvelope(x) /\ Falls(x) /\ x.volume = v
<1>1. CASE sample.sf2
  <2>1. PICK w \in Widths : x = [stage |-> EG_GUS_RELEASE1, volume |-> v, inc |-> -1,
                                target |-> Greatest(v - w, 0)]
    BY <1>1 DEF SustainDecay
  <2>2. Greatest(v - w, 0) \in Nat /\ Greatest(v - w, 0) <= v
    <3>1. w \in Nat
      BY SoundAssumption
    <3> QED
      BY <3>1 DEF Greatest
  <2> QED
    BY <2>1, <2>2, Numbers DEF IsEnvelope, Falls
<1>2. CASE ~sample.sf2
  <2> DEFINE m == Greatest(1, Max({v \div w : w \in Widths}))
  <2>1. PICK i \in 1..m : x = [stage |-> EG_GUS_RELEASE1, volume |-> v, inc |-> -i, target |-> 0]
    BY <1>2 DEF SustainDecay
  <2>2. i \in Int /\ 1 <= i
    <3> HIDE DEF m
    <3> QED
      BY <2>1
  <2> HIDE DEF m
  <2> QED
    BY <2>1, <2>2, Numbers DEF IsEnvelope, Falls
<1> QED
  BY <1>1, <1>2

LEMMA RatesSign ==
  ASSUME NEW v \in Nat, NEW o \in Nat, NEW i \in Rates(v, o)
  PROVE  i \in Int /\ (o < v => i < 0)
<1>1. CASE o < v
  <2>1. i \in -(v - o + 1)..-1
    BY <1>1 DEF Rates
  <2> QED
    BY <2>1
<1>2. CASE ~(o < v)
  <2>1. i \in 1..o - v + 1
    BY <1>2 DEF Rates
  <2> QED
    BY <1>2, <2>1
<1> QED
  BY <1>1, <1>2

(* What a stage makes is an envelope if what the next makes is, ...  *)
LEMMA StageTyped ==
  ASSUME sample \in Samples, NEW st, NEW e, IsEnvelope(e), NEW s \in Stages,
         NEW v \in Nat, NEW next,
         \A u \in Nat : \A y \in next[u] : s < 6 => IsEnvelope(y),
         NEW x \in StageOf(st, e, s, v, next)
  PROVE  IsEnvelope(x)
<1>1. CASE s > 5 \/ (s > 2 /\ v <= 0)
  BY <1>1, Numbers, RanOutIs DEF StageOf
<1>2. CASE ~(s > 5 \/ (s > 2 /\ v <= 0)) /\ Sustains(st, s)
  <2>1. x \in {[e EXCEPT !.stage = s, !.volume = v]} \/ x \in SustainDecay(v)
    BY <1>2, Numbers DEF StageOf
  <2>2. IsEnvelope([e EXCEPT !.stage = s, !.volume = v])
    BY DEF IsEnvelope
  <2> QED
    BY <2>1, <2>2, DecayFalls
<1>3. CASE ~(s > 5 \/ (s > 2 /\ v <= 0)) /\ ~Sustains(st, s)
  <2>1. s \in 0..5 /\ s < 6 /\ s + 1 \in Stages
    BY <1>3, Numbers
  <2> DEFINE o == sample.envelope_offset[s]
  <2>2. o \in Nat
    BY <2>1, OffsetNat, Numbers
  <2> HIDE DEF o
  <2>3. \/ x \in next[v] \/ x \in next[o]
        \/ \E i \in Rates(v, o) :
              x = [stage |-> s + 1, volume |-> v, inc |-> i, target |-> o]
    BY <1>3, Numbers DEF StageOf, o
  <2>4. \A i \in Rates(v, o) :
          IsEnvelope([stage |-> s + 1, volume |-> v, inc |-> i, target |-> o])
    BY <2>1, <2>2, RatesSign DEF IsEnvelope
  <2> QED
    BY <2>1, <2>2, <2>3, <2>4
<1> QED
  BY <1>1, <1>2, <1>3

(* ... and behind the sustain stage, where a voice does not wait, one that *)
(* falls from where it is.                                                 *)
LEMMA StageFalls ==
  ASSUME sample \in Samples, NEW st, NEW e, NEW s \in 3..6, ~Sustains(st, s),
         NEW v \in Nat, NEW next,
         \A u \in Nat : \A y \in next[u] : s < 6 => Falls(y) /\ y.volume <= u,
         NEW x \in StageOf(st, e, s, v, next)
  PROVE  Falls(x) /\ x.volume <= v
<1>1. CASE s > 5 \/ (s > 2 /\ v <= 0)
  BY <1>1, Numbers, RanOutIs DEF StageOf
<1>2. CASE ~(s > 5 \/ (s > 2 /\ v <= 0))
  <2>1. s \in 0..5 /\ s < 6 /\ s + 1 >= 3 /\ ~(s < 2)
    BY <1>2
  <2> DEFINE o == sample.envelope_offset[s]
  <2>2. o \in Nat
    BY <2>1, OffsetNat, Numbers
  <2>3. CASE Passed(s, v)
    <3>1. x \in next[v]
      BY <1>2, <2>3, Numbers DEF StageOf
    <3> QED
      BY <2>1, <3>1
  <2>4. CASE ~Passed(s, v)
    <3>1. o < v
      BY <2>1, <2>2, <2>4, Numbers DEF Passed
    <3> HIDE DEF o
    <3>2. PICK i \in Rates(v, o) :
            x = [stage |-> s + 1, volume |-> v, inc |-> i, target |-> o]
      BY <1>2, <2>1, <2>4, Numbers DEF StageOf, o
    <3>3. i < 0
      BY <2>2, <3>1, RatesSign
    <3> QED
      BY <2>1, <2>2, <3>1, <3>2, <3>3, Numbers DEF Falls
  <2> QED
    BY <2>3, <2>4
<1> QED
  BY <1>1, <1>2

LEMMA RecomputeTyped ==
  ASSUME sample \in Samples, NEW st, NEW e, IsEnvelope(e), NEW x \in Recompute(st, e)
  PROVE  IsEnvelope(x)
<1>1. PICK f : IsFrom(f, st, e) /\ Recompute(st, e) = f[e.stage][e.volume]
  BY FromFunction
<1> DEFINE P(s) == \A u \in Nat : \A y \in f[s][u] : IsEnvelope(y)
<1>2. ASSUME NEW s \in Stages, s < 6 => P(s + 1)
      PROVE  P(s)
  <2> SUFFICES ASSUME NEW u \in Nat, NEW y \in f[s][u] PROVE IsEnvelope(y)
    OBVIOUS
  <2>1. y \in StageOf(st, e, s, u, f[s + 1])
    BY <1>1, FromAt
  <2>2. \A w \in Nat : \A z \in f[s + 1][w] : s < 6 => IsEnvelope(z)
    BY <1>2
  <2> QED
    BY <2>1, <2>2, StageTyped
<1> HIDE DEF P
<1>3. P(6)
  BY <1>2, Numbers
<1>4. P(5)
  BY <1>2, <1>3, Numbers
<1>5. P(4)
  BY <1>2, <1>4, Numbers
<1>6. P(3)
  BY <1>2, <1>5, Numbers
<1>7. P(2)
  BY <1>2, <1>6, Numbers
<1>8. P(1)
  BY <1>2, <1>7, Numbers
<1>9. P(0)
  BY <1>2, <1>8, Numbers
<1>10. e.stage \in 0..6 /\ e.volume \in Nat
  BY Numbers DEF IsEnvelope
<1>11. P(e.stage)
  <2>1. e.stage = 0 \/ e.stage = 1 \/ e.stage = 2 \/ e.stage = 3 \/ e.stage = 4
        \/ e.stage = 5 \/ e.stage = 6
    BY <1>10
  <2> QED
    BY <1>3, <1>4, <1>5, <1>6, <1>7, <1>8, <1>9, <2>1
<1> QED
  BY <1>1, <1>10, <1>11 DEF P

(* A voice that does not wait only falls once it is behind the sustain     *)
(* stage.                                                                  *)
LEMMA RecomputeFalls ==
  ASSUME sample \in Samples, NEW st, \A s \in 3..6 : ~Sustains(st, s),
         NEW e, IsEnvelope(e), e.stage >= 3, NEW x \in Recompute(st, e)
  PROVE  Falls(x) /\ x.volume <= e.volume
<1>1. PICK f : IsFrom(f, st, e) /\ Recompute(st, e) = f[e.stage][e.volume]
  BY FromFunction
<1> DEFINE P(s) == \A u \in Nat : \A y \in f[s][u] : Falls(y) /\ y.volume <= u
<1>2. ASSUME NEW s \in 3..6, s < 6 => P(s + 1)
      PROVE  P(s)
  <2> SUFFICES ASSUME NEW u \in Nat, NEW y \in f[s][u] PROVE Falls(y) /\ y.volume <= u
    OBVIOUS
  <2>1. y \in StageOf(st, e, s, u, f[s + 1])
    BY <1>1, FromAt, Numbers
  <2>2. \A w \in Nat : \A z \in f[s + 1][w] : s < 6 => Falls(z) /\ z.volume <= w
    BY <1>2
  <2> QED
    BY <2>1, <2>2, StageFalls
<1> HIDE DEF P
<1>3. P(6)
  BY <1>2
<1>4. P(5)
  BY <1>2, <1>3
<1>5. P(4)
  BY <1>2, <1>4
<1>6. P(3)
  BY <1>2, <1>5
<1>7. e.stage \in 3..6 /\ e.volume \in Nat
  BY Numbers DEF IsEnvelope
<1>8. P(e.stage)
  <2>1. e.stage = 3 \/ e.stage = 4 \/ e.stage = 5 \/ e.stage = 6
    BY <1>7
  <2> QED
    BY <1>3, <1>4, <1>5, <1>6, <2>1
<1> QED
  BY <1>1, <1>7, <1>8 DEF P

(* The offsets of a sample whose first rates may be passed at once.  *)
LEMMA InstantFalls ==
  ASSUME sample \in Samples, sample.instant
  PROVE  /\ sample.envelope_offset[0] > sample.envelope_offset[1]
         /\ sample.envelope_offset[1] > sample.envelope_offset[2]
<1>1. sample.sf2 /\ \A k \in 0..1 : sample.envelope_offset[k] > sample.envelope_offset[k + 1]
  BY SamplesAssumption
<1>2. 0 \in 0..1 /\ 1 \in 0..1 /\ 0 + 1 = 1 /\ 1 + 1 = 2
  OBVIOUS
<1> QED
  BY <1>1, <1>2

(* A key that is held takes its voice up to the sustain stage, and there   *)
(* at the level of that stage.                                             *)
LEMMA RecomputeHolds ==
  ASSUME sample \in Samples, Enveloped, NEW e, IsEnvelope(e), Holds(e), e.volume = e.target,
         NEW x \in Recompute("on", e)
  PROVE  Holds(x) \/ x = RanOut
<1>1. PICK f : IsFrom(f, "on", e) /\ Recompute("on", e) = f[e.stage][e.volume]
  BY FromFunction
<1> DEFINE o == sample.envelope_offset
           Fit(y) == Holds(y) \/ y = RanOut
<1>2. o[0] \in Nat /\ o[1] \in Nat /\ o[2] \in Nat
  BY OffsetNat, Numbers
<1>3. ASSUME e.target = o[2], NEW u \in Nat, NEW y \in f[3][u]
      PROVE  Fit(y)
  <2>1. y \in StageOf("on", e, 3, u, f[3 + 1])
    BY <1>1, <1>3, FromAt, Numbers
  <2>2. Sustains("on", 3)
    BY Numbers DEF Sustains
  <2>3. y = RanOut \/ y = [e EXCEPT !.stage = 3, !.volume = u]
    BY <2>1, <2>2, Numbers DEF StageOf
  <2>4. Holds([e EXCEPT !.stage = 3, !.volume = u])
    BY <1>3, Numbers DEF Holds, IsEnvelope
  <2> QED
    BY <2>3, <2>4
<1>4. ASSUME NEW s \in 0..2, NEW u \in Nat, NEW y \in f[s][u]
      PROVE  \/ u = o[s] /\ y \in f[s + 1][u]
             \/ u # o[s] /\ sample.instant /\ s < 2 /\ y \in f[s + 1][o[s]]
             \/ Fit(y)
  <2>1. y \in StageOf("on", e, s, u, f[s + 1])
    BY <1>1, FromAt, Numbers
  <2>2. ~Sustains("on", s) /\ (Passed(s, u) <=> u = o[s])
    BY Numbers DEF Sustains, Passed
  <2>3. CASE u = o[s]
    BY <2>1, <2>2, <2>3, Numbers DEF StageOf
  <2>4. CASE u # o[s]
    <3>1. \/ sample.instant /\ s < 2 /\ y \in f[s + 1][o[s]]
          \/ \E i \in Rates(u, o[s]) :
                y = [stage |-> s + 1, volume |-> u, inc |-> i, target |-> o[s]]
      BY <2>1, <2>2, <2>4, Numbers DEF StageOf
    <3>2. \A i : Holds([stage |-> s + 1, volume |-> u, inc |-> i, target |-> o[s]])
      BY Numbers DEF Holds
    <3> QED
      BY <2>4, <3>1, <3>2
  <2> QED
    BY <2>3, <2>4
<1> HIDE DEF Fit
<1>5. ASSUME NEW u \in Nat, u = e.target \/ (sample.instant /\ u = o[1]), NEW y \in f[2][u]
      PROVE  Fit(y)
  <2>1. \/ u = o[2] /\ y \in f[3][u]
        \/ Fit(y)
    BY <1>4, <1>5
  <2>2. CASE u = o[2] /\ y \in f[3][u]
    <3>1. e.target = o[2]
      BY <1>2, <1>5, <2>2, InstantFalls
    <3> QED
      BY <1>3, <2>2, <3>1
  <2> QED
    BY <2>1, <2>2
<1>6. ASSUME NEW u \in Nat, u = e.target \/ (sample.instant /\ u = o[0]), NEW y \in f[1][u]
      PROVE  Fit(y)
  <2>1. \/ u = o[1] /\ y \in f[2][u]
        \/ sample.instant /\ y \in f[2][o[1]]
        \/ Fit(y)
    BY <1>4, <1>6
  <2>2. u = o[1] => u = e.target
    BY <1>2, <1>6, InstantFalls
  <2> QED
    BY <1>2, <1>5, <1>6, <2>1, <2>2
<1>7. ASSUME NEW u \in Nat, u = e.target, NEW y \in f[0][u]
      PROVE  Fit(y)
  <2>1. \/ u = o[0] /\ y \in f[1][u]
        \/ sample.instant /\ y \in f[1][o[0]]
        \/ Fit(y)
    BY <1>4, <1>7
  <2> QED
    BY <1>2, <1>6, <1>7, <2>1
<1>8. e.stage \in 0..3 /\ e.volume \in Nat /\ x \in f[e.stage][e.volume]
  BY <1>1, Numbers DEF IsEnvelope, Holds
<1>9. e.stage = 3 => e.target = o[2]
  BY Numbers DEF Holds
<1>10. e.stage = 0 \/ e.stage = 1 \/ e.stage = 2 \/ e.stage = 3
  BY <1>8
<1>11. Fit(x)
  BY <1>3, <1>5, <1>6, <1>7, <1>8, <1>9, <1>10
<1> QED
  BY <1>11 DEF Fit

LEMMA UpdateTyped ==
  ASSUME sample \in Samples, NEW st, NEW e, IsEnvelope(e), NEW x \in Update(st, e)
  PROVE  IsEnvelope(x)
<1> DEFINE v == e.volume + e.inc
<1>1. CASE e.inc = 0
  BY <1>1 DEF Update
<1>2. CASE e.inc # 0 /\ ((e.inc < 0) # (v > e.target))
  <2>1. x \in Recompute(st, [e EXCEPT !.volume = e.target])
    BY <1>2 DEF Update
  <2>2. IsEnvelope([e EXCEPT !.volume = e.target])
    BY DEF IsEnvelope
  <2> QED
    BY <2>1, <2>2, RecomputeTyped
<1>3. CASE e.inc # 0 /\ ~((e.inc < 0) # (v > e.target))
  <2>1. x = [e EXCEPT !.volume = v]
    BY <1>3 DEF Update
  <2>2. e.volume \in Nat /\ e.inc \in Int /\ e.target \in Nat
    BY DEF IsEnvelope
  <2>3. v \in Nat
    BY <1>3, <2>2
  <2> HIDE DEF v
  <2> QED
    BY <2>1, <2>3 DEF IsEnvelope
<1> QED
  BY <1>1, <1>2, <1>3

LEMMA UpdateFalls ==
  ASSUME sample \in Samples, NEW st, st = "off" \/ ~Enveloped,
         NEW e, IsEnvelope(e), Falls(e), NEW x \in Update(st, e)
  PROVE  Falls(x) /\ x.volume <= e.volume
<1> DEFINE v == e.volume + e.inc
<1>1. e.volume \in Nat /\ e.inc \in Int /\ e.target \in Nat /\ e.stage \in Int
  BY Numbers DEF IsEnvelope
<1>2. CASE e.inc = 0
  <2>1. x = e
    BY <1>2 DEF Update
  <2> QED
    BY <1>1, <2>1
<1>3. CASE e.inc # 0
  <2>1. e.inc < 0 /\ e.target <= e.volume /\ e.stage >= 3
    BY <1>3, Numbers DEF Falls
  <2>2. CASE ~(v > e.target)
    <3>1. x \in Recompute(st, [e EXCEPT !.volume = e.target])
      BY <2>1, <2>2 DEF Update
    <3> DEFINE d == [e EXCEPT !.volume = e.target]
    <3>2. IsEnvelope(d) /\ d.stage = e.stage /\ d.volume = e.target
      BY DEF IsEnvelope
    <3>3. \A s \in 3..6 : ~Sustains(st, s)
      BY DEF Sustains
    <3> HIDE DEF d
    <3>4. d.stage >= 3
      BY <2>1, <3>2
    <3>5. IsEnvelope(x) /\ Falls(x) /\ x.volume <= d.volume
      <4>1. x \in Recompute(st, d)
        BY <3>1 DEF d
      <4> QED
        BY <3>2, <3>3, <3>4, <4>1, RecomputeFalls, RecomputeTyped
    <3>6. x.volume \in Nat
      BY <3>5 DEF IsEnvelope
    <3> QED
      BY <1>1, <2>1, <3>2, <3>5, <3>6
  <2>3. CASE v > e.target
    <3>1. x = [e EXCEPT !.volume = v]
      BY <2>1, <2>3 DEF Update
    <3>2. x.volume = v /\ x.inc = e.inc /\ x.target = e.target /\ x.stage = e.stage
      BY <3>1 DEF IsEnvelope
    <3>3. e.target <= v /\ v <= e.volume
      BY <1>1, <2>1, <2>3
    <3> HIDE DEF v
    <3> QED
      BY <2>1, <3>2, <3>3, Numbers DEF Falls
  <2> QED
    BY <2>2, <2>3
<1> QED
  BY <1>2, <1>3

LEMMA UpdateHolds ==
  ASSUME sample \in Samples, Enveloped, NEW e, IsEnvelope(e), Holds(e),
         NEW x \in Update("on", e)
  PROVE  Holds(x) \/ x = RanOut
<1> DEFINE v == e.volume + e.inc
<1>1. CASE x = e
  BY <1>1
<1>2. CASE x \in Recompute("on", [e EXCEPT !.volume = e.target])
  <2> DEFINE d == [e EXCEPT !.volume = e.target]
  <2>1. IsEnvelope(d) /\ d.volume = d.target /\ d.stage = e.stage /\ d.target = e.target
    BY DEF IsEnvelope
  <2> HIDE DEF d
  <2>2. Holds(d)
    BY <2>1 DEF Holds
  <2>3. x \in Recompute("on", d)
    BY <1>2 DEF d
  <2> QED
    BY <2>1, <2>2, <2>3, RecomputeHolds
<1>3. CASE x = [e EXCEPT !.volume = v]
  <2>1. x.stage = e.stage /\ x.target = e.target
    BY <1>3 DEF IsEnvelope
  <2> QED
    BY <2>1 DEF Holds
<1> QED
  BY <1>1, <1>2, <1>3 DEF Update

-----------------------------------------------------------------------------
(* 2. The envelope of a voice, whatever happens to it.                     *)
EnvelopeInv ==
  /\ sample \in Samples /\ IsEnvelope(envelope)
  /\ status = "off" \/ ~Enveloped => Falls(envelope)
  /\ status = "on" /\ Enveloped => Holds(envelope)

LEMMA EnvelopeInit == Init => EnvelopeInv
<1> SUFFICES ASSUME Init PROVE EnvelopeInv
  OBVIOUS
<1>1. sample \in Samples
  BY DEF Init
<1>2. CASE Enveloped
  <2> DEFINE e == [stage |-> EG_GUS_ATTACK, volume |-> 0, inc |-> 0, target |-> 0]
  <2>1. IsEnvelope(e) /\ Holds(e) /\ e.volume = e.target
    BY Numbers DEF IsEnvelope, Holds
  <2>2. envelope \in Recompute("on", e)
    BY <1>2 DEF Init
  <2> HIDE DEF e
  <2>3. IsEnvelope(envelope) /\ (Holds(envelope) \/ envelope = RanOut)
    BY <1>1, <1>2, <2>1, <2>2, RecomputeTyped, RecomputeHolds
  <2>4. (status = "on" => envelope # RanOut) /\ status # "off"
    BY DEF Init
  <2> QED
    BY <1>1, <1>2, <2>3, <2>4 DEF EnvelopeInv
<1>3. CASE ~Enveloped
  <2>1. PICK v \in Stale : envelope = [stage |-> EG_GUS_ATTACK, volume |-> v, inc |-> 0, target |-> 0]
    BY <1>3 DEF Init
  <2>2. v \in Nat
    BY SoundAssumption
  <2>3. IsEnvelope(envelope) /\ Falls(envelope)
    BY <2>1, <2>2, Numbers DEF IsEnvelope, Falls
  <2> QED
    BY <1>1, <1>3, <2>3 DEF EnvelopeInv
<1> QED
  BY <1>2, <1>3

(* Nothing that leaves the envelope disturbs it, unless a voice becomes    *)
(* "off" or "on".                                                          *)
LEMMA EnvelopeSame ==
  ASSUME EnvelopeInv, fixed' = fixed, envelope' = envelope,
         \/ status' = status \/ status' \notin {"on", "off"}
         \/ (status' = "off" /\ ~Enveloped)
  PROVE  EnvelopeInv'
<1>1. sample' = sample /\ envelope' = envelope /\ Enveloped' = Enveloped
  BY DEF fixed, Enveloped
<1> QED
  BY <1>1 DEF EnvelopeInv, Holds

LEMMA EnvelopeFinish ==
  ASSUME EnvelopeInv, FinishNote
  PROVE  EnvelopeInv'
<1>1. sample' = sample /\ Enveloped' = Enveloped /\ UNCHANGED fixed
  BY DEF FinishNote, fixed, Enveloped
<1>2. CASE Enveloped
  <2> DEFINE d == [envelope EXCEPT !.stage = EG_GUS_RELEASE1]
  <2>1. IsEnvelope(d) /\ d.stage = 3 /\ sample \in Samples
    BY Numbers DEF EnvelopeInv, IsEnvelope
  <2>2. envelope' \in Recompute("off", d) /\ status' \in {"off", "free"}
    BY <1>2 DEF FinishNote
  <2>3. \A s \in 3..6 : ~Sustains("off", s)
    BY DEF Sustains
  <2> HIDE DEF d
  <2>4. d.stage >= 3
    BY <2>1
  <2>5. PICK x : x = envelope'
    OBVIOUS
  <2>6. IsEnvelope(x) /\ Falls(x)
    BY <2>1, <2>2, <2>3, <2>4, <2>5, RecomputeTyped, RecomputeFalls
  <2> QED
    BY <1>1, <1>2, <2>1, <2>2, <2>5, <2>6 DEF EnvelopeInv, IsEnvelope, Falls
<1>3. CASE ~Enveloped
  <2>1. envelope' = envelope /\ status' \in {"off", "free"}
    BY <1>3 DEF FinishNote
  <2> QED
    BY <1>1, <1>3, <2>1, EnvelopeSame
<1> QED
  BY <1>2, <1>3

LEMMA EnvelopeSostenuto ==
  ASSUME EnvelopeInv, Sostenuto
  PROVE  EnvelopeInv'
<1>1. sample' = sample /\ Enveloped' = Enveloped
  BY DEF Sostenuto, fixed, Enveloped
<1> DEFINE d == [envelope EXCEPT !.stage = EG_GUS_RELEASE1]
<1>2. IsEnvelope(d) /\ d.stage = 3 /\ sample \in Samples
  BY Numbers DEF EnvelopeInv, IsEnvelope
<1>3. envelope' \in Recompute("sustained", d) /\ status' \in {"sustained", "free"}
  BY DEF Sostenuto, Continues
<1>4. ~Enveloped => \A s \in 3..6 : ~Sustains("sustained", s)
  BY DEF Sustains
<1> HIDE DEF d
<1>5. d.stage >= 3
  BY <1>2
<1>6. PICK x : x = envelope'
  OBVIOUS
<1>7. IsEnvelope(x) /\ (~Enveloped => Falls(x))
  BY <1>2, <1>3, <1>4, <1>5, <1>6, RecomputeTyped, RecomputeFalls
<1> QED
  BY <1>1, <1>2, <1>3, <1>6, <1>7 DEF EnvelopeInv, IsEnvelope, Falls

LEMMA EnvelopePlay ==
  ASSUME EnvelopeInv, UNCHANGED fixed, NEW n, Play(n)
  PROVE  /\ EnvelopeInv'
         /\ status = "off" => envelope'.volume <= envelope.volume
<1>1. sample' = sample /\ Enveloped' = Enveloped
  BY DEF fixed, Enveloped
<1>2. PICK x \in Update(status, envelope) :
        /\ envelope' = x
        /\ status' = status \/ status' = "free"
        /\ x = RanOut => status' = "free"
  BY DEF Play
<1>3. sample \in Samples /\ IsEnvelope(envelope)
  BY DEF EnvelopeInv
<1>4. IsEnvelope(x)
  BY <1>3, UpdateTyped
<1>5. status = "off" \/ ~Enveloped => Falls(x) /\ x.volume <= envelope.volume
  BY <1>3, UpdateFalls DEF EnvelopeInv
<1>6. status = "on" /\ Enveloped => Holds(x) \/ x = RanOut
  BY <1>3, UpdateHolds DEF EnvelopeInv
<1>7. EnvelopeInv'
  BY <1>1, <1>2, <1>3, <1>4, <1>5, <1>6 DEF EnvelopeInv, IsEnvelope, Falls, Holds
<1> QED
  BY <1>2, <1>5, <1>7

LEMMA EnvelopeStep ==
  ASSUME EnvelopeInv, [Next]_vars
  PROVE  /\ EnvelopeInv'
         /\ status = "off" /\ status' = "off" => envelope'.volume <= envelope.volume
<1>1. envelope.volume \in Nat
  BY DEF EnvelopeInv, IsEnvelope
<1>2. ASSUME NEW sustain \in BOOLEAN, NoteOff(sustain)
      PROVE  EnvelopeInv' /\ status # "off"
  <2>1. CASE sustain
    BY <1>2, <2>1, EnvelopeSame DEF NoteOff
  <2>2. CASE ~sustain
    BY <1>2, <2>2, EnvelopeFinish DEF NoteOff
  <2> QED
    BY <1>2, <2>1, <2>2 DEF NoteOff
<1>3. CASE DropSustain
  BY <1>3, EnvelopeFinish DEF DropSustain
<1>4. CASE Sostenuto
  <2>1. status' # "off"
    BY <1>4 DEF Sostenuto, Continues
  <2> QED
    BY <1>4, <2>1, EnvelopeSostenuto
<1>5. CASE KillNote
  BY <1>5, EnvelopeSame DEF KillNote
<1>6. CASE AdjustVolume
  BY <1>1, <1>6, EnvelopeSame DEF AdjustVolume
<1>7. ASSUME NEW d, AdjustPitch(d)
      PROVE  EnvelopeInv' /\ envelope' = envelope
  BY <1>7, EnvelopeSame DEF AdjustPitch
<1>8. ASSUME Vanish
      PROVE  EnvelopeInv' /\ status' # "off"
  BY <1>8, EnvelopeSame DEF Vanish, Free
<1>9. CASE Mix
  <2>1. CASE status = "die" /\ Vanish
    BY <1>8, <2>1
  <2>2. ASSUME UNCHANGED fixed, NEW n, Wait(n)
        PROVE  EnvelopeInv' /\ envelope' = envelope
    BY <2>2, EnvelopeSame DEF Wait
  <2>3. UNCHANGED fixed
    BY <1>9 DEF Mix, Vanish
  <2> QED
    BY <1>1, <1>9, <2>1, <2>2, <2>3, EnvelopePlay DEF Mix
<1>10. CASE Muted
  BY <1>8, <1>10 DEF Muted
<1>11. CASE UNCHANGED vars
  BY <1>1, <1>11, EnvelopeSame DEF vars
<1> QED
  BY <1>1, <1>2, <1>3, <1>4, <1>5, <1>6, <1>7, <1>9, <1>10, <1>11 DEF Next

(* A held key keeps its sound: its voice never enters a release stage, and *)
(* the level it stays at is that of the sustain stage, by whatever stages  *)
(* it came there and whatever happened to volume, pitch and pedals         *)
(* (mix.c:1555).                                                           *)
THEOREM HeldVoicesSustain == Spec => []HeldAtSustain
<1>1. Init => EnvelopeInv
  BY EnvelopeInit
<1>2. EnvelopeInv /\ [Next]_vars => EnvelopeInv'
  BY EnvelopeStep
<1>3. EnvelopeInv => HeldAtSustain
  BY DEF EnvelopeInv, HeldAtSustain, Holds
<1> QED
  BY <1>1, <1>2, <1>3, PTL DEF Spec

(* A released voice only fades: no stage, no pedal that let it go and no   *)
(* level of the sample's release stages makes it louder (mix.c:1639).      *)
THEOREM ReleasedVoicesFade == Spec => OnlyQuieter
<1>1. Init => EnvelopeInv
  BY EnvelopeInit
<1>2. EnvelopeInv /\ [Next]_vars
      => /\ EnvelopeInv'
         /\ [status = "off" /\ status' = "off" => envelope'.volume <= envelope.volume]_vars
  BY EnvelopeStep
<1> QED
  BY <1>1, <1>2, PTL DEF Spec, OnlyQuieter

-----------------------------------------------------------------------------
(* 3. What a block reads, and where it leaves the cursor.                  *)
LEMMA SampleFacts ==
  ASSUME sample \in Samples, speed \in Speeds \cup {sample.speed}
  PROVE  /\ sample.loop_start \in Nat /\ sample.loop_end \in Nat /\ sample.data_length \in Nat
         /\ sample.loop_start < sample.loop_end /\ sample.loop_end <= sample.data_length
         /\ speed \in Nat /\ 0 < speed
         /\ sample.loop_end - sample.loop_start > speed + 1
         /\ ONE \in Nat /\ 0 < ONE
         /\ sample.starts \subseteq Nat
         /\ "pingpong" \in sample.modes => "looping" \in sample.modes /\ Enveloped
<1>1. sample \in Sample
  BY SamplesAssumption
<1>2. /\ sample.loop_start \in Nat /\ sample.loop_end \in Nat /\ sample.data_length \in Nat
      /\ sample.speed \in Nat \ {0} /\ sample.starts \subseteq Nat
  BY <1>1 DEF Sample
<1>3. speed \in Nat /\ 0 < speed
  BY <1>2, SoundAssumption
<1>4. ONE \in Nat /\ 0 < ONE
  BY SoundAssumption
<1>5. /\ sample.loop_start < sample.loop_end /\ sample.loop_end <= sample.data_length
      /\ sample.loop_end - sample.loop_start > speed + 1
      /\ "pingpong" \in sample.modes => {"envelope", "looping"} \subseteq sample.modes
  BY SamplesAssumption
<1> QED
  BY <1>2, <1>3, <1>4, <1>5 DEF Enveloped

LEMMA Division ==
  ASSUME NEW a \in Int, NEW d \in Nat, 0 < d
  PROVE  /\ a \div d \in Int
         /\ d * (a \div d) <= a /\ a < d * (a \div d) + d
         /\ a \in Nat => a \div d \in Nat
OBVIOUS

LEMMA Times ==
  ASSUME NEW a \in Int, NEW c \in Int, a <= c, NEW d \in Nat
  PROVE  a * d \in Int /\ c * d \in Int /\ a * d <= c * d
<1>1. (c - a) * d \in Nat
  OBVIOUS
<1>2. c * d = a * d + (c - a) * d
  OBVIOUS
<1> QED
  BY <1>1, <1>2

(* the first position a block may read *)
Lowest == Least(ONE * (sample_offset \div ONE), Greatest(0, sample.loop_start - 1))

LEMMA LowestFacts ==
  ASSUME sample \in Samples, speed \in Speeds \cup {sample.speed}, sample_offset \in Nat
  PROVE  /\ Lowest \in Nat /\ Lowest <= sample_offset /\ Lowest <= sample.loop_start
         /\ Lowest <= ONE * (sample_offset \div ONE)
         /\ sample.loop_start > 0 => Lowest <= sample.loop_start - 1
<1>1. ONE * (sample_offset \div ONE) \in Nat /\ ONE * (sample_offset \div ONE) <= sample_offset
  BY Division, SampleFacts
<1>2. sample.loop_start \in Nat
  BY SampleFacts
<1> DEFINE p == ONE * (sample_offset \div ONE)
<1>3. p \in Nat /\ p <= sample_offset
  BY <1>1
<1>4. Lowest = Least(p, Greatest(0, sample.loop_start - 1))
  BY DEF Lowest
<1> HIDE DEF p
<1>5. /\ Lowest \in Nat /\ Lowest <= sample_offset /\ Lowest <= sample.loop_start
      /\ Lowest <= p
      /\ sample.loop_start > 0 => Lowest <= sample.loop_start - 1
  BY <1>2, <1>3, <1>4 DEF Least, Greatest
<1> QED
  BY <1>5 DEF p

(* where the cursor of a voice whose data has not ended may be, outside a  *)
(* ping-pong loop                                                          *)
Room(o) ==
  /\ "looping" \notin sample.modes => o <= sample.data_length
  /\ "looping" \in sample.modes /\ ~Enveloped =>
       \A e \in Speeds \cup {sample.speed} : o < sample.data_length + e

LEMMA RoomInside ==
  ASSUME sample \in Samples, NEW o \in Int, o <= sample.data_length
  PROVE  Room(o)
<1>1. sample.data_length \in Nat /\ sample.speed \in Nat \ {0}
  BY SamplesAssumption DEF Sample
<1>2. \A e \in Speeds \cup {sample.speed} : e \in Nat /\ 0 < e
  BY <1>1, SoundAssumption
<1>3. \A e \in Speeds \cup {sample.speed} : o < sample.data_length + e
  BY <1>1, <1>2
<1> QED
  BY <1>3 DEF Room

(* points before the end `h' of a part of the data *)
LEMMA PointsInside ==
  ASSUME sample \in Samples, speed \in Speeds \cup {sample.speed}, sample_offset \in Nat,
         NEW d \in Nat, d <= sample.data_length, NEW k \in Int,
         k <= d \div ONE - sample_offset \div ONE
  PROVE  /\ Points(k) \subseteq Lowest..(sample.data_length - 1)
         /\ (sample_offset \div ONE + k) * ONE <= d
<1> DEFINE f == sample_offset \div ONE
           h == d \div ONE
<1>1. ONE \in Nat /\ 0 < ONE /\ sample.data_length \in Nat
  BY SampleFacts
<1>2. f \in Nat /\ h \in Nat /\ ONE * h <= d
  BY <1>1, Division
<1>3. Lowest \in Nat /\ Lowest <= ONE * f
  BY LowestFacts
<1>4. Points(k) = {(f + j) * ONE : j \in 0..k - 1} /\ k <= h - f
  BY DEF Points
<1> HIDE DEF f, h
<1>5. h * ONE = ONE * h /\ f * ONE = ONE * f /\ ONE * h \in Int /\ ONE * f \in Int
  BY <1>1, <1>2
<1>6. ASSUME NEW j \in 0..k - 1
      PROVE  (f + j) * ONE \in Lowest..(sample.data_length - 1)
  <2>1. j \in Nat /\ f <= f + j /\ f + j <= h - 1
    BY <1>2, <1>4
  <2>2. f * ONE <= (f + j) * ONE /\ (f + j) * ONE <= (h - 1) * ONE /\ (f + j) * ONE \in Int
    BY <1>1, <1>2, <2>1, Times
  <2>3. (h - 1) * ONE = ONE * h - ONE
    BY <1>1, <1>2
  <2> QED
    BY <1>1, <1>2, <1>3, <1>5, <2>2, <2>3
<1>7. (f + k) * ONE <= h * ONE /\ (f + k) * ONE \in Int
  <2>1. f + k \in Int /\ h \in Int /\ f + k <= h
    BY <1>2, <1>4
  <2> QED
    BY <1>1, <2>1, Times
<1>8. (f + k) * ONE <= d
  BY <1>2, <1>5, <1>7
<1> QED
  BY <1>4, <1>6, <1>8 DEF f

(* a block of data that was resampled before *)
LEMMA AsItIsReads ==
  ASSUME sample \in Samples, speed \in Speeds \cup {sample.speed}, sample_offset \in Nat,
         sample_offset <= sample.data_length, NEW n \in Nat
  PROVE  /\ AsItIs(n).at \subseteq Lowest..(sample.data_length - 1)
         /\ ~AsItIs(n).ended => AsItIs(n).ofs \in Nat /\ Room(AsItIs(n).ofs)
<1> DEFINE d == sample.data_length
           left == d \div ONE - sample_offset \div ONE
           ends == 0 <= left /\ left <= n
           k == IF ends THEN left ELSE n
<1>1. ONE \in Nat /\ 0 < ONE /\ d \in Nat
  BY SampleFacts
<1>2. /\ AsItIs(n).at = Points(k) /\ AsItIs(n).ended = ends
      /\ ~ends => AsItIs(n).ofs = sample_offset + n * ONE
  BY DEF AsItIs
<1>3. /\ sample_offset \div ONE \in Nat
      /\ ONE * (sample_offset \div ONE) <= sample_offset
      /\ sample_offset < ONE * (sample_offset \div ONE) + ONE
      /\ d \div ONE \in Nat /\ d < ONE * (d \div ONE) + ONE
  <2>1. /\ sample_offset \div ONE \in Nat
        /\ ONE * (sample_offset \div ONE) <= sample_offset
        /\ sample_offset < ONE * (sample_offset \div ONE) + ONE
    BY <1>1, Division
  <2> HIDE DEF d
  <2>2. d \div ONE \in Nat /\ d < ONE * (d \div ONE) + ONE
    BY <1>1, Division
  <2> QED
    BY <2>1, <2>2
<1>4. 0 <= left
  <2> DEFINE f == sample_offset \div ONE
             h == d \div ONE
  <2>1. f \in Nat /\ h \in Nat /\ ONE * f <= sample_offset /\ d < ONE * h + ONE
    BY <1>3
  <2> HIDE DEF f, h
  <2>2. CASE f <= h
    BY <2>1, <2>2 DEF f, h
  <2>3. CASE ~(f <= h)
    <3>1. (h + 1) * ONE <= f * ONE /\ (h + 1) * ONE \in Int /\ f * ONE \in Int
      <4>1. h + 1 \in Int /\ f \in Int /\ h + 1 <= f
        BY <2>1, <2>3
      <4> QED
        BY <1>1, <4>1, Times
    <3>2. (h + 1) * ONE = ONE * h + ONE /\ f * ONE = ONE * f
      BY <1>1, <2>1
    <3> QED
      BY <1>1, <2>1, <3>1, <3>2
  <2> QED
    BY <2>2, <2>3
<1>5. left \in Int /\ k \in Int /\ k <= left
  BY <1>3, <1>4
<1>6. AsItIs(n).at \subseteq Lowest..(sample.data_length - 1)
  <2> HIDE DEF k
  <2>1. Points(k) \subseteq Lowest..(sample.data_length - 1)
    BY <1>1, <1>5, PointsInside
  <2> QED
    BY <1>2, <2>1
<1>7. ASSUME ~ends
      PROVE  sample_offset + n * ONE \in Nat /\ sample_offset + n * ONE <= d
  <2> DEFINE f == sample_offset \div ONE
             h == d \div ONE
  <2>1. n + 1 <= h - f /\ n + 1 \in Int
    BY <1>4, <1>5, <1>7
  <2>2. (f + (n + 1)) * ONE <= d
    BY <1>1, <2>1, PointsInside
  <2>3. f \in Nat /\ sample_offset < ONE * f + ONE
    BY <1>3
  <2> HIDE DEF f, h
  <2>4. (f + (n + 1)) * ONE = ONE * f + n * ONE + ONE /\ n * ONE \in Nat /\ ONE * f \in Nat
    BY <1>1, <2>3
  <2> QED
    BY <1>1, <2>2, <2>3, <2>4
<1> HIDE DEF ends, k, left
<1>8. ~ends => AsItIs(n).ofs \in Nat /\ Room(AsItIs(n).ofs)
  <2> SUFFICES ASSUME ~ends PROVE AsItIs(n).ofs \in Nat /\ Room(AsItIs(n).ofs)
    OBVIOUS
  <2>1. AsItIs(n).ofs \in Nat /\ AsItIs(n).ofs <= sample.data_length
    BY <1>2, <1>7
  <2> QED
    BY <2>1, RoomInside
<1> QED
  BY <1>2, <1>6, <1>8

(* a block of a cached sample outside its loop *)
LEMMA PlainCachedReads ==
  ASSUME sample \in Samples, speed \in Speeds \cup {sample.speed}, sample_offset \in Nat,
         NEW n \in Nat
  PROVE  /\ PlainCached(n).at \subseteq Lowest..(sample.data_length - 1)
         /\ ~PlainCached(n).ended => PlainCached(n).ofs \in Nat /\ Room(PlainCached(n).ofs)
<1> DEFINE f == sample_offset \div ONE
           h == sample.loop_end \div ONE
           k == Least(n, h - f)
<1>1. /\ ONE \in Nat /\ 0 < ONE /\ sample.loop_end \in Nat
      /\ sample.loop_end <= sample.data_length /\ sample.data_length \in Nat
  BY SampleFacts
<1>2. f \in Nat /\ h \in Nat
  BY <1>1, Division
<1>3. /\ PlainCached(n).at = Points(k) /\ PlainCached(n).ofs = (f + k) * ONE
      /\ PlainCached(n).ended = (f + k = h)
  BY DEF PlainCached
<1>4. k \in Int /\ k <= h - f /\ (f + k # h => k = n)
  BY <1>2 DEF Least
<1> HIDE DEF k
<1>5. Points(k) \subseteq Lowest..(sample.data_length - 1) /\ (f + k) * ONE <= sample.loop_end
  BY <1>1, <1>4, PointsInside
<1> HIDE DEF f, h
<1>6. f + k # h => (f + k) * ONE \in Nat
  <2> SUFFICES ASSUME k = n PROVE (f + k) * ONE \in Nat
    BY <1>4
  <2>1. f + k \in Nat
    BY <1>2
  <2> QED
    BY <1>1, <2>1
<1>7. f + k # h => Room((f + k) * ONE)
  <2> SUFFICES ASSUME f + k # h PROVE Room((f + k) * ONE)
    OBVIOUS
  <2>1. (f + k) * ONE \in Int
    BY <1>6
  <2>2. (f + k) * ONE <= sample.data_length
    BY <1>1, <1>5, <2>1
  <2> QED
    BY <2>1, <2>2, RoomInside
<1> QED
  BY <1>3, <1>5, <1>6, <1>7

(* a block outside a loop, from a cursor that is not an increment behind   *)
(* the end                                                                 *)
LEMMA PlainReads ==
  ASSUME sample \in Samples, speed \in Speeds \cup {sample.speed}, sample_offset \in Nat,
         sample_offset < sample.data_length + speed, NEW n \in Nat
  PROVE  /\ Plain(n).at \subseteq Lowest..(sample.data_length - 1)
         /\ ~Plain(n).ended => Plain(n).ofs \in Nat /\ Room(Plain(n).ofs)
<1> DEFINE e == sample.data_length
           a == e - sample_offset + speed - 1
           k == Least(n, a \div speed)
<1>1. e \in Nat /\ speed \in Nat /\ 0 < speed
  BY SampleFacts
<1>2. Plain(n).at = {sample_offset + j * speed : j \in 0..(k - 1)}
      /\ Plain(n).ofs = sample_offset + k * speed
      /\ (~Plain(n).ended => ~(sample_offset + k * speed >= e))
  <2>1. ~(sample_offset >= e + speed)
    BY <1>1
  <2> QED
    BY <2>1 DEF Plain
<1>3. a \in Nat /\ a = e - sample_offset + speed - 1 /\ e = sample.data_length
  BY <1>1
<1>4. k = Least(n, a \div speed)
  OBVIOUS
<1> HIDE DEF a, e
<1>5. a \div speed \in Nat /\ speed * (a \div speed) <= a
  BY <1>1, <1>3, Division
<1> DEFINE q == a \div speed
<1>6. q \in Nat /\ speed * q <= a /\ k = Least(n, q)
  BY <1>4, <1>5
<1> HIDE DEF q, k
<1>7. k \in Nat /\ k <= q
  BY <1>6 DEF Least
<1>8. Lowest \in Nat /\ Lowest <= sample_offset
  BY LowestFacts
<1>9. ASSUME NEW j \in 0..(k - 1)
      PROVE  sample_offset + j * speed \in Lowest..(sample.data_length - 1)
  <2>1. j \in Nat /\ j <= q - 1
    BY <1>6, <1>7
  <2>2. j * speed \in Nat /\ j * speed <= (q - 1) * speed /\ (q - 1) * speed \in Int
    BY <1>1, <1>6, <2>1, Times
  <2>3. (q - 1) * speed = speed * q - speed /\ speed * q \in Int
    BY <1>1, <1>6
  <2> QED
    BY <1>1, <1>3, <1>6, <1>8, <2>2, <2>3
<1>10. k * speed \in Nat
  BY <1>1, <1>7
<1>11. Plain(n).at \subseteq Lowest..(sample.data_length - 1)
  BY <1>2, <1>9
<1> DEFINE o == sample_offset + k * speed
<1>12. o \in Nat /\ Plain(n).ofs = o /\ (~Plain(n).ended => ~(o >= e))
  BY <1>2, <1>10
<1> HIDE DEF o
<1>13. ~Plain(n).ended => Room(o)
  BY <1>1, <1>3, <1>12, RoomInside
<1> QED
  BY <1>11, <1>12, <1>13

(* A set of numbers that is not empty has a least one: with it the walks   *)
(* below are shown to exist and to keep what each of their steps keeps.    *)
LEMMA LeastNatural ==
  ASSUME NEW T \in SUBSET Nat, T # {}
  PROVE  \E n \in T : \A m \in T : n <= m
<1>1. PICK n \in T : \A m \in T : <<m, n>> \notin OpToRel(<, Nat)
  BY NatLessThanWellFounded, WFMin
<1>2. \A m \in T : ~(m < n)
  BY <1>1 DEF OpToRel
<1> QED
  BY <1>2

(* a block in a loop: one position of its walk *)
Return(o) ==
  LET ll == sample.loop_end - sample.loop_start
  IN  IF o < sample.loop_end THEN o
      ELSE o - ll * ((o - sample.loop_end) \div ll + 1)
LoopStart == [at |-> {}, ofs |-> sample_offset]
LoopNext(w) == [at |-> w.at \cup {Return(w.ofs)}, ofs |-> Return(w.ofs) + speed]
IsLoopWalk(f, n) == f = [k \in 0..n |-> IF k = 0 THEN LoopStart ELSE LoopNext(f[k - 1])]

LEMMA LoopWalkExists ==
  ASSUME NEW n \in Nat
  PROVE  \E f : IsLoopWalk(f, n)
<1> DEFINE T == {k \in Nat : ~ \E f : IsLoopWalk(f, k)}
<1> SUFFICES ASSUME T # {} PROVE FALSE
  OBVIOUS
<1>1. PICK k \in T : \A j \in T : k <= j
  BY LeastNatural
<1>2. k \in Nat /\ ~ \E f : IsLoopWalk(f, k)
  BY <1>1
<1>3. CASE k = 0
  <2> DEFINE f == [j \in 0..0 |-> LoopStart]
  <2>1. IsLoopWalk(f, 0)
    BY DEF IsLoopWalk
  <2> QED
    BY <1>2, <1>3, <2>1
<1>4. CASE k # 0
  <2>1. k - 1 \in Nat /\ ~(k <= k - 1)
    BY <1>2, <1>4
  <2>2. PICK g : IsLoopWalk(g, k - 1)
    BY <1>1, <2>1
  <2> DEFINE f == [j \in 0..k |-> IF j = k THEN LoopNext(g[k - 1]) ELSE g[j]]
  <2>3. \A j \in 0..k - 1 : g[j] = IF j = 0 THEN LoopStart ELSE LoopNext(g[j - 1])
    BY <2>2 DEF IsLoopWalk
  <2>4. \A j \in 0..k : f[j] = IF j = 0 THEN LoopStart ELSE LoopNext(f[j - 1])
    <3> SUFFICES ASSUME NEW j \in 0..k
                 PROVE  f[j] = IF j = 0 THEN LoopStart ELSE LoopNext(f[j - 1])
      OBVIOUS
    <3>1. CASE j = k
      <4>1. f[j] = LoopNext(g[k - 1]) /\ f[k - 1] = g[k - 1] /\ j # 0
        BY <1>2, <1>4, <2>1, <3>1
      <4> QED
        BY <3>1, <4>1
    <3>2. CASE j # k /\ j # 0
      <4>1. j \in 0..k - 1 /\ j - 1 \in 0..k /\ j - 1 # k
        BY <1>2, <3>2
      <4> QED
        BY <2>3, <3>2, <4>1
    <3>3. CASE j # k /\ j = 0
      BY <1>2, <1>4, <2>1, <2>3, <3>3
    <3> QED
      BY <3>1, <3>2, <3>3
  <2>5. f = [j \in 0..k |-> f[j]]
    OBVIOUS
  <2> HIDE DEF f
  <2>6. IsLoopWalk(f, k)
    BY <2>4, <2>5 DEF IsLoopWalk
  <2> QED
    BY <1>2, <2>6
<1> QED
  BY <1>3, <1>4

LEMMA LoopWalk ==
  ASSUME NEW n \in Nat
  PROVE  \E f : IsLoopWalk(f, n) /\ Loop(n).at = f[n].at /\ Loop(n).ofs = f[n].ofs
<1> DEFINE f == CHOOSE g : g = [k \in 0..n |-> IF k = 0 THEN LoopStart ELSE LoopNext(g[k - 1])]
<1>1. Loop(n).at = f[n].at /\ Loop(n).ofs = f[n].ofs
  BY DEF Loop, LoopStart, LoopNext, Return
<1>2. \E g : g = [k \in 0..n |-> IF k = 0 THEN LoopStart ELSE LoopNext(g[k - 1])]
  BY LoopWalkExists DEF IsLoopWalk
<1>3. IsLoopWalk(f, n)
  BY <1>2 DEF IsLoopWalk
<1> QED
  BY <1>1, <1>3

LEMMA ReturnInside ==
  ASSUME sample \in Samples, speed \in Speeds \cup {sample.speed}, NEW o \in Nat, Lowest <= o,
         Lowest \in Nat, Lowest <= sample.loop_start
  PROVE  Return(o) \in Nat /\ Lowest <= Return(o) /\ Return(o) < sample.loop_end
<1>1. sample.loop_start \in Nat /\ sample.loop_end \in Nat /\ sample.loop_start < sample.loop_end
  BY SampleFacts
<1>2. CASE o < sample.loop_end
  BY <1>2 DEF Return
<1>3. CASE ~(o < sample.loop_end)
  <2> DEFINE ll == sample.loop_end - sample.loop_start
             q == (o - sample.loop_end) \div ll
  <2>1. ll \in Nat /\ 0 < ll /\ o - sample.loop_end \in Nat
    BY <1>1, <1>3
  <2>2. Return(o) = o - ll * (q + 1) /\ ll = sample.loop_end - sample.loop_start
    BY <1>3 DEF Return
  <2>3. q = (o - sample.loop_end) \div ll
    OBVIOUS
  <2> HIDE DEF ll
  <2>4. q \in Nat /\ ll * q <= o - sample.loop_end /\ o - sample.loop_end < ll * q + ll
    BY <2>1, <2>3, Division
  <2> HIDE DEF q
  <2>5. ll * (q + 1) = ll * q + ll /\ ll * q \in Int
    BY <2>1, <2>4
  <2> QED
    BY <1>1, <1>3, <2>1, <2>2, <2>4, <2>5
<1> QED
  BY <1>2, <1>3

LEMMA LoopReads ==
  ASSUME sample \in Samples, speed \in Speeds \cup {sample.speed}, sample_offset \in Nat,
         NEW n \in Nat
  PROVE  /\ Loop(n).at \subseteq Lowest..(sample.loop_end - 1)
         /\ Loop(n).ofs \in Nat
         /\ Loop(n).ofs = sample_offset \/ Loop(n).ofs < sample.loop_end + speed
<1>1. PICK f : IsLoopWalk(f, n) /\ Loop(n).at = f[n].at /\ Loop(n).ofs = f[n].ofs
  BY LoopWalk
<1> DEFINE Good(w) == /\ w.at \subseteq Lowest..(sample.loop_end - 1)
                      /\ w.ofs \in Nat /\ Lowest <= w.ofs
                      /\ w.ofs = sample_offset \/ w.ofs < sample.loop_end + speed
           T == {k \in 0..n : ~Good(f[k])}
<1>2. /\ Lowest \in Nat /\ Lowest <= sample_offset /\ Lowest <= sample.loop_start
      /\ sample.loop_end \in Nat /\ speed \in Nat
  BY LowestFacts, SampleFacts
<1>3. ASSUME NEW k \in 0..n
      PROVE  f[k] = IF k = 0 THEN LoopStart ELSE LoopNext(f[k - 1])
  <2> DEFINE h == [j \in 0..n |-> IF j = 0 THEN LoopStart ELSE LoopNext(f[j - 1])]
  <2>1. f = h
    BY <1>1 DEF IsLoopWalk
  <2>2. h[k] = IF k = 0 THEN LoopStart ELSE LoopNext(f[k - 1])
    OBVIOUS
  <2> HIDE DEF h
  <2> QED
    BY <2>1, <2>2
<1>4. Good(LoopStart)
  BY <1>2 DEF LoopStart
<1>5. ASSUME NEW w, Good(w)
      PROVE  Good(LoopNext(w))
  <2>1. Return(w.ofs) \in Nat /\ Lowest <= Return(w.ofs) /\ Return(w.ofs) < sample.loop_end
    BY <1>2, <1>5, ReturnInside
  <2>2. LoopNext(w).at = w.at \cup {Return(w.ofs)} /\ LoopNext(w).ofs = Return(w.ofs) + speed
    BY DEF LoopNext
  <2>3. Return(w.ofs) \in Lowest..(sample.loop_end - 1)
    BY <1>2, <2>1
  <2> QED
    BY <1>2, <1>5, <2>1, <2>2, <2>3
<1> HIDE DEF Good
<1>6. T = {}
  <2> SUFFICES ASSUME T # {} PROVE FALSE
    OBVIOUS
  <2>1. T \in SUBSET Nat
    OBVIOUS
  <2>2. PICK k \in T : \A j \in T : k <= j
    BY <2>1, LeastNatural
  <2>3. k \in 0..n /\ ~Good(f[k])
    OBVIOUS
  <2>4. k # 0
    BY <1>3, <1>4, <2>3
  <2>5. k - 1 \in 0..n /\ ~(k <= k - 1)
    BY <2>3, <2>4
  <2>6. Good(f[k - 1])
    BY <2>2, <2>5
  <2> QED
    BY <1>3, <1>5, <2>3, <2>4, <2>6
<1>7. n \in 0..n
  OBVIOUS
<1>8. Good(f[n])
  BY <1>6, <1>7
<1> QED
  BY <1>1, <1>8 DEF Good

(* a block in a ping-pong loop: its walk *)
BidirStart(n) ==
  LET t == IF n = 0 THEN <<sample_offset, direction>>
           ELSE Turn(sample_offset, direction, FALSE)
  IN  [at |-> {}, ofs |-> t[1], dir |-> t[2], ended |-> FALSE]
BidirNext(w, last) ==
  LET t == Turn(w.ofs + w.dir * speed, w.dir, last)
  IN  [at |-> w.at \cup {w.ofs}, ofs |-> t[1], dir |-> t[2], ended |-> FALSE]
IsBidirWalk(f, m, n) ==
  f = [k \in 0..m |-> IF k = 0 THEN BidirStart(n) ELSE BidirNext(f[k - 1], k = n)]

LEMMA BidirWalkExists ==
  ASSUME NEW n \in Nat, NEW m \in Nat
  PROVE  \E f : IsBidirWalk(f, m, n)
<1> DEFINE T == {k \in Nat : ~ \E f : IsBidirWalk(f, k, n)}
<1> SUFFICES ASSUME T # {} PROVE FALSE
  OBVIOUS
<1>1. PICK k \in T : \A j \in T : k <= j
  BY LeastNatural
<1>2. k \in Nat /\ ~ \E f : IsBidirWalk(f, k, n)
  BY <1>1
<1>3. CASE k = 0
  <2> DEFINE f == [j \in 0..0 |-> BidirStart(n)]
  <2>1. IsBidirWalk(f, 0, n)
    BY DEF IsBidirWalk
  <2> QED
    BY <1>2, <1>3, <2>1
<1>4. CASE k # 0
  <2>1. k - 1 \in Nat /\ ~(k <= k - 1)
    BY <1>2, <1>4
  <2>2. PICK g : IsBidirWalk(g, k - 1, n)
    BY <1>1, <2>1
  <2> DEFINE f == [j \in 0..k |-> IF j = k THEN BidirNext(g[k - 1], k = n) ELSE g[j]]
  <2>3. \A j \in 0..k - 1 :
          g[j] = IF j = 0 THEN BidirStart(n) ELSE BidirNext(g[j - 1], j = n)
    BY <2>2 DEF IsBidirWalk
  <2>4. \A j \in 0..k :
          f[j] = IF j = 0 THEN BidirStart(n) ELSE BidirNext(f[j - 1], j = n)
    <3> SUFFICES ASSUME NEW j \in 0..k
                 PROVE  f[j] = IF j = 0 THEN BidirStart(n) ELSE BidirNext(f[j - 1], j = n)
      OBVIOUS
    <3>1. CASE j = k
      <4>1. f[j] = BidirNext(g[k - 1], j = n) /\ f[k - 1] = g[k - 1] /\ j # 0
        BY <1>2, <1>4, <2>1, <3>1
      <4> QED
        BY <3>1, <4>1
    <3>2. CASE j # k /\ j # 0
      <4>1. j \in 0..k - 1 /\ j - 1 \in 0..k /\ j - 1 # k
        BY <1>2, <3>2
      <4> QED
        BY <2>3, <3>2, <4>1
    <3>3. CASE j # k /\ j = 0
      BY <1>2, <1>4, <2>1, <2>3, <3>3
    <3> QED
      BY <3>1, <3>2, <3>3
  <2>5. f = [j \in 0..k |-> f[j]]
    OBVIOUS
  <2> HIDE DEF f
  <2>6. IsBidirWalk(f, k, n)
    BY <2>4, <2>5 DEF IsBidirWalk
  <2> QED
    BY <1>2, <2>6
<1> QED
  BY <1>3, <1>4

LEMMA BidirWalk ==
  ASSUME NEW n \in Nat
  PROVE  \E f : IsBidirWalk(f, n, n) /\ Bidir(n) = f[n]
<1> DEFINE f == CHOOSE g :
         g = [k \in 0..n |-> IF k = 0 THEN BidirStart(n) ELSE BidirNext(g[k - 1], k = n)]
<1>1. Bidir(n) = f[n]
  BY DEF Bidir, BidirStart, BidirNext
<1>2. \E g : g = [k \in 0..n |-> IF k = 0 THEN BidirStart(n) ELSE BidirNext(g[k - 1], k = n)]
  BY BidirWalkExists DEF IsBidirWalk
<1>3. IsBidirWalk(f, n, n)
  BY <1>2 DEF IsBidirWalk
<1> QED
  BY <1>1, <1>3

(* where the cursor of a ping-pong loop may be, from the position `low' on *)
Swings(o, dir, low) ==
  \/ dir = 1 /\ o \in low..sample.loop_end
  \/ dir = -1 /\ o \in (sample.loop_start - 1)..sample.loop_end

(* The overshoot at either end is folded back into the loop, since the     *)
(* loop is longer than an increment.                                       *)
LEMMA TurnSwings ==
  ASSUME sample \in Samples, speed \in Speeds \cup {sample.speed}, sample.loop_start > 0,
         NEW low \in Nat, low <= sample.loop_start - 1,
         NEW o \in Int, NEW dir, NEW last \in BOOLEAN,
         \/ Swings(o, dir, low)
         \/ Swings(o - dir * speed, dir, low)
  PROVE  /\ Turn(o, dir, last)[1] \in Int
         /\ Swings(Turn(o, dir, last)[1], Turn(o, dir, last)[2], low)
<1>1. /\ sample.loop_start \in Nat /\ sample.loop_end \in Nat
      /\ speed \in Nat /\ 0 < speed
      /\ sample.loop_end - sample.loop_start > speed + 1
  BY SampleFacts
<1> DEFINE ls == sample.loop_start
           le == sample.loop_end
<1>2. CASE dir = 1
  <2>1. low <= o /\ o <= le + speed
    BY <1>1, <1>2 DEF Swings
  <2>2. CASE o >= le
    <3>1. Turn(o, dir, last)[1] = 2 * le - o /\ Turn(o, dir, last)[2] = -1
      BY <1>2, <2>2 DEF Turn
    <3>2. 2 * le - o \in (ls - 1)..le
      BY <1>1, <2>1, <2>2
    <3> QED
      BY <3>1, <3>2 DEF Swings
  <2>3. CASE ~(o >= le)
    <3>1. Turn(o, dir, last)[1] = o /\ Turn(o, dir, last)[2] = 1
      BY <1>2, <2>3 DEF Turn
    <3> QED
      BY <1>1, <2>1, <2>3, <3>1 DEF Swings
  <2> QED
    BY <2>2, <2>3
<1>3. CASE dir = -1
  <2>1. ls - 1 - speed <= o /\ o <= le
    BY <1>1, <1>3 DEF Swings
  <2>2. CASE o < ls - 1 \/ (last /\ o <= ls)
    <3>1. Turn(o, dir, last)[1] = 2 * ls - o /\ Turn(o, dir, last)[2] = 1
      BY <1>3, <2>2 DEF Turn
    <3>2. 2 * ls - o \in low..le
      BY <1>1, <2>1, <2>2
    <3> QED
      BY <3>1, <3>2 DEF Swings
  <2>3. CASE ~(o < ls - 1 \/ (last /\ o <= ls))
    <3>1. Turn(o, dir, last)[1] = o /\ Turn(o, dir, last)[2] = -1
      BY <1>3, <2>3 DEF Turn
    <3> QED
      BY <1>1, <2>1, <2>3, <3>1 DEF Swings
  <2> QED
    BY <2>2, <2>3
<1> QED
  BY <1>2, <1>3 DEF Swings

LEMMA BidirReads ==
  ASSUME sample \in Samples, speed \in Speeds \cup {sample.speed}, sample.loop_start > 0,
         sample_offset \in Nat, Swings(sample_offset, direction, 0), NEW n \in Nat
  PROVE  /\ Bidir(n).at \subseteq Lowest..sample.loop_end
         /\ Swings(Bidir(n).ofs, Bidir(n).dir, 0) /\ Bidir(n).ofs \in Nat
<1>1. PICK f : IsBidirWalk(f, n, n) /\ Bidir(n) = f[n]
  BY BidirWalk
<1> DEFINE Good(w) == /\ w.at \subseteq Lowest..sample.loop_end
                      /\ w.ofs \in Int /\ Swings(w.ofs, w.dir, Lowest)
           T == {k \in 0..n : ~Good(f[k])}
<1>2. /\ Lowest \in Nat /\ Lowest <= sample_offset /\ Lowest <= sample.loop_start - 1
      /\ sample.loop_end \in Nat /\ sample.loop_start \in Nat /\ speed \in Nat
  BY LowestFacts, SampleFacts
<1>3. ASSUME NEW k \in 0..n
      PROVE  f[k] = IF k = 0 THEN BidirStart(n) ELSE BidirNext(f[k - 1], k = n)
  <2> DEFINE h == [j \in 0..n |-> IF j = 0 THEN BidirStart(n) ELSE BidirNext(f[j - 1], j = n)]
  <2>1. f = h
    BY <1>1 DEF IsBidirWalk
  <2>2. h[k] = IF k = 0 THEN BidirStart(n) ELSE BidirNext(f[k - 1], k = n)
    OBVIOUS
  <2> HIDE DEF h
  <2> QED
    BY <2>1, <2>2
<1>4. Good(BidirStart(n))
  <2>1. Swings(sample_offset, direction, Lowest)
    BY <1>2 DEF Swings
  <2>2. CASE n = 0
    <3>1. /\ BidirStart(n).at = {} /\ BidirStart(n).ofs = sample_offset
          /\ BidirStart(n).dir = direction
      BY <2>2 DEF BidirStart
    <3> QED
      BY <2>1, <3>1
  <2>3. CASE n # 0
    <3> DEFINE t == Turn(sample_offset, direction, FALSE)
    <3>1. BidirStart(n).at = {} /\ BidirStart(n).ofs = t[1] /\ BidirStart(n).dir = t[2]
      BY <2>3 DEF BidirStart
    <3>2. sample_offset \in Int /\ FALSE \in BOOLEAN
      OBVIOUS
    <3>3. t[1] \in Int /\ Swings(t[1], t[2], Lowest)
      BY <1>2, <2>1, <3>2, TurnSwings
    <3> HIDE DEF t
    <3> QED
      BY <3>1, <3>3
  <2> QED
    BY <2>2, <2>3
<1>5. ASSUME NEW w, Good(w), NEW last \in BOOLEAN
      PROVE  Good(BidirNext(w, last))
  <2>1. w.ofs \in Int /\ (w.dir = 1 \/ w.dir = -1)
    BY <1>5 DEF Swings
  <2> DEFINE o == w.ofs + w.dir * speed
             t == Turn(o, w.dir, last)
  <2>2. o \in Int /\ o - w.dir * speed = w.ofs
    BY <1>2, <2>1
  <2>3. o = w.ofs + w.dir * speed
    OBVIOUS
  <2>4. /\ BidirNext(w, last).at = w.at \cup {w.ofs}
        /\ BidirNext(w, last).ofs = t[1] /\ BidirNext(w, last).dir = t[2]
    BY DEF BidirNext
  <2> HIDE DEF o
  <2>5. t[1] \in Int /\ Swings(t[1], t[2], Lowest)
    <3>1. Swings(o - w.dir * speed, w.dir, Lowest)
      BY <1>5, <2>2
    <3> QED
      BY <1>2, <2>2, <3>1, TurnSwings
  <2> HIDE DEF t
  <2>6. w.ofs \in Lowest..sample.loop_end
    BY <1>2, <1>5, <2>1 DEF Swings
  <2> QED
    BY <1>5, <2>4, <2>5, <2>6
<1> HIDE DEF Good
<1>6. T = {}
  <2> SUFFICES ASSUME T # {} PROVE FALSE
    OBVIOUS
  <2>1. T \in SUBSET Nat
    OBVIOUS
  <2>2. PICK k \in T : \A j \in T : k <= j
    BY <2>1, LeastNatural
  <2>3. k \in 0..n /\ ~Good(f[k])
    OBVIOUS
  <2>4. k # 0
    BY <1>3, <1>4, <2>3
  <2>5. k - 1 \in 0..n /\ ~(k <= k - 1)
    BY <2>3, <2>4
  <2>6. Good(f[k - 1]) /\ (k = n) \in BOOLEAN
    BY <2>2, <2>5
  <2>7. f[k] = BidirNext(f[k - 1], k = n)
    BY <1>3, <2>3, <2>4
  <2>8. Good(BidirNext(f[k - 1], k = n))
    BY <1>5, <2>6
  <2> QED
    BY <2>3, <2>7, <2>8
<1>7. n \in 0..n
  OBVIOUS
<1>8. Good(f[n])
  BY <1>6, <1>7
<1>9. Swings(f[n].ofs, f[n].dir, 0) /\ f[n].ofs \in Nat /\ f[n].at \subseteq Lowest..sample.loop_end
  BY <1>2, <1>8 DEF Good, Swings
<1> QED
  BY <1>1, <1>9

-----------------------------------------------------------------------------
(* 4. Every block of every voice.                                          *)

(* While a voice sounds whose data has not ended, its cursor is where the  *)
(* next block can start, at whatever pitch.  A free voice never comes back.*)
Runs == Sounding /\ ~timeout /\ Roomy(sample)
Fit(o, dir) ==
  o \in Nat /\ Room(o) /\ ("pingpong" \in sample.modes => Swings(o, dir, 0))
CursorInv ==
  /\ sample \in Samples /\ speed \in Speeds \cup {sample.speed} /\ delay \in Nat
  /\ Runs => Fit(sample_offset, direction)

(* the last position a block may read *)
Last == IF IsAsItIs \/ ~Looped THEN sample.data_length - 1
        ELSE IF "pingpong" \in sample.modes THEN sample.loop_end
        ELSE sample.loop_end - 1

LEMMA ResampledReads ==
  ASSUME CursorInv, Runs, NEW n \in Nat
  PROVE  /\ Resampled(n).at \subseteq Lowest..Last
         /\ ~Resampled(n).ended => Fit(Resampled(n).ofs, Resampled(n).dir)
<1>1. /\ sample \in Samples /\ speed \in Speeds \cup {sample.speed}
      /\ sample_offset \in Nat /\ Room(sample_offset)
      /\ "pingpong" \in sample.modes => Swings(sample_offset, direction, 0)
  BY DEF CursorInv, Fit
<1>2. "pingpong" \in sample.modes => ~IsAsItIs /\ Looped /\ "looping" \in sample.modes /\ Enveloped
  <2>1. "pingpong" \in sample.modes => "looping" \in sample.modes /\ Enveloped
    BY <1>1, SampleFacts
  <2>2. sample.resampled = "pre" => "looping" \notin sample.modes
    BY <1>1, SamplesAssumption
  <2> QED
    BY <2>1, <2>2 DEF IsAsItIs, Looped
<1>3. CASE IsAsItIs
  <2>1. Resampled(n) = AsItIs(n) /\ Last = sample.data_length - 1
    BY <1>3 DEF Resampled, Last
  <2>2. sample_offset <= sample.data_length
    <3>1. "looping" \notin sample.modes
      BY <1>1, <1>3, SamplesAssumption DEF IsAsItIs
    <3> QED
      BY <1>1, <3>1 DEF Room
  <2> QED
    BY <1>1, <1>2, <1>3, <2>1, <2>2, AsItIsReads DEF Fit
<1>4. CASE ~IsAsItIs /\ ~Looped /\ cache /\ speed = ONE
  <2>1. Resampled(n) = PlainCached(n) /\ Last = sample.data_length - 1
    BY <1>4 DEF Resampled, Last
  <2> QED
    BY <1>1, <1>2, <1>4, <2>1, PlainCachedReads DEF Fit
<1>5. CASE ~IsAsItIs /\ ~Looped /\ ~(cache /\ speed = ONE)
  <2>1. Resampled(n) = Plain(n) /\ Last = sample.data_length - 1
    BY <1>5 DEF Resampled, Last
  <2>2. sample_offset < sample.data_length + speed
    <3>1. sample.data_length \in Nat /\ speed \in Nat /\ 0 < speed
      BY <1>1, SampleFacts
    <3>2. "looping" \notin sample.modes \/ ("looping" \in sample.modes /\ ~Enveloped)
      BY <1>5 DEF Looped
    <3> QED
      BY <1>1, <3>1, <3>2 DEF Room
  <2> QED
    BY <1>1, <1>2, <1>5, <2>1, <2>2, PlainReads DEF Fit
<1>6. CASE ~IsAsItIs /\ Looped /\ "pingpong" \in sample.modes
  <2>1. Resampled(n) = Bidir(n) /\ Last = sample.loop_end
    BY <1>6 DEF Resampled, Last
  <2>2. sample.loop_start > 0 /\ Swings(sample_offset, direction, 0)
    BY <1>1, <1>6 DEF Runs, Roomy
  <2>3. /\ Bidir(n).at \subseteq Lowest..sample.loop_end
        /\ Swings(Bidir(n).ofs, Bidir(n).dir, 0) /\ Bidir(n).ofs \in Nat
    BY <1>1, <2>2, BidirReads
  <2>4. Room(Bidir(n).ofs)
    BY <1>2, <1>6 DEF Room
  <2> QED
    BY <2>1, <2>3, <2>4 DEF Fit
<1>7. CASE ~IsAsItIs /\ Looped /\ "pingpong" \notin sample.modes
  <2>1. Resampled(n) = Loop(n) /\ Last = sample.loop_end - 1
    BY <1>7 DEF Resampled, Last
  <2>2. /\ Loop(n).at \subseteq Lowest..(sample.loop_end - 1)
        /\ Loop(n).ofs \in Nat
        /\ Loop(n).ofs = sample_offset \/ Loop(n).ofs < sample.loop_end + speed
    BY <1>1, LoopReads
  <2> DEFINE o == Loop(n).ofs
  <2>3. Room(o)
    <3>1. CASE o = sample_offset
      BY <1>1, <3>1
    <3>2. CASE o < sample.loop_end + speed
      <4>1. "looping" \in sample.modes
        BY <1>7 DEF Looped
      <4>2. ASSUME ~Enveloped, NEW e \in Speeds \cup {sample.speed}
            PROVE  o < sample.data_length + e
        <5>1. sample.loop_end + speed <= sample.data_length + e
          BY <1>1, <4>1, <4>2 DEF Runs, Roomy, Enveloped
        <5>2. /\ e \in Nat /\ sample.loop_end \in Nat /\ sample.data_length \in Nat
              /\ speed \in Nat /\ o \in Nat
          <6>1. sample.speed \in Nat
            BY <1>1, SamplesAssumption DEF Sample
          <6> QED
            BY <1>1, <2>2, <6>1, SampleFacts, SoundAssumption
        <5> HIDE DEF o
        <5> QED
          BY <3>2, <5>1, <5>2
      <4> QED
        BY <4>1, <4>2 DEF Room
    <3> QED
      BY <2>2, <3>1, <3>2
  <2> QED
    BY <1>7, <2>1, <2>2, <2>3 DEF Fit
<1> QED
  BY <1>3, <1>4, <1>5, <1>6, <1>7

LEMMA CursorInit == Init => CursorInv
<1> SUFFICES ASSUME Init PROVE CursorInv
  OBVIOUS
<1>1. /\ sample \in Samples /\ speed \in Speeds \cup {sample.speed}
      /\ direction = 1 /\ delay \in Delays
  BY DEF Init
<1>2. delay \in Nat
  BY <1>1, SoundAssumption
<1>3. PICK o \in sample.starts :
        sample_offset = IF "looping" \in sample.modes /\ o > sample.loop_end
                        THEN sample.loop_start ELSE o
  BY DEF Init
<1>4. /\ o \in Nat /\ sample.loop_start \in Nat /\ sample.loop_end \in Nat
      /\ sample.data_length \in Nat
      /\ sample.loop_start < sample.loop_end /\ sample.loop_end <= sample.data_length
      /\ "pingpong" \in sample.modes => "looping" \in sample.modes
  BY <1>1, SampleFacts
<1>5. sample_offset \in Nat
  BY <1>3, <1>4
<1>6. "looping" \in sample.modes => sample_offset <= sample.loop_end
  BY <1>3, <1>4
<1>7. "pingpong" \in sample.modes => Swings(sample_offset, direction, 0)
  BY <1>1, <1>4, <1>5, <1>6 DEF Swings
<1>8. Sounding => sample_offset <= sample.data_length
  <2>1. Sounding /\ "looping" \notin sample.modes => ~(sample_offset > sample.data_length)
    BY DEF Init, Sounding
  <2> QED
    BY <1>4, <1>5, <1>6, <2>1
<1>9. Runs => Room(sample_offset)
  BY <1>1, <1>5, <1>8, RoomInside DEF Runs
<1> QED
  BY <1>1, <1>2, <1>5, <1>7, <1>9 DEF CursorInv, Fit

LEMMA CursorSame ==
  ASSUME CursorInv, fixed' = fixed, sample_offset' = sample_offset, direction' = direction,
         speed' \in Speeds \cup {sample.speed}, delay' \in Nat, timeout' = timeout,
         Sounding' => Sounding
  PROVE  CursorInv'
<1>1. sample' = sample
  BY DEF fixed
<1>2. Fit(sample_offset, direction) => Fit(sample_offset, direction)'
  BY <1>1 DEF Fit, Room, Swings, Enveloped
<1>3. Runs' => Runs
  BY <1>1 DEF Runs, Roomy
<1> QED
  BY <1>1, <1>2, <1>3 DEF CursorInv

LEMMA CursorPlay ==
  ASSUME CursorInv, Sounding, fixed' = fixed, NEW n \in Nat, Play(n)
  PROVE  CursorInv'
<1>1. sample' = sample
  BY DEF fixed
<1> DEFINE c == Resampled(n)
<1>2. /\ delay' = 0 /\ speed' = speed
      /\ sample_offset' = c.ofs /\ direction' = c.dir
      /\ timeout' = (timeout \/ c.ended)
  BY DEF Play
<1>3. Runs /\ ~c.ended => Fit(c.ofs, c.dir)
  BY ResampledReads
<1> HIDE DEF c
<1>4. Runs' => Runs /\ ~c.ended
  BY <1>1, <1>2 DEF Runs, Roomy
<1>5. Fit(c.ofs, c.dir) => Fit(sample_offset, direction)'
  BY <1>1, <1>2 DEF Fit, Room, Swings, Enveloped
<1> QED
  BY <1>1, <1>2, <1>3, <1>4, <1>5 DEF CursorInv

LEMMA CursorStep ==
  ASSUME CursorInv, [Next]_vars
  PROVE  CursorInv'
<1>1. speed \in Speeds \cup {sample.speed} /\ delay \in Nat
  BY DEF CursorInv
<1>2. CASE /\ fixed' = fixed /\ cursor' = cursor /\ delay' = delay /\ timeout' = timeout
           /\ Sounding' => Sounding
  <2>1. sample_offset' = sample_offset /\ direction' = direction /\ speed' = speed
    BY <1>2 DEF cursor
  <2>2. speed' \in Speeds \cup {sample.speed} /\ delay' \in Nat
    BY <1>1, <1>2, <2>1
  <2> QED
    BY <1>2, <2>1, <2>2, CursorSame
<1>3. ASSUME NEW sustain \in BOOLEAN, NoteOff(sustain)
      PROVE  CursorInv'
  BY <1>2, <1>3 DEF NoteOff, FinishNote, Sounding
<1>4. CASE DropSustain \/ Sostenuto \/ KillNote \/ AdjustVolume \/ Muted
  BY <1>2, <1>4 DEF DropSustain, FinishNote, Sostenuto, KillNote, AdjustVolume, Muted,
                    Vanish, Free, Sounding
<1>5. ASSUME NEW d \in Speeds \cup {sample.speed}, AdjustPitch(d)
      PROVE  CursorInv'
  <2>1. /\ fixed' = fixed /\ sample_offset' = sample_offset /\ direction' = direction
        /\ speed' = d /\ delay' = delay /\ timeout' = timeout /\ Sounding
    BY <1>5 DEF AdjustPitch
  <2> QED
    BY <1>1, <2>1, CursorSame
<1>6. CASE Mix
  <2>1. CASE status = "die" /\ Vanish
    BY <1>2, <2>1 DEF Vanish, Free, Sounding
  <2>2. CASE status # "die" \/ ~Vanish
    <3>1. PICK n \in Blocks : IF n < delay THEN Wait(n) ELSE Play(n - delay)
      BY <1>6, <2>2 DEF Mix
    <3>2. n \in Nat /\ fixed' = fixed /\ Sounding
      BY <1>6, <2>2, SoundAssumption DEF Mix, Sounding
    <3>3. CASE n < delay
      <4>1. delay' = delay - n /\ cursor' = cursor /\ timeout' = timeout
        BY <3>1, <3>3 DEF Wait
      <4>2. delay' \in Nat
        BY <1>1, <3>2, <3>3, <4>1
      <4>3. sample_offset' = sample_offset /\ direction' = direction /\ speed' = speed
        BY <4>1 DEF cursor
      <4>4. speed' \in Speeds \cup {sample.speed}
        BY <1>1, <4>3
      <4> QED
        BY <3>2, <4>1, <4>2, <4>3, <4>4, CursorSame
    <3>4. CASE ~(n < delay)
      <4>1. n - delay \in Nat /\ Play(n - delay)
        BY <1>1, <3>1, <3>2, <3>4
      <4> QED
        BY <3>2, <4>1, CursorPlay
    <3> QED
      BY <3>3, <3>4
  <2> QED
    BY <2>1, <2>2
<1>7. CASE UNCHANGED vars
  BY <1>2, <1>7 DEF vars, Sounding
<1> QED
  BY <1>3, <1>4, <1>5, <1>6, <1>7 DEF Next

(* The blocks of a voice read the data of its sample only, and behind the  *)
(* end of a loop never: at whatever pitch the cursor came to either end,   *)
(* and whatever the pitch is now, rs_plain(), rs_loop() and rs_bidir()     *)
(* fold its overshoot back (resample.c:783).  That is, of every sample     *)
(* that is roomy, until its data has ended.                                *)
THEOREM VoicesReadInside == Spec => []ReadsInside
<1>1. Init => CursorInv
  BY CursorInit
<1>2. CursorInv /\ [Next]_vars => CursorInv'
  BY CursorStep
<1>3. CursorInv => ReadsInside
  <2> SUFFICES ASSUME CursorInv, status \in {"on", "sustained", "off"}, ~timeout,
                      Roomy(sample), NEW n \in Blocks
               PROVE  Resampled(n).at \subseteq
                        Least(ONE * (sample_offset \div ONE),
                              Greatest(0, sample.loop_start - 1))..Last
    BY DEF ReadsInside, Last
  <2>1. n \in Nat
    BY SoundAssumption
  <2>2. Runs
    BY DEF Runs, Sounding
  <2> QED
    BY <2>1, <2>2, ResampledReads DEF Lowest
<1> QED
  BY <1>1, <1>2, <1>3, PTL DEF Spec

=============================================================================
