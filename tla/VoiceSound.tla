------------------------------ MODULE VoiceSound -----------------------------
(***************************************************************************)
(* The life of one voice, from start_note() to the free slot: the volume   *)
(* envelope of timidity/mix.c, the cursor resample.c keeps in the sample,  *)
(* and what playmidi.c does to both when the key, the pedals, the volume   *)
(* or the pitch change.                                                    *)
(*                                                                         *)
(* Volumes, rates and amplitudes are abstract: a stage may take any rate   *)
(* the code's limits allow, and a voice is silent at volume 0 or when its  *)
(* channel or velocity is.  Positions keep their fraction.  A block is one *)
(* control period, so it updates the envelope once; tremolo, vibrato,      *)
(* portamento and filters, which only shape the sound, are left out.       *)
(***************************************************************************)
EXTENDS Integers, FiniteSetsExt

CONSTANTS
  Samples,    \* the samples that occur, each as `Sample' describes
  ONE,        \* 1 << FRACTION_BITS
  Speeds,     \* sample increments pitch bends lead to
  Delays,     \* vp->delay of a new voice
  Blocks,     \* output samples of a control period
  Widths,     \* `envelope_width' for the pedals' positions
  Stale,      \* envelope_volume the slot kept from its last note
  Settings    \* min_sustain_time with the file's pcm_mode # PCM_MODE_NON

EG_GUS_ATTACK == 0
EG_SF_DECAY == 2
EG_GUS_SUSTAIN == 2
EG_GUS_RELEASE1 == 3
EG_GUS_RELEASE3 == 5

Sample == [modes: SUBSET {"envelope", "looping", "pingpong"},
           sf2: BOOLEAN,       \* inst_type = INST_SF2
           instant: BOOLEAN,   \* its first rates exceed OFFSET_MAX
           envelope_offset: [0..EG_GUS_RELEASE3 -> Nat],
           loop_start: Nat, loop_end: Nat, data_length: Nat,
           speed: Nat \ {0},   \* its increment at the note's own pitch
           resampled: {"no", "pre", "cached"},
           starts: SUBSET Nat] \* sample_offset of special samples, or 0
ASSUME SamplesAssumption ==
  \A s \in Samples :
    /\ s \in Sample
    /\ s.loop_start < s.loop_end /\ s.loop_end <= s.data_length
    \* rs_loop() hopes "the loop is longer than an increment"
    /\ \A d \in Speeds \cup {s.speed} : s.loop_end - s.loop_start > d + 1
    \* recache.c unrolls ping-pong loops, pre_resample() takes no loops
    /\ s.resampled # "no" => s.speed = ONE /\ s.starts = {0} /\ "pingpong" \notin s.modes
    /\ s.resampled = "pre" => "looping" \notin s.modes
    /\ "pingpong" \in s.modes => {"envelope", "looping"} \subseteq s.modes
    \* sndfont.c: 65535, 65534, at most 65533, then 0; only its rates exceed
    /\ s.sf2 => /\ \A k \in 0..1 : s.envelope_offset[k] > s.envelope_offset[k + 1]
                /\ \A k \in 3..5 : s.envelope_offset[k] = 0
    /\ s.instant => s.sf2
ASSUME SoundAssumption ==
  /\ ONE \in Nat \ {0} /\ Speeds \subseteq Nat \ {0} /\ Widths \subseteq Nat \ {0}
  /\ Delays \subseteq Nat /\ Blocks \subseteq Nat /\ Stale \subseteq Nat
  /\ Settings \subseteq Nat \X BOOLEAN

VARIABLES
  sample, min_sustain_time, pcm_mode,     \* fixed for the voice
  status,
  envelope,     \* envelope_stage, _volume, _increment and _target
  loud,         \* left_amp or right_amp is not 0
  sample_offset, direction, speed,        \* sample_increment: sign and size
  cache, delay, timeout,
  started       \* current_sample > 1

fixed == <<sample, min_sustain_time, pcm_mode>>
cursor == <<sample_offset, direction, speed, cache>>
vars == <<fixed, status, envelope, loud, cursor, delay, timeout, started>>

Enveloped == "envelope" \in sample.modes
Sounding == status # "free"
Least(a, b) == IF a <= b THEN a ELSE b
Greatest(a, b) == IF a >= b THEN a ELSE b

-----------------------------------------------------------------------------
(* The envelope *)

RanOut == [stage |-> EG_GUS_RELEASE3 + 1, volume |-> 0, inc |-> 0, target |-> 0]

(* the increments next_stage() may choose between v and the stage's offset, *)
(* from the slowest to the fastest                                          *)
Rates(v, offset) ==
  IF offset < v THEN -(v - offset + 1)..-1 ELSE 1..offset - v + 1

(* the decay recompute_envelope() gives a sustained voice *)
SustainDecay(v) ==
  IF sample.sf2
  THEN {[stage |-> EG_GUS_RELEASE1, volume |-> v, inc |-> -1,
         target |-> Greatest(v - w, 0)] : w \in Widths}
  ELSE {[stage |-> EG_GUS_RELEASE1, volume |-> v, inc |-> -i, target |-> 0] :
          i \in 1..Greatest(1, Max({v \div w : w \in Widths}))}

SustainsWhenDown(st, s) ==                                          \* mutant
  s = EG_GUS_RELEASE1 /\ Enveloped /\ st = "sustained" /\ min_sustain_time # 1
(* the stage where a held voice waits *)
Sustains(st, s) ==
  /\ s = EG_GUS_RELEASE1 /\ Enveloped
  /\ st = "on" \/ (st = "sustained" /\ min_sustain_time # 1)

ReachedOnly(s, v) == v = sample.envelope_offset[s]                  \* mutant
(* next_stage() passes over a stage that has nothing to do *)
Passed(s, v) ==
  LET offset == sample.envelope_offset[s]
  IN  v = offset \/ (s > EG_GUS_SUSTAIN /\ v < offset)

(* what recompute_envelope() and next_stage() may make of the envelope e of *)
(* a voice whose status is st                                               *)
Recompute(st, e) ==
  LET from[s \in 0..EG_GUS_RELEASE3 + 1] ==
        [v \in Nat |->
           IF s > EG_GUS_RELEASE3 \/ (s > EG_GUS_SUSTAIN /\ v <= 0) THEN {RanOut}
           ELSE IF Sustains(st, s)
           THEN IF st = "on" \/ min_sustain_time = 0
                THEN {[e EXCEPT !.stage = s, !.volume = v]} ELSE SustainDecay(v)
           ELSE IF Passed(s, v) THEN from[s + 1][v]
           ELSE LET offset == sample.envelope_offset[s]
                IN  {[stage |-> s + 1, volume |-> v, inc |-> i, target |-> offset] :
                       i \in Rates(v, offset)}
                    \cup IF sample.instant /\ s < EG_SF_DECAY
                         THEN from[s + 1][offset] ELSE {}]
  IN  from[e.stage][e.volume]

(* update_envelope() *)
Update(st, e) ==
  LET v == e.volume + e.inc
  IN  IF e.inc = 0 THEN {e}
      ELSE IF (e.inc < 0) # (v > e.target)
      THEN Recompute(st, [e EXCEPT !.volume = e.target])
      ELSE {[e EXCEPT !.volume = v]}

(* apply_envelope_to_amp() frees a released voice that cannot be heard *)
Silent(st, e, audible) ==
  /\ st \in {"off", "sustained"}
  /\ ~audible \/ (Enveloped /\ e.volume = 0)

-----------------------------------------------------------------------------
(* The cursor: the positions read for n output samples, and what is left *)

TurnAtEnds(o, dir, last) ==                                         \* mutant
  CASE dir = 1 /\ o >= sample.loop_end -> <<o, -1>>
    [] dir = -1 /\ o <= sample.loop_start -> <<o, 1>>
    [] OTHER -> <<o, dir>>
(* the overshoot of rs_bidir() is folded back: forward as soon as the end  *)
(* is reached, backward a position later unless the block ends there       *)
Turn(o, dir, last) ==
  CASE dir = 1 /\ o >= sample.loop_end -> <<2 * sample.loop_end - o, -1>>
    [] dir = -1 /\ (o < sample.loop_start - 1 \/ (last /\ o <= sample.loop_start)) ->
         <<2 * sample.loop_start - o, 1>>
    [] OTHER -> <<o, dir>>

(* rs_bidir() *)
Bidir(n) ==
  LET walk[k \in 0..n] ==
        IF k = 0
        THEN LET t == IF n = 0 THEN <<sample_offset, direction>>
                      ELSE Turn(sample_offset, direction, FALSE)
             IN  [at |-> {}, ofs |-> t[1], dir |-> t[2], ended |-> FALSE]
        ELSE LET w == walk[k - 1]
                 t == Turn(w.ofs + w.dir * speed, w.dir, k = n)
             IN  [at |-> w.at \cup {w.ofs}, ofs |-> t[1], dir |-> t[2], ended |-> FALSE]
  IN  walk[n]

(* rs_loop(), and rs_loop_c() for a cached sample *)
Loop(n) ==
  LET ll == sample.loop_end - sample.loop_start
      Back(o) == IF o < sample.loop_end THEN o
                 ELSE o - ll * ((o - sample.loop_end) \div ll + 1)
      walk[k \in 0..n] ==
        IF k = 0 THEN [at |-> {}, ofs |-> sample_offset]
        ELSE LET o == Back(walk[k - 1].ofs)
             IN  [at |-> walk[k - 1].at \cup {o}, ofs |-> o + speed]
  IN  [at |-> walk[n].at, ofs |-> walk[n].ofs, dir |-> direction, ended |-> FALSE]

(* the points from the cursor on, unchanged: `k' of them are asked for *)
Points(k) == {(sample_offset \div ONE + j) * ONE : j \in 0..k - 1}

(* rs_plain_c() of a cached sample, which stops at the end of the loop *)
PlainCached(n) ==
  LET first == sample_offset \div ONE
      le == sample.loop_end \div ONE
      k == Least(n, le - first)
  IN  [at |-> Points(k), ofs |-> (first + k) * ONE, dir |-> direction,
       ended |-> first + k = le]

(* rs_plain().  PRECALC_LOOP_COUNT is unsigned: a cursor that is an        *)
(* increment or more behind the end counts as one 2^32 before it.          *)
Plain(n) ==
  LET le == sample.data_length
      k == IF sample_offset >= le + speed THEN n
           ELSE Least(n, (le - sample_offset + speed - 1) \div speed)
      o == sample_offset + k * speed
  IN  [at |-> {sample_offset + j * speed : j \in 0..k - 1}, ofs |-> o,
       dir |-> direction, ended |-> o >= le]

(* the data that needs no resampling, whose rest is unsigned too *)
AsItIs(n) ==
  LET left == sample.data_length \div ONE - sample_offset \div ONE
      ends == 0 <= left /\ left <= n
  IN  [at |-> Points(IF ends THEN left ELSE n),
       ofs |-> IF ends THEN sample_offset ELSE sample_offset + n * ONE,
       dir |-> direction, ended |-> ends]

LoopedForever == "looping" \in sample.modes                         \* mutant
(* a sample without envelope leaves its loop when the key is released *)
Looped ==
  "looping" \in sample.modes /\ (Enveloped \/ status \in {"on", "sustained"})
IsAsItIs == sample.resampled = "pre" /\ speed = ONE

(* resample_voice() *)
Resampled(n) ==
  IF IsAsItIs THEN AsItIs(n)
  ELSE IF ~Looped THEN IF cache /\ speed = ONE THEN PlainCached(n) ELSE Plain(n)
  ELSE IF "pingpong" \in sample.modes THEN Bidir(n) ELSE Loop(n)

-----------------------------------------------------------------------------
Free ==
  /\ status' = "free"
  /\ UNCHANGED <<envelope, cursor, delay, timeout>>

(* the voice goes on with status st and one of the envelopes es, unless it *)
(* ran out                                                                 *)
Continues(st, es) ==
  \E e \in es :
    /\ envelope' = e
    /\ status' = IF e = RanOut THEN "free" ELSE st

(* start_note(), in a slot that was used before *)
Init ==
  /\ sample \in Samples
  /\ \E set \in Settings : min_sustain_time = set[1] /\ pcm_mode = set[2]
  /\ sample_offset \in {IF "looping" \in sample.modes /\ o > sample.loop_end
                        THEN sample.loop_start ELSE o : o \in sample.starts}
  /\ direction = 1 /\ speed = sample.speed /\ cache = (sample.resampled = "cached")
  /\ delay \in Delays /\ timeout = FALSE /\ started \in BOOLEAN
  /\ loud \in BOOLEAN
  /\ IF Enveloped
     THEN envelope \in Recompute("on", [stage |-> EG_GUS_ATTACK, volume |-> 0,
                                        inc |-> 0, target |-> 0])
     ELSE \E v \in Stale : envelope = [stage |-> EG_GUS_ATTACK, volume |-> v,
                                       inc |-> 0, target |-> 0]
  /\ status = IF \/ "looping" \notin sample.modes /\ sample_offset > sample.data_length
                 \/ envelope = RanOut
              THEN "free" ELSE "on"

(* finish_note() *)
FinishNote ==
  /\ IF Enveloped
     THEN \E e \in Recompute("off", [envelope EXCEPT !.stage = EG_GUS_RELEASE1]) :
            /\ envelope' = e
            /\ status' = IF e = RanOut \/ Silent("off", e, loud) THEN "free" ELSE "off"
     ELSE status' = (IF pcm_mode THEN "free" ELSE "off") /\ UNCHANGED envelope
  /\ UNCHANGED <<fixed, loud, cursor, delay, timeout, started>>

(* the key is released, with the pedal down or up *)
NoteOff(sustain) ==
  /\ status = "on"
  /\ IF sustain
     THEN status' = "sustained" /\ UNCHANGED <<fixed, envelope, loud, cursor, delay, timeout, started>>
     ELSE FinishNote

(* drop_sustain() *)
DropSustain == status = "sustained" /\ FinishNote

(* update_sostenuto_controls(), update_redamper_controls() *)
Sostenuto ==
  /\ status \in {"on", "off"}
  /\ Continues("sustained",
       Recompute("sustained", [envelope EXCEPT !.stage = EG_GUS_RELEASE1]))
  /\ UNCHANGED <<fixed, loud, cursor, delay, timeout, started>>

(* kill_note() *)
KillNote ==
  /\ status \in {"on", "sustained", "off"}
  /\ status' = "die"
  /\ UNCHANGED <<fixed, envelope, loud, cursor, delay, timeout, started>>

(* adjust_volume() *)
AdjustVolume ==
  /\ status \in {"on", "sustained"}
  /\ loud' \in BOOLEAN
  /\ status' = IF Silent(status, envelope, loud') THEN "free" ELSE status
  /\ UNCHANGED <<fixed, envelope, cursor, delay, timeout, started>>

(* recompute_freq(): the direction is kept, the cached copy fits one pitch *)
AdjustPitch(d) ==
  /\ Sounding
  /\ speed' = d /\ cache' = (cache /\ d = sample.speed)
  /\ UNCHANGED <<fixed, status, envelope, loud, sample_offset, direction, delay, timeout, started>>

(* mix_voice() of a dying voice, or of one whose channel is muted *)
Vanish ==
  /\ Free
  /\ started' = TRUE /\ UNCHANGED <<fixed, loud>>

(* mix_voice() with n output samples, and the end do_compute_data() makes  *)
(* of a voice whose data ended                                             *)
Wait(n) ==
  /\ delay' = delay - n
  /\ UNCHANGED <<status, envelope, cursor, timeout>>

Play(n) ==
  LET c == Resampled(n)
  IN  /\ delay' = 0
      /\ sample_offset' = c.ofs /\ direction' = c.dir
      /\ timeout' = (timeout \/ c.ended)
      /\ \E e \in Update(status, envelope) :
           /\ envelope' = e
           /\ status' = IF \/ e = RanOut
                           \/ timeout' /\ started
                           \/ envelope.inc # 0 /\ Silent(status, e, loud)
                        THEN "free" ELSE status
      /\ UNCHANGED <<speed, cache>>     \* a ping-pong loop has no cached copy

Mix ==
  \/ status = "die" /\ Vanish
  \/ /\ status \in {"on", "sustained", "off"}
     /\ \E n \in Blocks : IF n < delay THEN Wait(n) ELSE Play(n - delay)
     /\ started' = TRUE
     /\ UNCHANGED <<fixed, loud>>

Muted == Sounding /\ Vanish

Next ==
  \/ \E sustain \in BOOLEAN : NoteOff(sustain)
  \/ DropSustain \/ Sostenuto \/ KillNote
  \/ AdjustVolume \/ \E d \in Speeds \cup {sample.speed} : AdjustPitch(d)
  \/ Mix \/ Muted

(* compute_data() is called as long as the song plays *)
Spec == Init /\ [][Next]_vars /\ WF_vars(Mix)

-----------------------------------------------------------------------------
(* A key that is held keeps its sound: its voice never enters a release    *)
(* stage, and once the envelope has come to the sustain stage, the level   *)
(* it moves to and then stays at is the sustain level, however it got      *)
(* there and whatever the volume and the pedals of the channel do          *)
(* (mix.c:1555).                                                           *)
HeldAtSustain ==
  status = "on" /\ Enveloped =>
    /\ envelope.stage <= EG_GUS_RELEASE1
    /\ envelope.stage = EG_GUS_RELEASE1 =>
         envelope.target = sample.envelope_offset[EG_GUS_SUSTAIN]

(* A sample that rs_bidir() and rs_plain() stay inside of: a ping-pong     *)
(* loop does not begin with the data, where an overshoot is folded back a  *)
(* position late (resample.c:783, 417), and behind a loop that is left     *)
(* when the key is released there is the data the overshoot of one         *)
(* increment has more than another increment (resample.c:608).             *)
Roomy(s) ==
  /\ "pingpong" \in s.modes => s.loop_start > 0
  /\ "looping" \in s.modes /\ "envelope" \notin s.modes =>
       \A d, e \in Speeds \cup {s.speed} : s.loop_end + d <= s.data_length + e

(* The next block reads the data of the sample only, and a voice in a loop *)
(* never reads behind its end: whatever the pitch was when the cursor came *)
(* to either end, in whichever direction it runs.  A ping-pong loop may    *)
(* stop exactly at its end and a position before its start (resample.c:783).*)
(* Excepted, because they do read behind the data after a bend down: a     *)
(* sample that is not roomy, such as a cached loop without envelope, whose *)
(* data ends with the loop; and a voice whose data ended in the first      *)
(* block of the song, which is mixed once more (playmidi.c:6811).          *)
ReadsInside ==
  status \in {"on", "sustained", "off"} /\ ~timeout /\ Roomy(sample) =>
    \A n \in Blocks :
      LET end == IF IsAsItIs \/ ~Looped THEN sample.data_length - 1
                 ELSE IF "pingpong" \in sample.modes THEN sample.loop_end
                 ELSE sample.loop_end - 1
      IN  Resampled(n).at \subseteq
            Least(ONE * (sample_offset \div ONE),
                  Greatest(0, sample.loop_start - 1))..end

(* A released voice only fades: its volume never rises again, whatever the *)
(* levels of the sample's release stages are (mix.c:1639).                 *)
OnlyQuieter ==
  [][status = "off" /\ status' = "off" => envelope'.volume <= envelope.volume]_vars

(* A voice that nobody holds gives its slot back: it cannot stay released  *)
(* or dying for ever, nor held by a pedal if held notes decay at all       *)
(* (min_sustain_time) and its sample has an envelope.                      *)
Unheld ==
  \/ status \in {"off", "die"}
  \/ status = "sustained" /\ Enveloped /\ min_sustain_time > 0
ReleasedEnds == []<>~Unheld
=============================================================================
