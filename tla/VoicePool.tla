----------------------------- MODULE VoicePool -----------------------------
(***************************************************************************)
(* The voices of timidity/playmidi.c: note_on() selects and starts them,   *)
(* note_off(), the pedals and the mode messages release them, mixing lets  *)
(* them run out, and reduce_voice(), voice_decrement() and their relatives *)
(* take them away when the polyphony or the computer is too small.         *)
(*                                                                         *)
(* Amplitudes, frequencies and envelopes are left out: the voice "with the *)
(* lowest volume" is any of the candidates, a voice whose envelope or data *)
(* ends is freed whenever the code may notice it.  A handler is one step;  *)
(* only the loops of the polyphony reduction take a step per round (`work` *)
(* keeps every other handler out meanwhile).                               *)
(***************************************************************************)
EXTENDS Integers, FiniteSets

CONSTANTS
  MaxVoices,       \* max_voices, the length of voice[]
  ByteMod,         \* 2^8: vidq_head, vidq_tail and chorus_link are uint8
  Channels, Notes,
  AltGroups,       \* alternate assign: sets of notes that cut each other
  Setups           \* the options, instruments and songs that occur

EventKinds == {"note", "offset", "pedals", "sounds_off", "controllers",
               "mono", "assign", "system_reset", "tune", "polyphony", "restart",
               "song_end"}

ASSUME VoicesAssumption == MaxVoices \in Nat \ {0}
ASSUME ByteAssumption == ByteMod \in Nat \ {0}
ASSUME AltAssumption == AltGroups \subseteq SUBSET Notes

Setup == [voices: 1..MaxVoices,      \* -p: the polyphony
          overlap: BOOLEAN,          \* opt_overlap_voice_allow
          surround: BOOLEAN,         \* opt_surround_chorus
          layers: SUBSET (1..2),     \* samples an instrument plays at once
          drums: SUBSET Channels,    \* ISDRUMCHANNEL
          notes: SUBSET Notes,       \* the notes of the song
          events: SUBSET EventKinds, \* its events and the user's requests
          pending: Nat]              \* bound: notes of a key waiting for
                                     \* their Note Off
ASSUME SetupsAssumption == Setups \subseteq Setup

VARIABLES
  setup,          \* what start-up and the song fixed
  voice,          \* voice[i]: status, channel, note, vid, proximate_flag and
                  \* whether its sample has note_to_use (a drum decay)
  chorus_link,
  upper_voices, voices,
  old_voices,     \* of restore_voices()
  vidq_head, vidq_tail,
  channel,        \* sustain, sostenuto, damper_mode, mono, assign_mode
  pc,             \* "play"; "fade" and "ended" in midi_play_end()
  work,           \* the reduction loop that runs, and its rounds to go
  cleared         \* history: channels whose pedals Reset All Controllers
                  \* lifted since their sustained notes were last dropped

vidVars == <<vidq_head, vidq_tail>>
poolVars == <<voice, chorus_link, upper_voices>>
sizeVars == <<voices, old_voices>>
chanVars == <<channel, cleared>>
vars == <<setup, poolVars, sizeVars, vidVars, chanVars, pc, work>>

Overlap == setup.overlap
SurroundChorus == setup.surround
DrumChannels == setup.drums

Slots == 0..MaxVoices - 1
Keys == Channels \X Notes
Up == 0       \* sustain of a channel: released,
Half == 63    \* half pressed (kept only with damper_mode),
Down == 127   \* pressed
Statuses == {"free", "on", "sustained", "off", "die"}
Voice == [status: Statuses, ch: Channels, note: Notes, vid: 0..ByteMod - 1,
          proximate: BOOLEAN, fixed: BOOLEAN]
Channel == [sustain: {Up, Half, Down}, sostenuto: BOOLEAN, damper: BOOLEAN,
            mono: BOOLEAN, assign: 0..2]
Idle == [op |-> "none", n |-> 0, target |-> 0]

LinkTo(v) == v % ByteMod
Least(S) == CHOOSE i \in S : \A j \in S : i <= j
Greatest(S) == CHOOSE i \in S : \A j \in S : i >= j

Ready == work.op = "none"
Playing == pc = "play" /\ Ready
Occurs(kind) == kind \in setup.events
Sounds(i) == voice[i].status \in {"on", "sustained", "off"}
PedalHeld(x) == x.sustain # Up \/ x.sostenuto

ResetChannel(ch) ==
  [ch EXCEPT !.sustain = Up, !.sostenuto = FALSE, !.mono = FALSE]

Init ==
  \E s \in Setups, c \in Channels : \E n \in s.notes :
    /\ setup = s
    /\ voice = [i \in Slots |-> [status |-> "free", ch |-> c, note |-> n,
                  vid |-> 0, proximate |-> FALSE, fixed |-> FALSE]]
    /\ chorus_link = [i \in Slots |-> LinkTo(i)]
    /\ upper_voices = 0 /\ voices = setup.voices /\ old_voices = setup.voices
    /\ vidq_head = [k \in Keys |-> 0] /\ vidq_tail = [k \in Keys |-> 0]
    /\ channel \in [Channels -> [sustain: {Up}, sostenuto: {FALSE},
                      damper: {FALSE}, mono: {FALSE}, assign: {1, 2}]]
    /\ pc = "play" /\ work = Idle /\ cleared = {}

-----------------------------------------------------------------------------
(* The pool: the parts of the state a voice is found in *)

Pool == [voice |-> voice, link |-> chorus_link, upper |-> upper_voices]
Becomes(p) ==
  voice' = p.voice /\ chorus_link' = p.link /\ upper_voices' = p.upper

(* chorus_link of free_voice(): both ends of the link point to themselves *)
UnlinkOneEnd(link, v) == [link EXCEPT ![v] = LinkTo(v)]             \* mutant
Unlink(link, v) ==
  [link EXCEPT ![v] = LinkTo(v), ![link[v]] = LinkTo(link[v])]

(* free_voice() for the voices of S, in the order of the loops over voice[] *)
UnlinkAll(link, S) ==
  LET after[i \in 0..MaxVoices] ==
        IF i = 0 THEN link
        ELSE IF i - 1 \in S THEN Unlink(after[i - 1], i - 1) ELSE after[i - 1]
  IN  after[MaxVoices]

FreeVoice(p, v) ==
  [p EXCEPT !.voice[v].status = "free", !.link = Unlink(p.link, v)]

Live(p) == {i \in 0..p.upper - 1 : p.voice[i].status # "free"}
Protected(x) == x.fixed /\ x.ch \in DrumChannels

(* the loops of reduce_voice(): the first class that has a member gives   *)
(* its quietest one; when nothing is left the answer is voice 0           *)
Victims(p) ==
  LET decaying == {i \in Live(p) : /\ p.voice[i].status = "off"
                                   /\ ~Protected(p.voice[i])}
      dying == {i \in Live(p) : p.voice[i].status = "die"}
      sustained == {i \in Live(p) : p.voice[i].status = "sustained"}
      chorus == {i \in Live(p) : p.link[i] < i}
      other == {i \in Live(p) : ~Protected(p.voice[i])}
  IN  CASE decaying # {} -> decaying
        [] decaying = {} /\ dying # {} -> dying
        [] decaying \cup dying = {} /\ sustained # {} -> sustained
        [] decaying \cup dying \cup sustained = {} /\ chorus # {} -> chorus
        [] OTHER -> IF other # {} THEN other
                    ELSE IF Live(p) # {} THEN Live(p) ELSE {0}

(* the result of find_voice() or reduce_voice(): the pool and the voice *)
ReduceVoice(p) == {[pool |-> FreeVoice(p, v), v |-> v] : v \in Victims(p)}

(* the voices find_voice() kills for a note of channel c *)
CutOthers(x, c, n) == x.note = n /\ x.status \in {"off", "sustained"} \* mutant
Cut(x, c, n) ==
  \/ x.note = n /\ (Overlap => x.status \in {"off", "sustained"})
  \/ channel[c].mono
  \/ \E g \in AltGroups : n \in g /\ x.note \in g
  \/ x.note = n /\ channel[c].assign = 0
  \/ x.note = n /\ channel[c].assign = 1 /\ ~x.proximate

AfterCut(p, c, n) ==
  [p EXCEPT !.voice = [i \in Slots |->
     LET x == p.voice[i]
         status == IF i \in Live(p) /\ x.ch = c /\ Cut(x, c, n)
                   THEN "die" ELSE x.status
         proximate == x.proximate /\ ~(i < p.upper /\ x.ch = c /\ x.note = n)
     IN  [x EXCEPT !.status = status, !.proximate = proximate]]]

FindVoice(p, c, n) ==
  LET free == {i \in 0..p.upper - 1 : p.voice[i].status = "free"}
      q == AfterCut(p, c, n)
  IN  IF free # {} THEN {[pool |-> q, v |-> Least(free)]}
      ELSE IF p.upper < voices
      THEN {[pool |-> [q EXCEPT !.upper = p.upper + 1], v |-> p.upper]}
      ELSE ReduceVoice(q)

(* select_play_sample() for one sample: the voice is on before it is       *)
(* started, with the channel and the note of its earlier use               *)
Select(p, c, n, fixed) ==
  {[f EXCEPT !.pool.voice[f.v].status = "on",
             !.pool.voice[f.v].fixed = fixed] : f \in FindVoice(p, c, n)}

(* start_note(); `short`: the sample offset lies behind the sample's end *)
StartNote(p, v, x) == [p EXCEPT !.voice[v] = x, !.link[v] = LinkTo(v)]
Start(p, v, c, n, vid, short) ==
  LET x == [p.voice[v] EXCEPT !.status = "on", !.ch = c, !.note = n,
                              !.proximate = TRUE]
  IN  IF short THEN FreeVoice(StartNote(p, v, x), v)
      ELSE StartNote(p, v, [x EXCEPT !.vid = vid])

(* find_free_voice(): {} when there is none *)
FindFreeVoice(p) ==
  LET free == {i \in 0..voices - 1 : p.voice[i].status = "free"}
      decaying == {i \in 0..voices - 1 :
                     /\ p.voice[i].status \in {"sustained", "off"}
                     /\ ~Protected(p.voice[i])}
  IN  IF free # {}
      THEN LET i == Least(free)
           IN  {[pool |-> [p EXCEPT !.upper = IF p.upper <= i THEN i + 1
                                              ELSE p.upper], v |-> i]}
      ELSE {[pool |-> FreeVoice([p EXCEPT !.upper = voices], v), v |-> v] :
              v \in decaying}

Doubled(p, v1, v2) ==
  [p EXCEPT !.voice[v2] = p.voice[v1],
            !.link[v1] = LinkTo(v2), !.link[v2] = LinkTo(v1)]
(* new_chorus_voice_alternate() *)
Chorus(p, v) ==
  IF ~SurroundChorus THEN {p}
  ELSE IF FindFreeVoice(p) = {} THEN {[p EXCEPT !.upper = voices]}
  ELSE {Doubled(f.pool, v, f.v) : f \in FindFreeVoice(p)}

Started(p, v, c, n, vid, short) == Chorus(Start(p, v, c, n, vid, short), v)

-----------------------------------------------------------------------------
(* MIDI events *)

NextVidStuck(k) == vidq_head[k]                                     \* mutant
NextVid(k) == (vidq_head[k] + 1) % ByteMod
Pending(k) == (vidq_head[k] - vidq_tail[k]) % ByteMod

(* note_on(): every sample of the instrument finds its voice, then each of *)
(* the voices found is started                                             *)
NoteOn(c, n) ==
  LET k == <<c, n>>
      vid == IF Overlap THEN vidq_head[k] ELSE 0
  IN  /\ Playing /\ Occurs("note")
      /\ Pending(k) < setup.pending                               \* bound
      /\ vidq_head' = IF Overlap THEN [vidq_head EXCEPT ![k] = NextVid(k)]
                                 ELSE vidq_head
      /\ \E fixed, short \in BOOLEAN, layers \in setup.layers :
           /\ fixed => c \in DrumChannels
           /\ short => Occurs("offset")
           /\ \E f \in Select(Pool, c, n, fixed) :
                IF layers = 1
                THEN \E p \in Started(f.pool, f.v, c, n, vid, short) :
                       Becomes(p)
                ELSE \E g \in Select(f.pool, c, n, fixed) :
                     \E p \in Started(g.pool, f.v, c, n, vid, short) :
                     \E q \in Started(p, g.v, c, n, vid, short) : Becomes(q)
      /\ UNCHANGED <<setup, sizeVars, vidq_tail, chanVars, pc, work>>

(* the voices of S get a new status; those of R ran out meanwhile, which   *)
(* recompute_envelope() and apply_envelope_to_amp() notice                 *)
Change(S, status) ==
  \E R \in SUBSET S :
    /\ voice' = [i \in Slots |->
         IF i \in R THEN [voice[i] EXCEPT !.status = "free"]
         ELSE IF i \in S THEN [voice[i] EXCEPT !.status = status] ELSE voice[i]]
    /\ chorus_link' = UnlinkAll(chorus_link, R)
Kill(S) ==
  /\ voice' = [i \in Slots |->
       IF i \in S THEN [voice[i] EXCEPT !.status = "die"] ELSE voice[i]]
  /\ UNCHANGED chorus_link

Of(c, statuses) ==
  {i \in 0..upper_voices - 1 : voice[i].ch = c /\ voice[i].status \in statuses}

(* a voice whose note ends is sustained by the pedal or finished *)
Release(c, S) ==
  IF channel[c].sustain # Up
  THEN /\ voice' = [i \in Slots |-> IF i \in S
             THEN [voice[i] EXCEPT !.status = "sustained"] ELSE voice[i]]
       /\ UNCHANGED chorus_link
  ELSE Change(S, "off")

(* note_off(); with Overlap the vid is the oldest one that is waiting *)
NoteOff(c, n) ==
  LET k == <<c, n>>
      vid == IF Overlap THEN vidq_tail[k] ELSE 0
  IN  /\ Playing /\ Occurs("note")
      /\ Overlap => vidq_head[k] # vidq_tail[k]
      /\ vidq_tail' = IF Overlap
           THEN [vidq_tail EXCEPT ![k] = (vid + 1) % ByteMod] ELSE vidq_tail
      /\ Release(c, {i \in Of(c, {"on"}) :
                       voice[i].note = n /\ voice[i].vid = vid})
      /\ UNCHANGED <<setup, upper_voices, sizeVars, vidq_head, chanVars, pc,
                     work>>

ForgetVids(c) ==
  /\ vidq_head' = [k \in Keys |-> IF k[1] = c THEN 0 ELSE vidq_head[k]]
  /\ vidq_tail' = [k \in Keys |-> IF k[1] = c THEN 0 ELSE vidq_tail[k]]

AllNotesOff(c) ==
  /\ Release(c, Of(c, {"on"}))
  /\ ForgetVids(c)

AllNotesOffEvent(c) ==
  /\ Playing /\ Occurs("sounds_off")
  /\ AllNotesOff(c)
  /\ UNCHANGED <<setup, upper_voices, sizeVars, chanVars, pc, work>>

AllSoundsOff(c) ==
  /\ Playing /\ Occurs("sounds_off")
  /\ Kill(Of(c, {"on", "sustained", "off"}))
  /\ ForgetVids(c)
  /\ UNCHANGED <<setup, upper_voices, sizeVars, chanVars, pc, work>>

(* ME_MONO and ME_POLY *)
MonoPoly(c, mono) ==
  /\ Playing /\ Occurs("mono")
  /\ channel' = [channel EXCEPT ![c].mono = mono]
  /\ AllNotesOff(c)
  /\ UNCHANGED <<setup, upper_voices, sizeVars, cleared, pc, work>>

(* ME_SUSTAIN: the pedal moves to a; update_redamper_controls(),           *)
(* drop_sustain()                                                          *)
SustainNoDrop(c, a) ==                                             \* mutant
  /\ Playing /\ Occurs("pedals")
  /\ channel' = [channel EXCEPT ![c].sustain = a]
  /\ UNCHANGED <<setup, poolVars, sizeVars, vidVars, cleared, pc, work>>
Sustain(c, a) ==
  LET new == IF channel[c].damper \/ a = Down THEN a ELSE Up
      catches == /\ channel[c].sustain = Up /\ a = Down
                 /\ channel[c].damper /\ c \notin DrumChannels
      drops == new = Up /\ ~channel[c].sostenuto
  IN  /\ Playing /\ Occurs("pedals")
      /\ channel' = [channel EXCEPT ![c].sustain = new]
      /\ \/ catches /\ Change(Of(c, {"on", "off"}), "sustained")
         \/ drops /\ Change(Of(c, {"sustained"}), "off")
         \/ ~catches /\ ~drops /\ UNCHANGED <<voice, chorus_link>>
      /\ cleared' = IF drops THEN cleared \ {c} ELSE cleared
      /\ UNCHANGED <<setup, upper_voices, sizeVars, vidVars, pc, work>>

(* ME_SOSTENUTO: drop_sustain() or update_sostenuto_controls() *)
Sostenuto(c, on) ==
  LET drops == ~on /\ channel[c].sustain = Up
      catches == on /\ c \notin DrumChannels
  IN  /\ Playing /\ Occurs("pedals")
      /\ channel' = [channel EXCEPT ![c].sostenuto = on]
      /\ \/ drops /\ Change(Of(c, {"sustained"}), "off")
         \/ catches /\ Change(Of(c, {"on", "off"}), "sustained")
         \/ ~drops /\ ~catches /\ UNCHANGED <<voice, chorus_link>>
      /\ cleared' = IF drops THEN cleared \ {c} ELSE cleared
      /\ UNCHANGED <<setup, upper_voices, sizeVars, vidVars, pc, work>>

(* ME_RESET_CONTROLLERS: the pedals go up, no voice is dropped *)
ResetControllers(c) ==
  /\ Playing /\ Occurs("controllers")
  /\ channel' = [channel EXCEPT ![c] = ResetChannel(@)]
  /\ cleared' = cleared \cup {c}
  /\ UNCHANGED <<setup, poolVars, sizeVars, vidVars, pc, work>>

(* the assign mode messages; a program change sets damper_mode *)
SetAssign(c, mode, damper) ==
  /\ Playing /\ Occurs("assign")
  /\ channel' = [channel EXCEPT ![c].assign = mode, ![c].damper = damper]
  /\ UNCHANGED <<setup, poolVars, sizeVars, vidVars, cleared, pc, work>>

(* a change of volume: released voices that became inaudible are freed *)
AdjustVolume ==
  /\ Ready /\ pc # "ended" /\ Occurs("note")
  /\ \E R \in SUBSET {i \in 0..upper_voices - 1 :
                        voice[i].status \in {"sustained", "off"}} :
       /\ R # {}
       /\ voice' = [i \in Slots |-> IF i \in R
             THEN [voice[i] EXCEPT !.status = "free"] ELSE voice[i]]
       /\ chorus_link' = UnlinkAll(chorus_link, R)
  /\ UNCHANGED <<setup, upper_voices, sizeVars, vidVars, chanVars, pc, work>>

NoVids == vidq_head' = [k \in Keys |-> 0] /\ vidq_tail' = [k \in Keys |-> 0]
KillAllVoices ==
  /\ Kill({i \in 0..upper_voices - 1 : Sounds(i)})
  /\ NoVids

(* reset_midi(1) of a system reset event *)
SystemReset ==
  /\ Playing /\ Occurs("system_reset")
  /\ KillAllVoices
  /\ \E mode \in 1..2 : channel' = [c \in Channels |->
       [ResetChannel(channel[c]) EXCEPT !.damper = FALSE, !.assign = mode]]
  /\ cleared' = {}
  /\ UNCHANGED <<setup, upper_voices, sizeVars, pc, work>>

(* the controllers seek_forward() can leave behind *)
Replayed == {x \in Channel : /\ x.sustain = Half => x.damper
                             /\ PedalHeld(x) => Occurs("pedals")
                             /\ x.mono => Occurs("mono")
                             /\ x.assign = 0 \/ x.damper => Occurs("assign")}

(* reset_midi(0) at the start of a song and in skip_to(), which then       *)
(* replays the controllers up to the new position                          *)
ResetVoices ==
  /\ voice' = [i \in Slots |-> [voice[i] EXCEPT !.status = "free"]]
  /\ chorus_link' = [i \in Slots |-> LinkTo(i)]
  /\ upper_voices' = 0
  /\ NoVids
  /\ channel' \in [Channels -> Replayed]
  /\ cleared' = {}
Restart ==
  /\ Ready /\ Occurs("restart")
  /\ ResetVoices
  /\ pc' = "play"
  /\ UNCHANGED <<setup, sizeVars, work>>

-----------------------------------------------------------------------------
(* Mixing *)

Top(vs, u) ==
  LET live == {i \in 0..u - 1 : vs[i].status # "free"}
  IN  IF live = {} THEN 0 ELSE Greatest(live) + 1

(* do_compute_data_midi(): a dying voice is ramped out and freed, others   *)
(* run out or are muted; upper_voices shrinks                              *)
MixVoices ==
  LET dying == {i \in 0..upper_voices - 1 : voice[i].status = "die"}
      sounding == {i \in 0..upper_voices - 1 : Sounds(i)}
  IN  \E R \in SUBSET sounding :
        /\ voice' = [i \in Slots |-> IF i \in dying \cup R
              THEN [voice[i] EXCEPT !.status = "free"] ELSE voice[i]]
        /\ chorus_link' = UnlinkAll(chorus_link, dying \cup R)
        /\ upper_voices' = Top(voice', upper_voices)
Mix ==
  /\ Ready /\ pc # "ended" /\ upper_voices > 0
  /\ MixVoices
  /\ UNCHANGED <<setup, sizeVars, vidVars, chanVars, pc, work>>

(* midi_play_end(): held notes are finished, later what is left is killed, *)
(* ramped out and upper_voices is zeroed                                   *)
EndFinish ==
  /\ Playing /\ Occurs("song_end") /\ upper_voices > 0
  /\ Change({i \in 0..upper_voices - 1 : voice[i].status \in {"on", "sustained"}},
            "off")
  /\ pc' = "fade"
  /\ UNCHANGED <<setup, upper_voices, sizeVars, vidVars, chanVars, work>>
EndKill ==
  /\ pc = "fade" /\ Ready
  /\ voice' = [i \in Slots |-> IF i < upper_voices
        THEN [voice[i] EXCEPT !.status = "free"] ELSE voice[i]]
  /\ chorus_link' = UnlinkAll(chorus_link,
        {i \in 0..upper_voices - 1 : voice[i].status # "free"})
  /\ upper_voices' = 0
  /\ NoVids
  /\ pc' = "ended"
  /\ UNCHANGED <<setup, sizeVars, chanVars, work>>

-----------------------------------------------------------------------------
(* Polyphony *)

(* compute_data(): the device runs dry, kill_nv voices are taken away *)
Tune ==
  /\ Ready /\ pc # "ended" /\ Occurs("tune")
  /\ \E kill \in 0..Cardinality(Live(Pool)) :
       work' = [op |-> "reduce", n |-> kill, target |-> 0]
  /\ UNCHANGED <<setup, poolVars, sizeVars, vidVars, chanVars, pc>>

Reduce ==
  /\ work.op = "reduce" /\ work.n > 0
  /\ \E r \in ReduceVoice(Pool) : Becomes(r.pool)
  /\ work' = [work EXCEPT !.n = @ - 1]
  /\ UNCHANGED <<setup, sizeVars, vidVars, chanVars, pc>>

FreshDirty(lo, hi) ==                                              \* mutant
  voices' = hi /\ UNCHANGED <<voice, chorus_link>>
(* voice_increment(): the new voices are initialised *)
Fresh(lo, hi) ==
  /\ voice' = [i \in Slots |-> IF i \in lo..hi - 1
        THEN [voice[i] EXCEPT !.status = "free"] ELSE voice[i]]
  /\ chorus_link' = [i \in Slots |->
        IF i \in lo..hi - 1 THEN LinkTo(i) ELSE chorus_link[i]]
  /\ voices' = hi
(* ... then the polyphony is lowered, raised or left, and upper_voices     *)
(* shrinks                                                                 *)
Resize ==
  /\ work.op = "reduce" /\ work.n = 0
  /\ \/ \E target \in 0..voices - 1 :
          /\ work' = [op |-> "conserve", n |-> voices - target, target |-> target]
          /\ UNCHANGED <<poolVars, voices>>
     \/ \E target \in voices..setup.voices :
          /\ Fresh(voices, target)
          /\ upper_voices' = Top(voice', upper_voices)
          /\ work' = Idle
  /\ UNCHANGED <<setup, old_voices, vidVars, chanVars, pc>>

(* voice[to] = voice[from] *)
Moved(p, to, from) ==
  [p EXCEPT !.voice[to] = p.voice[from], !.link[to] = p.link[from]]

Lesser(a, b) == IF a <= b THEN a ELSE b

(* a round of voice_decrement_conservative(), which takes a free voice     *)
(* above its target for a decaying one                                     *)
NotGood(x) == x.status \notin {"on", "die"} /\ ~Protected(x)
Conserve ==
  LET last == voices - 1
      free == {j \in 0..work.target - 1 : voice[j].status = "free"}
      decaying == {j \in 0..last : NotGood(voice[j])}
  IN  /\ work.op = "conserve" /\ work.n > 0 /\ voices > 0
      /\ \/ /\ voice[last].status = "free"
            /\ UNCHANGED poolVars
         \/ /\ voice[last].status # "free" /\ free # {}
            /\ Becomes(Moved(Pool, Least(free), last))
         \/ /\ voice[last].status # "free" /\ free = {}
            /\ \E v \in decaying : Becomes(Moved(FreeVoice(Pool, v), v, last))
      /\ voices' = last
      /\ work' = [work EXCEPT !.n = @ - 1]
      /\ UNCHANGED <<setup, old_voices, vidVars, chanVars, pc>>
(* the loop ends early when only good notes are left *)
ConserveDone ==
  /\ work.op = "conserve"
  /\ \/ work.n = 0
     \/ voices = 0
     \/ /\ voices > 0 /\ voice[voices - 1].status # "free"
        /\ \A j \in 0..work.target - 1 : voice[j].status # "free"
        /\ \A j \in 0..voices - 1 : ~NotGood(voice[j])
  /\ upper_voices' = Top(voice, Lesser(upper_voices, voices))
  /\ work' = Idle
  /\ UNCHANGED <<setup, voice, chorus_link, sizeVars, vidVars, chanVars, pc>>

(* restore_voices(0): back to the polyphony saved last *)
RestoreVoices ==
  /\ Ready /\ pc # "ended" /\ Occurs("tune") /\ voices # old_voices
  /\ \/ /\ voices < old_voices
        /\ Fresh(voices, old_voices)
        /\ work' = work
     \/ /\ voices > old_voices
        /\ work' = [op |-> "decrement", n |-> voices - old_voices, target |-> 0]
        /\ UNCHANGED <<voice, chorus_link, voices>>
  /\ UNCHANGED <<setup, upper_voices, old_voices, vidVars, chanVars, pc>>

(* RC_VOICEINCR, after restore_voices(0); with a trace to restart from the *)
(* song is restarted                                                       *)
VoiceIncrement ==
  /\ Ready /\ pc # "ended" /\ Occurs("polyphony") /\ voices = old_voices
  /\ voices < setup.voices
  /\ \/ Fresh(voices, voices + 1) /\ UNCHANGED <<upper_voices, vidVars,
                                                 chanVars, pc>>
     \/ voices' = voices + 1 /\ ResetVoices /\ pc' = "play"
  /\ old_voices' = voices + 1
  /\ UNCHANGED <<setup, work>>

(* RC_VOICEDECR, likewise: a restart with one voice less, or               *)
(* voice_decrement(1)                                                      *)
VoiceDecrement ==
  /\ Ready /\ pc # "ended" /\ Occurs("polyphony") /\ voices = old_voices
  /\ voices > 0
  /\ \/ /\ voices' = voices - 1
        /\ ResetVoices
        /\ pc' = "play" /\ work' = work
     \/ /\ work' = [op |-> "decrement", n |-> 1, target |-> 0]
        /\ UNCHANGED <<poolVars, voices, vidVars, chanVars, pc>>
  /\ old_voices' = voices - 1
  /\ UNCHANGED setup

(* a round of voice_decrement() *)
Decrement ==
  LET last == voices - 1
      free == {j \in 0..last - 1 : voice[j].status = "free"}
      decaying == {j \in 0..last : voice[j].status \in {"sustained", "off"}}
  IN  /\ work.op = "decrement" /\ work.n > 0 /\ voices > 0
      /\ \/ /\ voice[last].status = "free" \/ (free = {} /\ decaying = {})
            /\ UNCHANGED poolVars
         \/ /\ voice[last].status # "free" /\ free # {}
            /\ Becomes(Moved(Pool, Least(free), last))
         \/ /\ voice[last].status # "free" /\ free = {}
            /\ \E v \in decaying : Becomes(Moved(FreeVoice(Pool, v), v, last))
      /\ voices' = last
      /\ work' = [work EXCEPT !.n = @ - 1]
      /\ UNCHANGED <<setup, old_voices, vidVars, chanVars, pc>>
DecrementDone ==
  /\ work.op = "decrement" /\ (work.n = 0 \/ voices = 0)
  /\ upper_voices' = Lesser(upper_voices, voices)
  /\ work' = Idle
  /\ UNCHANGED <<setup, voice, chorus_link, sizeVars, vidVars, chanVars, pc>>

-----------------------------------------------------------------------------
Next ==
  \/ \E c \in Channels, n \in setup.notes : NoteOn(c, n) \/ NoteOff(c, n)
  \/ \E c \in Channels : AllNotesOffEvent(c) \/ AllSoundsOff(c)
  \/ \E c \in Channels, mono \in BOOLEAN : MonoPoly(c, mono)
  \/ \E c \in Channels, a \in {Up, Half, Down} : Sustain(c, a)
  \/ \E c \in Channels, on \in BOOLEAN : Sostenuto(c, on)
  \/ \E c \in Channels : ResetControllers(c)
  \/ \E c \in Channels, mode \in 0..2, damper \in BOOLEAN :
       SetAssign(c, mode, damper)
  \/ AdjustVolume
  \/ SystemReset
  \/ Restart
  \/ Mix
  \/ EndFinish \/ EndKill
  \/ Tune \/ Reduce \/ Resize \/ Conserve \/ ConserveDone \/ RestoreVoices
  \/ VoiceIncrement \/ VoiceDecrement \/ Decrement \/ DecrementDone

Spec == Init /\ [][Next]_vars

-----------------------------------------------------------------------------
(* Every loop over the pool runs to upper_voices: no voice behind it makes *)
(* a sound, or it would neither be mixed nor switched off; and the pool    *)
(* never exceeds the polyphony.                                            *)
PoolBounded ==
  Ready => /\ upper_voices <= voices
           /\ \A i \in upper_voices..voices - 1 : voice[i].status = "free"

(* Type invariant; in particular the pool is bounded. *)
TypeOK ==
  /\ PoolBounded
  /\ setup \in Setups
  /\ voice \in [Slots -> Voice]
  /\ chorus_link \in [Slots -> Slots]
  /\ upper_voices \in 0..MaxVoices
  /\ voices \in 0..MaxVoices /\ old_voices \in 0..MaxVoices
  /\ vidq_head \in [Keys -> 0..ByteMod - 1]
  /\ vidq_tail \in [Keys -> 0..ByteMod - 1]
  /\ channel \in [Channels -> Channel]
  /\ pc \in {"play", "fade", "ended"}
  /\ work \in [op: {"none", "reduce", "conserve", "decrement"},
               n: 0..MaxVoices, target: 0..MaxVoices]
  /\ cleared \subseteq Channels

(* No hanging note: the vid of a voice that is on lies between tail and    *)
(* head of its key, so one of the Note Offs to come will match it.         *)
OnVoicePending ==
  Overlap =>
    \A i \in 0..upper_voices - 1 :
      LET k == <<voice[i].ch, voice[i].note>>
      IN  voice[i].status = "on" =>
            (voice[i].vid - vidq_tail[k]) % ByteMod < Pending(k)

(* A sustained voice is held by a pedal that will drop it, unless Reset    *)
(* All Controllers lifted the pedal, which drops nothing.                  *)
SustainedHasPedal ==
  \A i \in 0..upper_voices - 1 :
    voice[i].status = "sustained" =>
      PedalHeld(channel[voice[i].ch]) \/ voice[i].ch \in cleared

(* A note that is struck again, another note of a channel in mono mode,    *)
(* and another note of an alternate assign group (an open and a closed     *)
(* hi-hat) end the notes before them, whatever became of these meanwhile:  *)
(* "Only one instance of a note can be playing on a single channel" when   *)
(* overlapping is switched off.                                            *)
OneInstance ==
  ~Overlap => \A i \in 0..upper_voices - 1 : Sounds(i) => voice[i].proximate
MonoOneNote ==
  \A i, j \in 0..upper_voices - 1 :
    /\ voice[i].status = "on" /\ voice[j].status = "on"
    /\ voice[i].ch = voice[j].ch /\ channel[voice[i].ch].mono
    => voice[i].note = voice[j].note
GroupExclusive ==
  \A i, j \in 0..upper_voices - 1, g \in AltGroups :
    /\ Sounds(i) /\ Sounds(j) /\ voice[i].ch = voice[j].ch
    /\ {voice[i].note, voice[j].note} \subseteq g
    => voice[i].note = voice[j].note
NotesExclusive == OneInstance /\ MonoOneNote /\ GroupExclusive

(* "Make doubled link v1 and v2": a link leads to the voice that links     *)
(* back, so that free_voice() and adjust_panning() touch the partner only. *)
LinksPaired ==
  Ready => \A i \in 0..voices - 1 : chorus_link[chorus_link[i]] = i

(* ... which holds when a note has one sample and the polyphony stays.     *)
SingleLinksPaired ==
  setup.layers = {1} /\ setup.events \cap {"tune", "polyphony"} = {} => LinksPaired
=============================================================================
