----------------------------- MODULE SongReader -----------------------------
(***************************************************************************)
(* How timidity/readmidi.c turns a standard MIDI file into the list the    *)
(* player runs through: the tracks are merged into one linked list, note   *)
(* steps are inserted for the display of beats, channels above the last    *)
(* port are moved, and groom_list() strips what is not played and turns    *)
(* ticks into samples.                                                     *)
(*                                                                         *)
(* The linked list is a sequence and current_midi_point an index into it;  *)
(* `order` numbers the events as they were added.  A track gives any event *)
(* after any delta time and may end or break off anywhere.  Programs,      *)
(* banks, drum parts and WRD are left out: groom_list() only marks the     *)
(* instruments they need.                                                  *)
(***************************************************************************)
EXTENDS Integers, FiniteSets, Sequences

CONSTANTS
  MAX_MIDI_EVENT,
  REDUCE_CHANNELS, MAX_CHANNELS,
  MAX_TIMESIG,       \* 256, the length of timesig[]
  FRAC,              \* 2^16: samples are counted in 1/FRAC, an int32 holds
                     \* FRAC * FRAC values
  Clock,             \* samples per tempo unit and FRAC
  DefaultTempo,
  Channels,          \* channels of every port
  Setups             \* the files and options that occur

(* What a track may hold.  A note on has a velocity.  A denominator is     *)
(* 1 << a byte of the file, kept as a uint8: of 256 and more 0 is left.    *)
Note(kind, ch) == [kind |-> kind, ch |-> ch, val |-> 0]
Meta(kind, val) == [kind |-> kind, ch |-> 0, val |-> val]
Signature == [num: 1..255, denom: {0, 1, 2, 4, 8, 16, 32, 64, 128}]
Four4 == [num |-> 4, denom |-> 4]

Setup == [format: 0..2, tracks: Nat, divisions: Nat,
          preserve: BOOLEAN,            \* opt_preserve_silence
          ignore: BOOLEAN,              \* ignore_midi_error
          trace: BOOLEAN,               \* ctl->trace_playing
          x86: BOOLEAN,                 \* the processor, see RateOf
          quiet: SUBSET Channels,       \* quietchannels
          deltas: SUBSET Nat,           \* delta times in the file
          events: SUBSET ([kind: {"on", "off"}, ch: Channels, val: {0}]
                          \cup [kind: {"tempo"}, ch: {0}, val: Nat]
                          \cup [kind: {"sig"}, ch: {0}, val: Signature]
                          \cup [kind: {"text"}, ch: {0}, val: {0}]),
          size: Nat]                    \* bound: length of the list up to
                                        \* which events are read

ASSUME SetupsAssumption == Setups \subseteq Setup
ASSUME LimitAssumption == MAX_MIDI_EVENT \in Nat \ {0}
ASSUME ChannelsAssumption ==
  /\ REDUCE_CHANNELS \in Nat \ {0}
  /\ MAX_CHANNELS = 2 * REDUCE_CHANNELS       \* timidity.h, readmidi.h
  /\ 0..MAX_CHANNELS - 1 \subseteq Channels /\ Channels \subseteq Nat
ASSUME WidthAssumption == FRAC \in Nat \ {0, 1} /\ FRAC % 2 = 0
ASSUME TempoAssumption == Clock \in Nat /\ DefaultTempo \in Nat

VARIABLES
  setup,
  phase,       \* "track", "events"; "steps", "beat"; "move", "groom"; the
               \* ends "done", "failed" and "overflow", and "crashed"
  evlist, current_midi_point, readmidi_error_flag,
  track, smf_at_time, note_seen,
  beat,        \* the loop of insert_note_steps()
  groom        \* the loop of groom_list() and the list it makes

listVars == <<evlist, current_midi_point, readmidi_error_flag>>
trackVars == <<track, smf_at_time, note_seen>>
vars == <<setup, phase, listVars, trackVars, beat, groom>>

INT_MAX == (FRAC * FRAC) \div 2 - 1
Wrapped(x) == ((x + INT_MAX + 1) % (FRAC * FRAC)) - INT_MAX - 1   \* int32

-----------------------------------------------------------------------------
(* The list under construction, with the two variables that go with it *)
List == [events |-> evlist, point |-> current_midi_point,
         error |-> readmidi_error_flag]
ListIs(l) ==
  /\ evlist' = l.events
  /\ current_midi_point' = l.point
  /\ readmidi_error_flag' = l.error

Head0 == [kind |-> "none", ch |-> 0, val |-> 0, time |-> 0, order |-> 1]

(* The event behind which the scan of readmidi_add_event() stops, or 0: on *)
(* from the current point while events are not later than `at`, or back    *)
(* while they are                                                          *)
PlaceBefore(events, point, at) ==                                  \* mutant
  IF events[point].time <= at
  THEN CHOOSE p \in point..Len(events) :
         /\ \A i \in point + 1..p : events[i].time < at
         /\ p = Len(events) \/ events[p + 1].time >= at
  ELSE CHOOSE p \in 0..point - 1 :
         /\ \A i \in p + 1..point : events[i].time > at
         /\ p = 0 \/ events[p].time <= at
Place(events, point, at) ==
  IF events[point].time <= at
  THEN CHOOSE p \in point..Len(events) :
         /\ \A i \in point + 1..p : events[i].time <= at
         /\ p = Len(events) \/ events[p + 1].time > at
  ELSE CHOOSE p \in 0..point - 1 :
         /\ \A i \in p + 1..point : events[i].time > at
         /\ p = 0 \/ events[p].time <= at

Inserted(events, p, e) ==
  [i \in 1..Len(events) + 1 |->
     IF i <= p THEN events[i] ELSE IF i = p + 1 THEN e ELSE events[i - 1]]

NotBelow0(t) == IF t < 0 THEN 0 ELSE t

(* MIDIEVENT(): readmidi_add_event() unless the list was full before *)
Add(l, at, e) ==
  IF l.error THEN l
  ELSE IF Len(l.events) >= MAX_MIDI_EVENT THEN [l EXCEPT !.error = TRUE]
  ELSE LET time == NotBelow0(at)
           p == Place(l.events, l.point, time)
       IN  [events |-> Inserted(l.events, p,
                         [kind |-> e.kind, ch |-> e.ch, val |-> e.val,
                          time |-> time, order |-> Len(l.events) + 1]),
            point |-> p + 1, error |-> FALSE]

-----------------------------------------------------------------------------
NoBeat == [i |-> 1, at |-> 0, n |-> 0, meas |-> 0, beat |-> 0, sig |-> Four4,
           last |-> 0, table |-> <<>>]
NoGroom == [i |-> 1, at |-> 0, st |-> 0, cum |-> 0, counting |-> 2,
            tempo |-> DefaultTempo, out |-> <<>>]

(* readmidi_read_init() and the header of a file *)
Init ==
  /\ setup \in Setups
  /\ phase = "track"
  /\ evlist = <<Head0>> /\ current_midi_point = 1 /\ readmidi_error_flag = FALSE
  /\ track = 0 /\ smf_at_time = 0 /\ note_seen = FALSE
  /\ beat = NoBeat /\ groom = NoGroom

(* readmidi_set_track() at the start of read_smf_track(): formats 0 and 1  *)
(* begin at 0 again, format 2 goes on behind the last event                *)
Rewinds == setup.format # 2
Tracks == IF setup.format = 0 THEN 1 ELSE setup.tracks
BeginTrack ==
  /\ phase = "track" /\ track < Tracks
  /\ current_midi_point' = IF Rewinds THEN 1 ELSE Len(evlist)
  /\ smf_at_time' = evlist[current_midi_point'].time
  /\ note_seen' = ~setup.preserve
  /\ phase' = "events"
  /\ UNCHANGED <<setup, evlist, readmidi_error_flag, track, beat, groom>>

(* One event of a track.  The first note of a track that starts with a     *)
(* rest brings a silent note at 0 with it, so that the rest is not         *)
(* stripped; a time signature is two events                                *)
Silent(l, ch) == Add(Add(l, 0, Note("on", ch)), 0, Note("off", ch))
ReadEvent(delta, e) ==
  LET at == Wrapped(smf_at_time + delta)
      quietly == e.kind = "on" /\ ~note_seen /\ at > 0
      before == IF quietly THEN Silent(List, e.ch) ELSE List
      with == Add(before, at, e)
  IN  /\ phase = "events" /\ ~readmidi_error_flag
      /\ Len(evlist) < setup.size                                  \* bound
      /\ smf_at_time' = at
      /\ note_seen' = (note_seen \/ quietly)
      /\ ListIs(IF e.kind = "sig"
                THEN Add(with, at, [e EXCEPT !.ch = 1]) ELSE with)
      /\ UNCHANGED <<setup, phase, track, beat, groom>>

(* the End of Track event *)
EndOfTrack ==
  /\ phase = "events" /\ ~readmidi_error_flag
  /\ track' = track + 1
  /\ phase' = "track"
  /\ UNCHANGED <<setup, listVars, smf_at_time, note_seen, beat, groom>>

(* A missing or corrupt header, a short track or too many events: the rest *)
(* of the file is given up, and the song with it unless ignore_midi_error  *)
ReadError ==
  /\ \/ phase = "track" /\ track < Tracks
     \/ phase = "events"
  /\ phase' = IF setup.ignore THEN "steps" ELSE "failed"
  /\ UNCHANGED <<setup, listVars, trackVars, beat, groom>>

EndOfFile ==
  /\ phase = "track" /\ track >= Tracks
  /\ phase' = "steps"
  /\ UNCHANGED <<setup, listVars, trackVars, beat, groom>>

-----------------------------------------------------------------------------
(* insert_note_steps(): the table of time signatures.  One that repeats    *)
(* the last of the table is passed over, one at the same time replaces it  *)
IsSignature(e) == e.kind = "sig" /\ e.ch = 0
At(time, sig) == [time |-> time, sig |-> sig]
WithDefault(table, e) ==
  IF table = <<>> /\ e.time > 0 THEN <<At(0, Four4)>> ELSE table
WithSignature(table, e) ==
  LET n == Len(table)
  IN  IF n > 0 /\ table[n].sig = e.val THEN table
      ELSE IF n > 0 /\ table[n].time = e.time
      THEN [table EXCEPT ![n] = At(e.time, e.val)]
      ELSE Append(table, At(e.time, e.val))

(* one round of the loop: not the last event, and none when the table is   *)
(* full                                                                    *)
More == beat.i < Len(evlist) /\ Len(beat.table) < MAX_TIMESIG - 1
CollectSignature ==
  LET e == evlist[beat.i]
  IN  /\ phase = "steps" /\ More
      /\ beat' = [beat EXCEPT !.i = @ + 1,
                    !.table = IF IsSignature(e) THEN WithSignature(WithDefault(@, e), e)
                                                ELSE @]
      /\ UNCHANGED <<setup, phase, listVars, trackVars, groom>>
InsertNoteSteps ==
  /\ phase = "steps" /\ ~More
  /\ beat' = [beat EXCEPT !.last = evlist[beat.i].time,
                !.table = IF @ = <<>> THEN <<At(0, Four4)>> ELSE @]
  /\ current_midi_point' = 1
  /\ phase' = "beat"
  /\ UNCHANGED <<setup, evlist, readmidi_error_flag, trackVars, groom>>

(* where a division by zero does not end the program, it gives 0 *)
StepLength(sig) ==
  IF sig.denom = 0 THEN 0 ELSE (setup.divisions * 4) \div sig.denom

(* the signature of the table that comes into force with this step, if any *)
Due(b) == b.n < Len(b.table) /\ b.at >= b.table[b.n + 1].time
AdoptedInBar(b) ==                                                 \* mutant
  IF ~Due(b) THEN b
  ELSE [b EXCEPT !.n = @ + 1, !.sig = b.table[b.n + 1].sig]
Adopted(b) ==
  IF ~Due(b) THEN b
  ELSE [b EXCEPT !.n = @ + 1, !.sig = b.table[b.n + 1].sig, !.beat = 0,
                 !.meas = IF b.beat # 0 THEN @ + 1 ELSE @]

(* twelve bits of the measure and four of the beat, both from 1 *)
Step(b) == Meta("step", [meas |-> (b.meas + 1) % 4096, beat |-> (b.beat + 1) % 16])

Beat ==
  LET b == Adopted(beat)
      full == b.beat + 1 = b.sig.num
  IN  /\ phase = "beat"
      /\ beat.at < beat.last /\ ~readmidi_error_flag
      /\ ListIs(Add(List, beat.at, Step(b)))
      /\ beat' = [b EXCEPT !.beat = IF full THEN 0 ELSE @ + 1,
                           !.meas = IF full THEN @ + 1 ELSE @,
                           !.at = Wrapped(@ + StepLength(b.sig))]
      /\ phase' \in IF b.sig.denom = 0 THEN {"beat", "crashed"} ELSE {"beat"}
      /\ UNCHANGED <<setup, trackVars, groom>>
BeatsEndAtLast ==                                                  \* mutant
  /\ phase = "beat" /\ beat.at >= beat.last
  /\ phase' = "move"
  /\ UNCHANGED <<setup, listVars, trackVars, beat, groom>>
BeatsEnd ==
  /\ phase = "beat"
  /\ beat.at >= beat.last \/ readmidi_error_flag
  /\ phase' = "move"
  /\ UNCHANGED <<setup, listVars, trackVars, beat, groom>>

-----------------------------------------------------------------------------
GLOBAL_CHANNEL_EVENT_TYPE(kind) == kind \notin {"on", "off"}
OfChannel(e) == ~GLOBAL_CHANNEL_EVENT_TYPE(e.kind)
Used == {evlist[i].ch : i \in {j \in 1..Len(evlist) : OfChannel(evlist[j])}}

(* the slots of chidx[] a channel of a higher port may be moved to *)
Slots(chidx, ch) ==
  {s \in 0..MAX_CHANNELS - 1 :
     s % REDUCE_CHANNELS = ch % REDUCE_CHANNELS /\ chidx[s] = -1}
AssignedUnmarked(chidx, ch) ==                                     \* mutant
  LET free == Slots(chidx, ch)
      first == CHOOSE s \in free : \A t \in free : s <= t
  IN  IF ch < MAX_CHANNELS THEN [chidx EXCEPT ![ch] = ch]
      ELSE IF free # {} THEN [chidx EXCEPT ![ch] = first]
      ELSE [chidx EXCEPT ![ch] = ch % MAX_CHANNELS]
Assigned(chidx, ch) ==
  LET free == Slots(chidx, ch)
      first == CHOOSE s \in free : \A t \in free : s <= t
  IN  IF ch < MAX_CHANNELS THEN [chidx EXCEPT ![ch] = ch]
      ELSE IF free # {} THEN [chidx EXCEPT ![ch] = first, ![first] = first]
      ELSE [chidx EXCEPT ![ch] = ch % MAX_CHANNELS]

Look(chidx, e) ==
  IF OfChannel(e) /\ chidx[e.ch] = -1 THEN Assigned(chidx, e.ch) ELSE chidx
OwnSlots == [c \in Channels |-> IF c \in Used /\ c < REDUCE_CHANNELS THEN c ELSE -1]
Chidx ==
  LET after[i \in 0..Len(evlist)] ==
        IF i = 0 THEN OwnSlots ELSE Look(after[i - 1], evlist[i])
  IN  after[Len(evlist)]

(* move_channels() tests a pointer it has not set yet: it may do nothing *)
MoveChannels ==
  /\ phase = "move"
  /\ \/ UNCHANGED evlist
     \/ /\ \E c \in Used : c >= REDUCE_CHANNELS
        /\ LET chidx == Chidx
           IN  evlist' = [i \in 1..Len(evlist) |->
                            IF OfChannel(evlist[i])
                            THEN [evlist[i] EXCEPT !.ch = chidx[@]]
                            ELSE evlist[i]]
  /\ phase' = "groom"
  /\ UNCHANGED <<setup, current_midi_point, readmidi_error_flag, trackVars, beat,
                 groom>>

-----------------------------------------------------------------------------
(* groom_list(): one event.  `counting` is 2 before the first note, 1 in   *)
(* its round and 0 behind it                                               *)
(* parts of a sample to a tick, as an int32: of a double that does not fit *)
(* the conversion is undefined; ARM processors give the largest int32, and *)
(* 0 for no number, x86 the least                                          *)
Exact(tempo) == (tempo * Clock) \div setup.divisions
Fits(tempo) == setup.divisions # 0 /\ Exact(tempo) <= INT_MAX
RateOf(tempo) == IF Fits(tempo) THEN Exact(tempo)
                 ELSE IF setup.x86 THEN -INT_MAX - 1
                 ELSE IF tempo * Clock = 0 THEN 0 ELSE INT_MAX
Safe(e) == IF OfChannel(e) THEN [e EXCEPT !.ch = @ % MAX_CHANNELS] ELSE e
IsQuiet(e) == OfChannel(e) /\ e.ch \in setup.quiet
Starts(e) == ~IsQuiet(e) /\ (e.kind = "on" \/ (e.kind = "text" /\ setup.trace))
Skipped(e, counting) ==
  IsQuiet(e) \/ e.kind = "none" \/ (e.kind = "step" /\ counting = 2)

(* samples of dt ticks: whole ones, and what the parts carry over *)
Samples(g, dt) ==
  LET rate == RateOf(g.tempo)
      cum == (g.cum + (rate % FRAC) * dt) % (FRAC * FRAC)
  IN  [st |-> Wrapped(g.st + Wrapped((rate \div FRAC) * dt) + cum \div FRAC),
       cum |-> cum % FRAC]

(* the clock of the loop when it has come to event e *)
TempoFirst(g, e) ==                                                \* mutant
  LET dt == e.time - g.at
      tempo == IF e.kind = "tempo" THEN e.val ELSE g.tempo
      s == Samples([g EXCEPT !.tempo = tempo], dt)
  IN  IF dt # 0 /\ g.counting = 0
      THEN [g EXCEPT !.at = e.time, !.st = s.st, !.cum = s.cum, !.tempo = tempo]
      ELSE [g EXCEPT !.at = e.time, !.tempo = tempo,
                     !.counting = IF @ = 1 THEN 0 ELSE @]
Clocked(g, e) ==
  LET dt == e.time - g.at
      s == Samples(g, dt)
      tempo == IF e.kind = "tempo" THEN e.val ELSE g.tempo
  IN  IF dt # 0 /\ g.counting = 0
      THEN [g EXCEPT !.at = e.time, !.st = s.st, !.cum = s.cum, !.tempo = tempo]
      ELSE [g EXCEPT !.at = e.time, !.tempo = tempo,
                     !.counting = IF @ = 1 THEN 0 ELSE @]

GroomEvent ==
  LET e == Safe(evlist[groom.i])
      counting == IF groom.counting # 0 /\ Starts(e) THEN 1 ELSE groom.counting
      g == Clocked([groom EXCEPT !.counting = counting], e)
      kept == [kind |-> e.kind, ch |-> e.ch, val |-> e.val, order |-> e.order,
               time |-> g.st]
  IN  /\ phase = "groom" /\ groom.i <= Len(evlist)
      /\ phase' = IF g.st < 0 THEN "overflow" ELSE phase
      /\ groom' = [g EXCEPT !.i = @ + 1,
                     !.out = IF g.st < 0 \/ Skipped(e, counting) THEN @
                             ELSE Append(@, kept)]
      /\ UNCHANGED <<setup, listVars, trackVars, beat>>

(* The End-of-Track event.  The code frees evlist here; the model keeps it *)
(* for what is said of the result                                          *)
GroomEnd ==
  /\ phase = "groom" /\ groom.i > Len(evlist)
  /\ groom' = [groom EXCEPT !.out = Append(@, [kind |-> "eot", ch |-> 0, val |-> 0,
                                               order |-> 0, time |-> groom.st])]
  /\ phase' = "done"
  /\ UNCHANGED <<setup, listVars, trackVars, beat>>

Ends == {"done", "failed", "overflow"}     \* read_midi_file() returns

-----------------------------------------------------------------------------
Reading ==
  \/ BeginTrack
  \/ \E delta \in setup.deltas, e \in setup.events : ReadEvent(delta, e)
  \/ EndOfTrack \/ ReadError \/ EndOfFile
Working ==
  \/ CollectSignature \/ InsertNoteSteps \/ Beat \/ BeatsEnd
  \/ MoveChannels \/ GroomEvent \/ GroomEnd
Next == Reading \/ Working

Spec == Init /\ [][Next]_vars

(* read_midi_file() runs on once the file is read *)
FairSpec == Spec /\ WF_vars(Working)

-----------------------------------------------------------------------------
(* The list stays sorted by time whatever the tracks hold, and events of   *)
(* the same time keep the order they were read in: a Note Off never passes *)
(* the Note On it belongs to, in spite of tracks that begin at 0 again,    *)
(* silent notes put at the front, times that wrapped around and the short  *)
(* scans from current_midi_point.                                          *)
Before(d, e) == d.time < e.time \/ (d.time = e.time /\ d.order < e.order)
InOrder == \A j \in 1..Len(evlist) : \A i \in 1..j - 1 : Before(evlist[i], evlist[j])

(* What groom_list() should compute: the samples of every tick since the   *)
(* first event that starts the song, each at the tempo in force.           *)
TempoAt(t) ==
  LET S == {i \in 1..Len(evlist) : evlist[i].kind = "tempo" /\ evlist[i].time <= t}
  IN  IF S = {} THEN DefaultTempo
      ELSE evlist[CHOOSE i \in S : \A j \in S : j <= i].val
StartTimes ==
  {evlist[i].time : i \in {j \in 1..Len(evlist) : Starts(Safe(evlist[j]))}}
Start == CHOOSE t \in StartTimes : \A u \in StartTimes : t <= u
Elapsed(from, to) ==
  LET parts[u \in from..to] ==
        IF u = from THEN 0 ELSE parts[u - 1] + Exact(TempoAt(u - 1))
  IN  parts[to]
SampleAt(t) ==
  IF StartTimes = {} \/ t <= Start THEN 0 ELSE Elapsed(Start, t) \div FRAC
TickOf(order) ==
  evlist[CHOOSE i \in 1..Len(evlist) : evlist[i].order = order].time

(* Every event is at the sample its tick falls on: the parts of samples    *)
(* that groom_list() carries from event to event add up to no error over   *)
(* any number of tempo changes, and a song is refused exactly when a time  *)
(* does not fit.  The carry is good for FRAC ticks between two events, and *)
(* for ticks whose samples an int32 holds in parts.  With                  *)
(* opt_preserve_silence nothing before the first note is stripped.         *)
NoLongGap ==
  \A i \in 2..Len(evlist) : evlist[i].time - evlist[i - 1].time <= FRAC
NoLongTick ==
  /\ Fits(DefaultTempo)
  /\ \A i \in 1..Len(evlist) : evlist[i].kind = "tempo" => Fits(evlist[i].val)
OnTick ==
  phase \in {"done", "overflow"} /\ NoLongGap /\ NoLongTick =>
    /\ \A i \in 1..Len(groom.out) :
         LET o == groom.out[i]
             tick == IF o.kind = "eot" THEN groom.at ELSE TickOf(o.order)
         IN  o.time = SampleAt(tick) /\ o.time <= INT_MAX
    /\ phase = "overflow" => SampleAt(groom.at) > INT_MAX
    /\ setup.preserve /\ setup.quiet = {}
         /\ (\E i \in 1..Len(evlist) : evlist[i].kind = "on") => Start = 0

(* The note steps count the beats: one at 0 and one after each step of the *)
(* signature in force, numbered on within its bar; a bar ends when it is   *)
(* full or when another signature comes into force.  Excepted are lists    *)
(* cut short, times that wrap around, bars of more beats than four bits    *)
(* number and signatures less than a beat apart (one is taken from the     *)
(* table with each step).                                                  *)
Signatures == {i \in 1..Len(evlist) : IsSignature(evlist[i])}
InForce(t) ==
  LET S == {i \in Signatures : evlist[i].time <= t}
  IN  IF S = {} THEN Four4 ELSE evlist[CHOOSE i \in S : \A j \in S : j <= i].val
Steps == {i \in 1..Len(evlist) : evlist[i].kind = "step"}
NextStep(i, j) == i < j /\ \A k \in Steps : k <= i \/ k >= j
Between(d, e) == {i \in Signatures : d.time < evlist[i].time /\ evlist[i].time <= e.time}
NewBar(d, e) == e.val.meas = (d.val.meas + 1) % 4096 /\ e.val.beat = 1
SameBar(d, e) == e.val.meas = d.val.meas /\ e.val.beat = d.val.beat + 1
Follows(d, e) ==
  /\ e.time = d.time + StepLength(InForce(d.time))
  /\ IF d.val.beat = InForce(d.time).num \/ InForce(e.time) # InForce(d.time)
     THEN NewBar(d, e)
     ELSE SameBar(d, e) \/ (NewBar(d, e) /\ \E i, j \in Between(d, e) : i # j)
Regular ==
  /\ ~readmidi_error_flag
  /\ \A sig \in {Four4} \cup {evlist[i].val : i \in Signatures} :
       sig.num <= 15 /\ StepLength(sig) + beat.last <= INT_MAX
  /\ \A i, j \in Steps : NextStep(i, j) =>
       \A k, l \in Between(evlist[i], evlist[j]) : evlist[k].time = evlist[l].time
Beats ==
  phase = "move" /\ Regular =>
    /\ \A i, j \in Steps : NextStep(i, j) => Follows(evlist[i], evlist[j])
    /\ beat.last = 0 => Steps = {}
    /\ beat.last > 0 =>
         /\ Steps # {}
         /\ \A i \in Steps : (\A j \in Steps : i <= j) =>
              evlist[i].time = 0 /\ evlist[i].val = [meas |-> 1, beat |-> 1]
         /\ \A i \in Steps : (\A j \in Steps : j <= i) =>
              /\ evlist[i].time < beat.last
              /\ beat.last <= evlist[i].time + StepLength(InForce(evlist[i].time))

(* What moving channels may do: the events of a channel stay together, on  *)
(* the same number of a port that exists, those of the first port where    *)
(* they are, and two channels are mixed only when the song uses more of    *)
(* the same number than there are ports.                                   *)
Number(ch) == ch % REDUCE_CHANNELS
Sharing(ch) == {c \in Used : Number(c) = Number(ch)}
MovedWell ==
  \A i, j \in {k \in 1..Len(evlist) : OfChannel(evlist[k])} :
    LET c == evlist[i].ch  d == evlist[j].ch
        c1 == evlist'[i].ch  d1 == evlist'[j].ch
    IN  /\ Number(c1) = Number(c) /\ c1 < MAX_CHANNELS
        /\ c < REDUCE_CHANNELS => c1 = c
        /\ c = d => c1 = d1
        /\ c # d /\ c1 = d1 =>
             Cardinality(Sharing(c)) > MAX_CHANNELS \div REDUCE_CHANNELS
ChannelsMoved ==
  [][phase = "move" /\ phase' = "groom" /\ evlist' # evlist => MovedWell]_vars

(* A file that was read comes to an end in the loops behind: the note      *)
(* steps of a signature too short for the divisions of the file do not     *)
(* advance and stop only because the list is full.  Only a signature whose *)
(* denominator was cut down to 0 may end the program instead, where the    *)
(* length of a step is divided by it (readmidi.c:4603).                    *)
DividesByZero == \E i \in Signatures : evlist[i].val.denom = 0
LoadingEnds ==
  phase = "steps" ~> phase \in Ends \/ (phase = "crashed" /\ DividesByZero)
=============================================================================
