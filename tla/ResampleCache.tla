---------------------------- MODULE ResampleCache ----------------------------
(***************************************************************************)
(* The cache of resampled sounds, timidity/recache.c.  Before a song is    *)
(* played play_midi_prescan() runs through its events and counts, for each *)
(* sample and note, for how long it will sound; then the samples worth     *)
(* most are resampled into one array, as many as fit, and the notes of the *)
(* song play those copies.  Entries and copies are segments of the pool    *)
(* hash_entry_pool (MBlock).                                               *)
(*                                                                         *)
(* A sample is [ls, le, dl, loops, cacheable, note_to_use]: its points in  *)
(* units of 1/FRACTION, and whether it has neither vibrato nor a ping-pong *)
(* loop nor the rate of the output already.  The song is any sequence of   *)
(* the events that the prescan looks at; an instrument is the sequence of  *)
(* the samples a note of it plays, and a drum part has one for each note.  *)
(* Special patches, which a module file brings, are never cached.          *)
(***************************************************************************)
EXTENDS MBlock, FiniteSets, Functions, TLC

CONSTANTS
  Channels, NoteCount,
  Samples, Shape,        \* Shape[s]: the shapes sample s may have
  Instrument,            \* Instrument[program]: a sequence of samples
  Kit,                   \* Kit[note]: those of a drum part
  Step,                  \* Step[note]: the resampling ratio, in 1/FRACTION
  FRACTION,              \* 1 << FRACTION_BITS
  MIN_LOOPLEN, MIXLEN, CACHE_DATA_LEN,
  SPLEN_T_MAX,           \* the greatest number of a splen_t
  None,                  \* NULL
  Word,                  \* 2^w, for the int32 counters
  hash_entry_pool,
  ENTRY, SAMPLE, POINTER,  \* sizes
  Voices,
  Gaps,
  MaxEvents,             \* bound: the events of each song
  MaxOthers              \* bound: segments of the other pools

Notes == 0..(NoteCount - 1)

ASSUME CacheAssumption ==
  /\ hash_entry_pool \in Pools
  /\ ENTRY \in Nat \ {0} /\ SAMPLE \in Nat \ {0} /\ POINTER \in Nat \ {0}
  /\ FRACTION \in Nat \ {0} /\ Step \in [Notes -> Nat \ {0}]
  /\ MIN_LOOPLEN \in Nat /\ MIXLEN \in Nat /\ CACHE_DATA_LEN \in Nat
  /\ SPLEN_T_MAX \in Nat /\ SPLEN_T_MAX >= FRACTION
  /\ NoteCount \in Nat /\ Gaps \subseteq Nat /\ Word \in Nat \ {0}
  /\ None \notin [sp: Samples, note: Notes]
  /\ Instrument \in Seq(Seq(Samples)) /\ 1 \in DOMAIN Instrument
  /\ Kit \in [Notes -> Seq(Samples)]
  /\ \A s \in Samples : Shape[s] \subseteq
       [ls: Nat, le: Nat, dl: Nat, loops: BOOLEAN, cacheable: BOOLEAN, note_to_use: Notes]

VARIABLES
  phase,                 \* "idle", "prescan", "count", "create" or "play"
  sample,                \* sample[s]: the shape of sample s
  key_shift, program,    \* of each channel,
  drum,                  \* and whether it is a drum part
  now, events, songs,
  refer,                 \* what note_on_prescan() has still to refer to
  cache_hash_table,      \* [at, cnt, resampled] of each [sp, note] in it
  channel_note_table,    \* [key, on] of each channel and note, or Off
  array,                 \* entries resamp_cache_create() has still to look at
  sorted,                \* whether it looks at the cheapest first
  cache_data, cache_data_len,
  voice,                 \* [on, cache, sample, special] of each voice
  sounding, heard, muddled  \* history of the prescan: the notes that sound,
                            \* how long those of each entry have sounded, and
                            \* whether a note's off cannot be told any more

pool_vars == <<chain, allocated, free_mblock_list, block_size, offset, segments>>
channel_vars == <<key_shift, program, drum>>
song_vars == <<channel_vars, now, events, songs>>
table_vars == <<cache_hash_table, channel_note_table>>
data_vars == <<cache_data, cache_data_len, array, sorted>>
heard_vars == <<sounding, heard, muddled>>
cache_vars == <<pool_vars, phase, sample, song_vars, refer, table_vars,
                data_vars, voice, heard_vars>>

Keys == [sp: Samples, note: Notes]
Off == [key |-> None, on |-> 0]
NoOne == [on |-> FALSE, cache |-> None, sample |-> None, special |-> FALSE]
Wrapped(n) == ((n + Word \div 2) % Word) - Word \div 2
Least(a, b) == IF a < b THEN a ELSE b
SumOf(f) == FoldFunction(+, 0, f)     \* of the values of f

CacheInit ==
  /\ Init
  /\ phase = "idle" /\ sample \in {f \in [Samples -> UNION {Shape[s] : s \in Samples}] :
                                     \A s \in Samples : f[s] \in Shape[s]}
  /\ key_shift = [c \in Channels |-> 0] /\ program = [c \in Channels |-> 1]
  /\ drum = [c \in Channels |-> FALSE]
  /\ now = 0 /\ events = 0 /\ songs = 0 /\ refer = <<>>
  /\ cache_hash_table = <<>>
  /\ channel_note_table = [c \in Channels |-> [n \in Notes |-> Off]]
  /\ array = {} /\ sorted = FALSE
  /\ cache_data = [i \in 0..(CACHE_DATA_LEN + 1) |-> None] /\ cache_data_len = 0
  /\ voice = [v \in Voices |-> NoOne]
  /\ sounding = {} /\ heard = [k \in Keys |-> 0] /\ muddled = FALSE

-----------------------------------------------------------------------------
(* Lengths of a resampled sample: sample_resamp_info().  Its length goes   *)
(* as newlen << FRACTION_BITS to a splen_t, and is shifted back: only as   *)
(* many points as a splen_t has room for can be told apart.                *)
Points == (SPLEN_T_MAX + 1) \div FRACTION
Scaled(x, note) == (2 * x * FRACTION + Step[note]) \div (2 * Step[note])

LoopStart(sp, note) == Scaled(sample[sp].ls, note)
LoopEnd(sp, note) ==
  LET s == sample[sp]
      xle == Scaled(s.le, note)
      turns == (MIN_LOOPLEN * Step[note]) \div (s.le - s.ls) + 1
  IN  IF s.loops /\ (xle - LoopStart(sp, note)) \div FRACTION < MIN_LOOPLEN
      THEN Scaled(s.le + turns * (s.le - s.ls), note) ELSE xle
Length(sp, note) ==
  (2 * sample[sp].dl + Step[note]) \div (2 * Step[note])
    + (LoopEnd(sp, note) - Scaled(sample[sp].le, note)) \div FRACTION
TooLong(sp, note) ==
  \E x \in {(sample[sp].dl * FRACTION) \div Step[note], LoopStart(sp, note), LoopEnd(sp, note)} :
    x >= SPLEN_T_MAX

Info(sp, note) ==
  IF TooLong(sp, note) THEN [start |-> 0, end |-> 0, len |-> 0]
  ELSE [start |-> LoopStart(sp, note) \div FRACTION, end |-> LoopEnd(sp, note) \div FRACTION,
        len |-> Length(sp, note) % Points]

-----------------------------------------------------------------------------
(* new_segment(&hash_entry_pool, n) and the segment it returns *)
NewSegmentIn(m, nbytes) ==
  \/ NewSegment(m, nbytes) \/ NewLarge(m, nbytes)
  \/ NewFromHeap(m, nbytes) \/ NewFromFreeList(m, nbytes)
NewOne == CHOOSE s \in segments' : s \notin segments

NoReset == UNCHANGED <<cache_hash_table, channel_note_table>>      \* mutant
ClearTables ==
  /\ cache_hash_table' = <<>>
  /\ channel_note_table' = [c \in Channels |-> [n \in Notes |-> Off]]

(* resamp_cache_reset() *)
ResampCacheReset ==
  /\ cache_data_len' = 0
  /\ ClearTables
  /\ IF chain[hash_entry_pool] = <<>> THEN UNCHANGED pool_vars
     ELSE ReuseMBlock(hash_entry_pool)

(* reset_midi(): the file knows the drum parts, and keeps their changes *)
ResetMidi ==
  /\ key_shift' = [c \in Channels |-> 0] /\ program' = [c \in Channels |-> 1]

(* the beginning of play_midi_prescan(): reset_midi(0), then the cache *)
StartPrescan ==
  /\ phase = "idle" /\ songs < Len(MaxEvents)
  /\ phase' = "prescan" /\ songs' = songs + 1 /\ now' = 0 /\ events' = 0
  /\ ResetMidi /\ drum' \in [Channels -> BOOLEAN]
  /\ voice' = [v \in Voices |-> [voice[v] EXCEPT !.on = FALSE]]
  /\ ResampCacheReset
  /\ sounding' = {} /\ heard' = [k \in Keys |-> 0] /\ muddled' = FALSE
  /\ UNCHANGED <<sample, refer, cache_data, array, sorted>>

-----------------------------------------------------------------------------
(* resamp_cache_refer_off() at `time', on what the two tables hold *)
SoundLength(sp, note) ==
  ((sample[sp].dl \div FRACTION) * FRACTION) \div Step[note]
Lasted(sp, note, len) ==
  IF sample[sp].loops THEN len ELSE Least(len, SoundLength(sp, note))

CountedTable(table, notes, ch, note, time) ==
  LET k == notes[ch][note].key
      len == time - notes[ch][note].on
  IN  IF k = None \/ len < 0 THEN table
      ELSE [table EXCEPT ![k].cnt = Wrapped(@ + Lasted(k.sp, note, len))]

ReferOff(ch, note) ==
  /\ cache_hash_table' =
       CountedTable(cache_hash_table, channel_note_table, ch, note, now')
  /\ channel_note_table' = [channel_note_table EXCEPT ![ch][note] = Off]

(* resamp_cache_refer_alloff() of the channels chs: each entry is counted  *)
(* for all the notes of theirs that are on                                 *)
LastedAll(chs, k, time) ==
  SumOf([x \in {x \in chs \X Notes : channel_note_table[x[1]][x[2]].key = k} |->
           Lasted(k.sp, x[2], time - channel_note_table[x[1]][x[2]].on)])

ReferAllOff(chs) ==
  /\ cache_hash_table' =
       [k \in DOMAIN cache_hash_table |->
          [cache_hash_table[k] EXCEPT !.cnt = Wrapped(@ + LastedAll(chs, k, now'))]]
  /\ channel_note_table' =
       [c \in Channels |-> IF c \in chs THEN [n \in Notes |-> Off]
                           ELSE channel_note_table[c]]

(* History: a note sounds from its on, with the entry of the sample it is  *)
(* counted by; until now' goes on what sounds, then the notes of the set   *)
(* `ends' end, and those of `begins' begin.                                *)
Heard(k, ends, time) ==
  SumOf([s \in {s \in ends : s.key = k} |-> Lasted(k.sp, k.note, time - s.on)])
Hear(ends, begins) ==
  /\ heard' = [k \in Keys |-> heard[k] + Heard(k, ends, now')]
  /\ sounding' = (sounding \ ends) \cup begins
Sounding(ch) == {s \in sounding : s.ch = ch}
OnKey(ch, a) == {s \in sounding : s.ch = ch /\ s.a = a}

-----------------------------------------------------------------------------
(* The events of the prescan. *)
Event ==
  /\ phase = "prescan" /\ refer = <<>> /\ events < MaxEvents[songs]
  /\ events' = events + 1
  /\ \E gap \in Gaps : now' = now + gap
  /\ UNCHANGED <<phase, sample, songs, data_vars, voice>>

(* MIDI_EVENT_NOTE(): a drum part is not shifted *)
Shift == [c \in Channels |-> IF drum[c] THEN 0 ELSE key_shift[c]]
Pressed(ch, a) == (a + Shift[ch]) % NoteCount

(* ME_NOTEON: note_on_prescan(); the samples of the note are referred to   *)
(* one by one                                                              *)
Played(ch, a) == IF drum[ch] THEN Kit[a] ELSE Instrument[program[ch]]

(* History: a note counts for the last of its samples that can be cached.  *)
(* One with none silences the note before it, which nobody refers off.     *)
Begun(ch, a) ==
  LET s == Played(ch, a)
      cached == {i \in 1..Len(s) : sample[s[i]].cacheable}
  IN  {[ch |-> ch, a |-> a, key |-> [sp |-> s[i], note |-> Pressed(ch, a)], on |-> now'] :
         i \in {i \in cached : \A j \in cached : j <= i}}
HearNote(ch, a) ==
  IF Played(ch, a) = <<>> THEN UNCHANGED heard_vars
  ELSE /\ Hear(OnKey(ch, a), Begun(ch, a))
       /\ muddled' = (muddled \/ (Begun(ch, a) = {} /\ OnKey(ch, a) # {}))

NoteOn(ch, a) ==
  /\ Event
  /\ refer' = [i \in 1..Len(Played(ch, a)) |-> [ch |-> ch, a |-> a, sp |-> Played(ch, a)[i]]]
  /\ HearNote(ch, a)
  /\ UNCHANGED <<pool_vars, channel_vars, table_vars>>

Referred ==
  refer' = Tail(refer) /\ UNCHANGED <<phase, sample, song_vars, data_vars, voice, heard_vars>>

(* resamp_cache_refer_on() that returns early ... *)
ReferOnNothing ==
  /\ refer # <<>> /\ ~sample[Head(refer).sp].cacheable
  /\ Referred
  /\ UNCHANGED <<pool_vars, table_vars>>

(* ... and that finds or makes the entry; what the note has on is off      *)
(* first: a note before it, or the sample referred to just before          *)
ReferOn ==
  LET ch == Head(refer).ch
      note == Pressed(ch, Head(refer).a)
      k == [sp |-> Head(refer).sp, note |-> note]
      counted == CountedTable(cache_hash_table, channel_note_table, ch, note, now)
  IN  /\ refer # <<>> /\ sample[k.sp].cacheable
      /\ channel_note_table' = [channel_note_table EXCEPT ![ch][note] = [key |-> k, on |-> now]]
      /\ IF k \in DOMAIN counted
         THEN cache_hash_table' = counted /\ UNCHANGED pool_vars
         ELSE /\ NewSegmentIn(hash_entry_pool, ENTRY)
              /\ cache_hash_table' =
                   [q \in {k} \cup DOMAIN counted |->
                      IF q = k THEN [at |-> NewOne, cnt |-> 0, resampled |-> None]
                      ELSE counted[q]]
      /\ Referred

(* ME_NOTEOFF *)
NoteOff(ch, a) ==
  /\ Event
  /\ ReferOff(ch, Pressed(ch, a))
  /\ Hear(OnKey(ch, a), {})
  /\ UNCHANGED <<pool_vars, channel_vars, refer, muddled>>

(* ME_ALL_NOTES_OFF, ME_PITCHWHEEL, ME_MASTER_TUNING, ME_MONO, ...; also   *)
(* ME_RESET_CONTROLLERS and ME_PORTAMENTO, which falls through to it: the  *)
(* notes of the song that portamento would bend count like any other       *)
AllOff(ch) ==
  /\ Event
  /\ ReferAllOff({ch})
  /\ Hear(Sounding(ch), {})
  /\ UNCHANGED <<pool_vars, channel_vars, refer, muddled>>

KeyShiftOnly(ch, b) ==                                             \* mutant
  /\ Event
  /\ key_shift' = [key_shift EXCEPT ![ch] = b]
  /\ Hear(Sounding(ch), {})
  /\ UNCHANGED <<pool_vars, program, drum, refer, table_vars, muddled>>
(* ME_KEYSHIFT *)
KeyShift(ch, b) ==
  /\ Event
  /\ ReferAllOff({ch})
  /\ key_shift' = [key_shift EXCEPT ![ch] = b]
  /\ Hear(Sounding(ch), {})
  /\ UNCHANGED <<pool_vars, program, drum, refer, muddled>>

(* ME_PROGRAM, by which some banks make a channel a drum part or not, and  *)
(* ME_DRUMPART, which changes the program too: the notes that sound go on, *)
(* but the off of a note that was shifted, or will be, names another note  *)
Program(ch, p, part) ==
  /\ Event
  /\ program' = [program EXCEPT ![ch] = p]
  /\ drum' = [drum EXCEPT ![ch] = part]
  /\ muddled' = (muddled \/ (key_shift[ch] # 0 /\ part # drum[ch] /\ Sounding(ch) # {}))
  /\ UNCHANGED <<pool_vars, key_shift, refer, table_vars, sounding, heard>>

(* ME_RESET: reset_midi(), and nothing is referred off *)
Reset ==
  /\ Event
  /\ ResetMidi
  /\ muddled' = (muddled \/ sounding # {})
  /\ UNCHANGED <<pool_vars, drum, refer, table_vars, sounding, heard>>

-----------------------------------------------------------------------------
(* The end of the song: all channels are referred off, and                 *)
(* resamp_cache_create() drops what never sounded, or has no length.  Its  *)
(* sums are int32; the comparison is unsigned.                             *)
Worth(k, table) == table[k].cnt > 0 /\ Info(k.sp, k.note).len > 0
TotalOf(table, ks) == Wrapped(SumOf([k \in ks |-> table[k].cnt]))

EndOfTrack ==
  /\ phase = "prescan" /\ refer = <<>>
  /\ \E gap \in Gaps : now' = now + gap
  /\ ReferAllOff(Channels)
  /\ Hear(sounding, {})
  /\ phase' = "count" /\ events' = 0 /\ ResetMidi               \* dead
  /\ UNCHANGED <<pool_vars, sample, drum, songs, refer, data_vars, voice, muddled>>

CreateBegin ==
  LET kept == {k \in DOMAIN cache_hash_table : Worth(k, cache_hash_table)}
      total == TotalOf(cache_hash_table, kept)
  IN  /\ phase = "count"
      /\ cache_hash_table' = [k \in kept |-> cache_hash_table[k]]
      /\ array' = kept
      /\ sorted' = (total < 0 \/ total > CACHE_DATA_LEN)
      /\ phase' = "create"
      /\ IF kept = {} THEN UNCHANGED pool_vars
         ELSE NewSegmentIn(hash_entry_pool, Cardinality(kept) * POINTER)
      /\ now' = 0                                                 \* dead
      /\ sounding' = {} /\ heard' = [k \in Keys |-> 0] /\ muddled' = FALSE
      /\ UNCHANGED <<sample, channel_vars, events, songs, refer, channel_note_table,
                     cache_data, cache_data_len, voice>>

(* The entry whose turn it is: in the order of the table, which depends on *)
(* addresses, or the one with the least length per count.                  *)
Cheaper(k, q) ==
  Info(k.sp, k.note).len * cache_hash_table[q].cnt
    < Info(q.sp, q.note).len * cache_hash_table[k].cnt
Turn(k) == k \in array /\ (sorted => \A q \in array : ~Cheaper(q, k))

(* cache_resampling(); the copy is made for the sample's own note if it    *)
(* has one                                                                 *)
Copied(k) ==
  Info(k.sp, IF sample[k.sp].note_to_use # 0 THEN sample[k.sp].note_to_use ELSE k.note)
FitsBarely(x) == x.len # 0 /\ cache_data_len + x.len <= CACHE_DATA_LEN  \* mutant
Fits(x) == x.len # 0 /\ cache_data_len + x.len + 1 <= CACHE_DATA_LEN

NotResampled(k) ==
  /\ phase = "create" /\ Turn(k) /\ ~Fits(Copied(k))
  /\ array' = array \ {k}
  /\ UNCHANGED <<pool_vars, phase, sample, song_vars, refer, table_vars, sorted,
                 cache_data, cache_data_len, voice, heard_vars>>

(* the cells written: the samples, the end of the loop that is blended     *)
(* into its start, and one behind it                                       *)
Cells(k, x) ==
  LET start == x.start
      mix == IF sample[k.sp].loops
             THEN Least(MIXLEN, Least(start, x.end - start)) ELSE 0
  IN  {cache_data_len + i :
         i \in 0..(x.len - 1) \cup (x.end - mix)..(x.end - 1) \cup {x.end}}

CacheResampling(k) ==
  LET x == Copied(k)
  IN  /\ phase = "create" /\ Turn(k) /\ Fits(x)
      /\ NewSegmentIn(hash_entry_pool, SAMPLE)
      /\ cache_data' = [i \in DOMAIN cache_data |->
                          IF i \in Cells(k, x) THEN k ELSE cache_data[i]]
      /\ cache_hash_table' = [cache_hash_table EXCEPT ![k].resampled =
           [at |-> NewOne, data |-> cache_data_len, start |-> x.start, end |-> x.end,
            len |-> x.len]]
      /\ cache_data_len' = cache_data_len + x.len + 1
      /\ array' = array \ {k}
      /\ UNCHANGED <<phase, sample, song_vars, refer, channel_note_table, sorted,
                     voice, heard_vars>>

(* what was not resampled leaves the table; then reset_midi(0) *)
CreateEnd ==
  /\ phase = "create" /\ array = {}
  /\ cache_hash_table' =
       [k \in {q \in DOMAIN cache_hash_table : cache_hash_table[q].resampled # None}
          |-> cache_hash_table[k]]
  /\ phase' = "play" /\ sorted' = FALSE
  /\ ResetMidi
  /\ UNCHANGED <<pool_vars, sample, drum, now, events, songs, refer, channel_note_table, array,
                 cache_data, cache_data_len, voice, heard_vars>>

-----------------------------------------------------------------------------
(* Playing: find_samples() and resamp_cache_fetch().  The note asked for   *)
(* is not reduced modulo the number of notes but limited to it.            *)
Asked(ch, a) == Least(a + Shift[ch], NoteCount - 1)
NoCopy == [at |-> None, resampled |-> None]
Fetch(sp, note) ==
  LET k == [sp |-> sp, note |-> note]
  IN  IF sample[sp].cacheable /\ k \in DOMAIN cache_hash_table
         /\ cache_hash_table[k].resampled # None
      THEN cache_hash_table[k] ELSE NoCopy

(* A portamento, and playing in real time, fetch nothing.  *)
PlayNote(ch, a, v) ==
  LET first == Played(ch, a)[1]
      note == IF sample[first].note_to_use # 0 THEN Pressed(ch, a) ELSE Asked(ch, a)
  IN  /\ phase = "play" /\ ~voice[v].on
      /\ \E i \in 1..Len(Played(ch, a)) : \E p \in {Fetch(Played(ch, a)[i], note), NoCopy} :
           voice' = [voice EXCEPT ![v] = [on |-> TRUE, cache |-> p.at, sample |-> p.resampled,
                                          special |-> FALSE]]
      /\ UNCHANGED <<pool_vars, phase, sample, song_vars, refer, table_vars,
                     data_vars, heard_vars>>

(* On a channel that ME_SET_PATCH gave a special patch find_samples()      *)
(* returns before it sets the `cache' of the voice, which stays that of    *)
(* the note the voice played before.                                       *)
PlaySpecial(v) ==
  /\ phase = "play" /\ ~voice[v].on
  /\ voice' = [voice EXCEPT ![v] = [on |-> TRUE, cache |-> voice[v].cache, sample |-> None,
                                    special |-> TRUE]]
  /\ UNCHANGED <<pool_vars, phase, sample, song_vars, refer, table_vars,
                 data_vars, heard_vars>>

(* A note is bent: it plays the copy as any other sample; or it ends. *)
VoiceChange(v) ==
  /\ phase = "play" /\ voice[v].on
  /\ \/ voice[v].cache # None /\ voice' = [voice EXCEPT ![v].cache = None]
     \/ voice' = [voice EXCEPT ![v].on = FALSE]
  /\ UNCHANGED <<pool_vars, phase, sample, song_vars, refer, table_vars,
                 data_vars, heard_vars>>

(* Program changes, with drum parts, and key shifts of the song when it is *)
(* played.                                                                 *)
PlayChange(ch) ==
  /\ phase = "play"
  /\ \/ /\ \E p \in DOMAIN Instrument : program' = [program EXCEPT ![ch] = p]
        /\ \E part \in BOOLEAN : drum' = [drum EXCEPT ![ch] = part]
        /\ UNCHANGED key_shift
     \/ \E b \in {0, 1} : key_shift' = [key_shift EXCEPT ![ch] = b] /\ UNCHANGED <<program, drum>>
  /\ UNCHANGED <<pool_vars, phase, sample, now, events, songs, refer, table_vars,
                 data_vars, voice, heard_vars>>

EndSong ==
  /\ phase = "play" /\ phase' = "idle"
  /\ voice' = [v \in Voices |-> [voice[v] EXCEPT !.on = FALSE]]
  /\ ResetMidi /\ drum' = [c \in Channels |-> FALSE]             \* dead
  /\ UNCHANGED <<pool_vars, sample, now, events, songs, refer, table_vars, data_vars, heard_vars>>

(* Other pools, before a song, at most MaxOthers segments at a time *)
OtherPools ==
  /\ phase = "idle" /\ songs < Len(MaxEvents)
  /\ \/ \E m \in Pools \ {hash_entry_pool} :
          \/ ReuseMBlock(m)
          \/ /\ Cardinality({s \in segments : s.pool = m}) < MaxOthers
             /\ \E nbytes \in Sizes : NewSegmentIn(m, nbytes)
     \/ FreeGlobal
  /\ UNCHANGED <<phase, sample, song_vars, refer, table_vars, data_vars, voice, heard_vars>>

-----------------------------------------------------------------------------
CacheNext ==
  \/ StartPrescan \/ ReferOnNothing \/ ReferOn \/ Reset
  \/ \E ch \in Channels, a \in Notes : NoteOn(ch, a) \/ NoteOff(ch, a)
  \/ \E ch \in Channels : AllOff(ch) \/ \E b \in {0, 1} : KeyShift(ch, b)
  \/ \E ch \in Channels, p \in DOMAIN Instrument, part \in BOOLEAN : Program(ch, p, part)
  \/ EndOfTrack \/ CreateBegin \/ CreateEnd
  \/ \E k \in array : NotResampled(k) \/ CacheResampling(k)
  \/ \E ch \in Channels, a \in Notes, v \in Voices : PlayNote(ch, a, v)
  \/ \E v \in Voices : PlaySpecial(v) \/ VoiceChange(v)
  \/ \E ch \in Channels : PlayChange(ch)
  \/ EndSong \/ OtherPools

CacheSpec == CacheInit /\ [][CacheNext]_cache_vars

-----------------------------------------------------------------------------
(* Whatever the cache points to is a segment of its pool that was not      *)
(* given back: the entries in the table and the copies they name, the      *)
(* entries of the notes that are on, and the copy a voice plays.  The pool *)
(* is given back at once when the next song is looked at, while the tables *)
(* and the voices are cleared each by itself.  A voice's own `cache' is    *)
(* such a segment unless the voice plays a special patch, for which        *)
(* find_samples() leaves it alone: there it may be an entry of an earlier  *)
(* song, which resample.c only compares with NULL.                         *)
Live(s) == s \in segments /\ s.pool = hash_entry_pool
Reachable ==
  /\ \A k \in DOMAIN cache_hash_table :
       /\ Live(cache_hash_table[k].at)
       /\ cache_hash_table[k].resampled # None => Live(cache_hash_table[k].resampled.at)
  /\ \A c \in Channels, n \in Notes :
       channel_note_table[c][n] # Off =>
         phase = "prescan" /\ channel_note_table[c][n].key \in DOMAIN cache_hash_table
  /\ \A v \in Voices : voice[v].on =>
       /\ voice[v].sample # None => Live(voice[v].sample.at)
       /\ voice[v].cache # None /\ ~voice[v].special => Live(voice[v].cache)

(* The copies do not disturb each other, and stay inside the array: every  *)
(* cell of a copy holds that copy's sample, though a cell behind the loop  *)
(* is written that may be the second one behind the copy; the cell         *)
(* CACHE_DATA_LEN is the last there is.  This holds for sounds whose       *)
(* resampled length, with the turns of a short loop that are added to it,  *)
(* is less than Points: a longer one is taken for what is left of it       *)
(* modulo Points, fits, and has its loop written far behind the array.     *)
LengthsHeld ==
  \A sp \in Samples, note \in Notes : TooLong(sp, note) \/ Length(sp, note) < Points
DataIntact ==
  LengthsHeld =>
    /\ cache_data[CACHE_DATA_LEN + 1] = None
    /\ \A k \in DOMAIN cache_hash_table :
         LET x == cache_hash_table[k].resampled
         IN  x # None =>
               /\ \A i \in 0..(x.len - 1) : cache_data[x.data + i] = k
               /\ x.end <= x.len + 1 /\ x.start <= x.end

(* When the counting is over, an entry's count is, as far as an int32      *)
(* holds it, the time for which those notes sound of whose samples it is   *)
(* the last that can be cached: the other samples of a note of several, as *)
(* the left one of a stereo sound, are not counted for it, since a note    *)
(* has one place in channel_note_table.  And unless between a note and its *)
(* off came a reset of the song, a change of a shifted channel to a drum   *)
(* part or back, or a note of its key that the cache does not count: then  *)
(* the off may miss its on.                                                *)
CountsSounding ==
  phase = "count" /\ ~muddled =>
    \A k \in Keys :
      Wrapped(heard[k]) = (IF k \in DOMAIN cache_hash_table THEN cache_hash_table[k].cnt ELSE 0)
=============================================================================
