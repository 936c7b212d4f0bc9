# A TLA+ model of TestSoundfont's player

TestSoundfont is an Android application that plays MIDI files with sound fonts.
A thin Java shell (`src/app/src/main/java`) drives TiMidity++, a software
synthesizer in C (`src/app/src/main/jni`), through JNI. This directory holds
TLA+ modules of the parts of the synthesizer whose correctness is a matter of
order, interruption and bookkeeping rather than of signal processing, the TLC
runs that check them on small instances, and TLAPS proofs for every instance.

Below, `jni/` stands for `src/app/src/main/jni/`.

## 1. Inventory

| part | state | operations | what must hold |
|---|---|---|---|
| byte streams, `libarc/url.c`, `url_buff.c`, `url_cache.c`, `utils/memb.c` | ring of a buffered stream, kept bytes of a cached one, count and limit | read, getc, gets, seek, skip, rewind, limit, disable, detach | the bytes are those of the source at the position told; a limit is kept |
| song reader, `timidity/readmidi.c` | linked list of events, point of the last insertion, the counters of two loops over it | read tracks, insert note steps, move channels, groom | events in order of time and of reading; beats, channels and samples are those of the file; it comes back |
| player loop, `timidity/playmidi.c`, `JNIHandler.java` | `current_event`, `current_sample`, buffered frames, restart time, pause flag, the `AudioTrack` | play a file, compute blocks, read control requests, seek, reload, end | every event once, in order, at its time; requests are obeyed; the song ends |
| request mailbox, `helper/helper.c`, `interface/droid_c.c` | two shared integers | `controlTimidity`, `ctl_read`, `timidityReady` | a request is carried out at most once, with its own argument |
| voice pool, `timidity/playmidi.c` | `voice[]`, `upper_voices`, `voices`, vid counters, pedals of channels | Note On/Off, pedals, mode messages, voice reduction, changes of polyphony, the end of the song | no voice hangs, none is lost behind `upper_voices`, links between voices are mutual |
| one voice's sound, `timidity/mix.c`, `resample.c` | envelope stage and volume, cursor, direction, the data it plays | envelope stages, loops, release, pedals, pitch | it reads its data only, holds and fades as it should, and ends |
| resample cache, `timidity/recache.c` | table of counted notes, one array of copies | prescan, refer on and off, create, fetch | counts are sounding times; copies do not overlap; no pointer outlives its pool |
| software audio queue, `timidity/aq.c` | bucket lists (allocated, free, play queue), fill flag, counters | `aq_add`, `aq_fill_nonblocking`, `aq_soft_flush`, `aq_flush`, `aq_setup`, `aq_set_soft_queue` | frames reach the output once and in order; no bucket is lost; nothing stale or partial is played; the loops end |
| event trace, `timidity/miditrace.c` | list of pending display events, free list, pool | push, `trace_loop`, `trace_flush` | events are shown once, in order, not before they are heard |
| block allocator, `utils/mblock.c` | lists of blocks per pool, global free list | `new_segment`, `reuse_mblock`, `free_global_mblock` | segments are disjoint, a block has one owner |
| Android output, `timidity/droid_a.c` | byte counters | `output_data`, `acntl` | as a constant of the audio queue: what it answers |
| effects, instruments and sound fonts, start-up, decoders, other outputs and interfaces, Java screens | - | arithmetic, parsing, I/O | see section 5 |

How they interact. `JNIHandler.play()` starts the `AudioTrack` and calls
`play_midi_file()` on its own thread. The song is read through a byte stream and
turned into the event list by the song reader; a prescan of the list fills the
resample cache. The event loop of `play_midi()` gives each event to
`play_event()`, which first lets `compute_data()` compute the frames up to the
time of the event in blocks; before each block `apply_controls()` reads the
requests that another Java thread left in the mailbox, and may move the song.
`do_compute_data()` mixes the voices of the pool into a block, each voice from
its own data or from a copy in the cache; `aq_add()` puts the block in the
software queue, whose buckets go to the output, and shows the trace events that
are due. Flushing the queue polls the mailbox as well, through
`check_apply_control()`, which may flush the queue a second time from inside the
first flush. Events, cache entries and trace nodes live in pools of the block
allocator, which share one list of free blocks.

Hard behaviours: re-entrance (flush inside flush), requests at every place that
polls, several requests in one round, seeks in the middle of a block, the reuse
of voices while notes, pedals and mode messages end them, the two load
regulations that move voices, cursors that overshoot a loop in either direction,
counters of eight and of 32 bits, rings that wrap, short reads, merging by short
scans, the shared mailbox without a lock, and the `AudioTrack` whose life differs
from the song's.

## 2. The modules and the code

One module per component; an MC module names the constants of its runs, a
`Proofs` module holds its theorems.

| module | models | composed with, implements | runs | proofs |
|---|---|---|---|---|
| `AudioQueue` | `aq.c`, with the output as a device | implements `FrameStream` | `aq_outputs`, `aq_rates` | `AudioQueueProofs` |
| `VoicePool` | the voices of `playmidi.c` | - | `voice_pool`, `voice_layers` | `VoicePoolProofs` |
| `PlayerControl` | `play_midi_file()`, `play_midi()`, `apply_controls()`, the `AudioTrack` | - | `player_requests`, `player_first` | `RequestProofs` |
| `DroidMailbox` | `controlTimidity()`, `ctl_read()` | - | `mailbox` | `RequestProofs` |
| `MidiTrace` | `miditrace.c` | - | `trace` | `MidiTraceProofs` |
| `Url` | `url.c` over one of two streams | `UrlBuffer`, `UrlCache` over `UrlReader`, `MemBuffer`; implements `ByteStream` | `streams` | `UrlProofs` |
| `MBlock` | `mblock.c` | part of `ResampleCache` | `cache` | `ResampleCacheProofs` |
| `ResampleCache` | `recache.c`, the prescan, the voices that play copies | `MBlock` | `cache` | `ResampleCacheProofs` |
| `VoiceSound` | one voice in `mix.c` and `resample.c` | - | `sound` | `VoiceSoundProofs` |
| `SongReader` | `readmidi.c` from events to the song | - | `song_reader` | `SongReaderProofs` |

Conventions. A definition has the name of the C function or variable it stands
for where there is one. A definition with the comment `mutant` is not part of
the model: it is the next definition with a plausible mistake, used to see that
a property would notice it. `bound` marks a guard that only keeps the
state space finite, and `history` a variable the code does not have. Options
that are fixed when the program starts are a variable the initial state chooses
from a constant set and that never changes (`setup`, `session`, `use`, `mode`),
so that one run covers several configurations.

### AudioQueue and FrameStream

A frame is the unit of all sizes. `queue` is the list from `head` to `tail`,
`free` is `allocated_bucket_list`, `data[b]` what a bucket holds, `base` the
storage of `alloc_soft_queue()`; frames are numbered in the order they were
computed, so that an old byte (`Stale`) and padding (`Silence`) can be told from
audio. The device is a counter of frames it holds, with the answers of its play
mode: whether it streams, fragment and queue size, what it says of the room it
has, whether it may refuse a block, and what it does on PM_REQ_DISCARD
(`droid_a.c` accepts it and keeps its frames). `pc` is the place inside `aq.c`:
a step ends where the code calls `output_data()`, `trace_loop()` or
`check_apply_control()`, because there the audio thread may block or the queue
may be changed from outside, and the device plays between any two steps. The
flush loops poll the controls, and a control may flush the queue or set it up
for another rate from inside the loop: `ControlSkip`, `ControlFlush` and `Setup`
are those nested calls.

`FrameStream` is what a caller may rely on: the device receives the frames in the
order they were accepted, each of them once; silence comes only after the last
accepted frame; a discard drops what was accepted and not yet handed over, and
nothing else is dropped. `ImplementsStream` is the refinement: `accepted` is what
`aq_add()` has taken from the caller, `given` the frame before the head's first.

### VoicePool

`voice[i]` keeps the status, the key, the vid and `proximate_flag`; amplitudes
and envelopes are left out, so that "the voice with the lowest volume" is any
candidate the code could choose, and a voice ends whenever mixing may find its
data or envelope at an end (`VoiceSound` says when). Handlers of MIDI events are
one step each, with the calls they make (`note_on()` with the search for a
voice, the kill of others by overlap, mono mode and alternate assignment, the
chorus partner). The loops that reduce the polyphony take one step per round and
keep the other handlers out (`work`). `vidq_head`, `vidq_tail` and `chorus_link`
are eight bits wide in the code, `ByteMod` in the model.

### PlayerControl

`ev` is the event given to `play_event()`, `current_event` the global that
`seek_forward()` moves; `current_sample`, `buffered_count`, `count`,
`midi_restart_time`, `jump_flag` and `play_pause_flag` have the code's names, and
`offset` is `midi_trace.offset`, the sample the output counts from. `pc` names
the function that runs. Each poll is a round of the loop of `apply_controls()`:
it reads requests until there is none or one that leaves the song (`Leave`).
`Heard` is what `current_trace_samples()` may answer: any time between the start
and what was computed. `Play` and `track` are the Java side, which creates, plays
and releases the `AudioTrack`; writing to a released track throws, and the model
then stops at `crashed`. `skipped` and `reload` remember where a request to leave
or to reload was read, `expect` the event that is due.

### DroidMailbox

Each access to one of the two integers is a step, and the accesses of a thread
to different integers may happen in either order, since neither is atomic or
volatile. A request is the number of its call and whether it is RC_JUMP, whose
argument `controlTimidity()` scales in place after storing it. Its specification is
`MailSpec`, so that `RequestProofs` can extend it together with `PlayerControl`.

### MidiTrace

`list` and `free_list` are node numbers, `pool` how many `new_segment()` gave
out since the last `reuse_mblock()`, `offset`, `lasttime` and the clock are those
of the code. `stalled` remembers that `trace_loop()` moved an event forward
because the device stood still, the one case where an event is shown early on
purpose.

### Url, UrlBuffer, UrlCache, MemBuffer and ByteStream

Byte k of the source is the number k. `UrlReader` is the stream underneath: it
gives any number of bytes up to what is asked, also none, as a short `read()`
does. `UrlBuffer` is the ring of `url_buff.c` with the room behind it: the index
of a byte is computed as in the code, a call that loops takes a step per round
(`loop`, with the locals `r`, `moved`, `left`), and unwritten cells hold -1.
`UrlCache` is the stream that keeps what it read in a `MemBuffer`, the list of
nodes of `memb.c` with its read cursor; `url_cache_disable()` and
`url_cache_detach()` are calls of the caller. `Url` is what every caller uses:
the limit and count of `url.c`, its own `url_gets()` byte by byte, and seeking by
reading where a stream cannot seek. `ByteStream` is the promise: reads continue
at the position told, a seek arrives or stops early only where the source does,
and is refused only further back than a buffered stream keeps.
`ImplementsByteStream` refines it with the position and the window computed from
the ring or the memory.

### MBlock and ResampleCache

`chain[m]` is the list from `first` on, `free_mblock_list` the list all pools
share, addresses are a block and an offset; `segments` is the history of what
callers hold. `reuse_mblock()` is one step: `Kept(chain)` is what its loop leaves
to the free list, last block first.

`ResampleCache` extends it: hash entries and copies are segments of one pool,
another pool takes and gives back blocks meanwhile. The prescan takes the events
of a song as they come (any events, at times with or without gap), one step per
call to `resamp_cache_refer_on()`; a note of an instrument refers to each of its
samples, one of a drum part to those of its key in `Kit`.
`resamp_cache_create()` looks at one entry a step, and copies as many of the
worthwhile ones as fit into the array. The array is the whole of `cache_data`,
each cell with the copy that wrote it last, so that the cell behind a loop that
`loop_connect()` writes is visible. A length is kept modulo `Points`, the points
a `splen_t` has room for, as `sample_resamp_info()` stores it. `PlaySpecial` is a
note with a special patch, for which `find_samples()` leaves the voice's `cache`
as the note before had it. `heard` and `sounding` are the history the counts are
compared with: a note counts for the last of its samples that can be cached,
because `channel_note_table` has one place for it.

### VoiceSound

One voice from `start_note()` to the free slot. The envelope is the stage, the
volume, its increment and target; rates and amplitudes are any value the code's
limits allow. The cursor moves in units of the increment through plain data, a
loop or a ping-pong loop, as `rs_plain()`, `rs_loop()` and `rs_bidir()` count
their batches - the count of PRECALC_LOOP_COUNT is unsigned and wraps when the
cursor is an increment or more behind the end (`resample.c:417`, `609`), and the
whole block is then read there - and `Resampled(n)` also says which positions a
block of n samples reads. `Mix` is a whole `mix_voice()`, with the delay and the death of the voice.

### SongReader

The linked list is a sequence and `current_midi_point` an index into it; `order`
numbers events as they were added. A track gives any of the setup's events after
any of its delta times, may end or break off anywhere, and may find the list
full. `Add` is `readmidi_add_event()` with both scans: `Place` is where the scan
from the last insertion stops. `insert_note_steps()` and `groom_list()` take one
step per round of their loops, `move_channels()` is one step. FRAC stands for
2^16: parts of samples are counted in 1/FRAC and an int32 has FRAC * FRAC values.
`Exact` is the double `compute_sample_increment()` computes and `RateOf` what its
conversion to an int32 gives: when it does not fit, the least int32 on x86 and
the greatest on ARM; without divisions it is infinite or not a number. A
denominator of 2^8 or more is 0 in its `uint8`, and `Beat`, which divides by it,
ends the program (`crashed`).

## 3. The runs

| run | question | instance | distinct states |
|---|---|---|---|
| `aq_outputs` | Do frames survive bucket boundaries, partial buckets, flushes and the controls polled inside them, on every kind of output and over a change between two; does every call return? | 6 play modes, 2 buckets of 2 frames, blocks of 1, 3 and 5 frames, 6 frames, with and without trace | 287 300 |
| `aq_rates` | Does the storage fit after a change of the rate? (It does not.) | 2 rates | violation |
| `voice_pool` | Are voices, vids, pedals and links sound, whatever happens to the pool? | 3 voices, eight bits as 2, four setups | 712 872 |
| `voice_layers` | Are chorus links mutual when an instrument has two layers? (They are not.) | 3 voices | violation |
| `player_requests` | What becomes of each request at each place that reads one, and is each event played once and on time, whatever was sought? | 5 events, blocks of 2 samples, 3 requests of any kind, or 4 seeks | 34 653 |
| `player_first` | ... also after a jump to 0? (It is not.) | 1 request | violation |
| `mailbox` | What do unsynchronised calls do to requests and arguments? | 1 thread with 3 calls, 2 with 2 | 103 839 |
| `trace` | Are display events shown once, in order, in time? | 3 samples, 3 events, four modes | 112 312 |
| `streams` | Are the bytes a caller gets those of the source, through every stream and call? | 10 bytes, a ring of 8, nodes of 2, 19 calls | 756 211 |
| `cache` | Are counts, copies and pointers of the cache right, while blocks wander between two pools? | 2 songs of 3 and 1 events, 3 samples of up to 2 shapes in instruments of 2, a drum part, an array of 11 cells, 4 blocks | 663 752 |
| `sound` | Does a voice stay inside its data, hold, fade and end? | 8 samples, 3 pitches, blocks of 2 and 3 | 98 884 |
| `song_reader` | Is the song what the file says? | 9 files of up to 7 events, times up to 31 | 266 852 |

Why these bounds are enough to be of interest:

- Audio queue: a block of 3 frames spans two buckets of 2; with a frame already
  in the tail it fills both, so that `aq_add()` tops up the tail, takes a bucket,
  finds the queue full and goes around; 6 frames let a second block meet every
  state the first left, after a flush as well. `SmallDevice` (3 frames, less than
  two fragments) has no buckets, `CoarseDevice` gets zero buckets from its rate,
  `Stubborn` cannot discard and `Device` may refuse a block.
- Voices: with 3 slots there is a voice to lose behind `upper_voices`, one to
  move into its place and one more; 2 layers or a chorus pair fill the pool at
  the second note, so every note after it steals. `ByteMod` = 4 lets the vid
  counters wrap while at most 2 notes of a key wait for their Note Off; the
  setups do not let 4 wait, where the counters would be ambiguous.
- Player: the song has two notes, a gap longer than a block, two events at one
  time and the end; jumps lead before, into and beyond it. Three requests are
  one before, one during and one after a flush, or three in one round.
- Mailbox: an old request, one that overwrites it and one that reads the argument
  of the one before.
- Trace: three events are the shown one, the one that is due and one behind it.
- Streams: the source is longer than the ring, reads of 7 are longer than a
  buffer, so the ring wraps with the copy from behind its end; two line ends next
  to each other, one on an even byte, let a line end inside a node and a ring
  part. The stream is opened on a reader at its start and one byte on.
- Cache: after the first song the array holds one or two copies, the worthwhile
  ones do not all fit, and with 16 values for an int32 a count wraps. The second
  shape of the looped sample is longer, with the turns of its short loop, than a
  `splen_t` of 32 values holds, and its length wraps. One instrument has two
  samples that can be cached, one a sample that cannot behind one that can.
  Requests
  of 1 and 9 bytes in blocks of 8 give whole, shared and larger blocks; four
  blocks are one in each pool, a large one and one that changes owner.
- Sound: every mode of a sample, loops a little longer than an increment (the
  code hopes for no less), pitches below and above the sample's own, cursors that
  start inside the tail behind the loop. The cached sample's data ends with its
  loop, the case that `Roomy` excepts.
- Song reader: `FRAC` = 8 makes an int32 reach from -32 to 31, so that times wrap
  around and sample counts overflow; beats are 4, 2, 1 and 0 ticks long against
  signatures 3 ticks apart; four channels for eight, three of one number; a list
  of 16 events is filled by note steps that do not advance. Three of the files
  have a denominator of 0 or no divisions.

### Fairness

- `aq_outputs`: weak fairness of the audio thread (it has no other work) and of
  the device (the Android mixer plays what it was given); strong fairness of
  `DrainDone`, since the time-out of the loop in `aq_flush()` is fixed before it
  starts and tested in every round, so that a stream of requests cannot keep it
  alive. No request is fair.
- `player_requests`: weak fairness of the player thread only. A song that is
  left paused need not end, and `SongEnds` says so.
- `mailbox`: a call that began goes on, the player keeps polling. `Served` is
  claimed for one caller that waits for `timidityReady()`; otherwise requests are
  overwritten, and the model shows it.
- `trace`: `trace_loop()` is called again and again by `aq_add()` and by the
  waiting loop. The device need not go on.
- `sound`: weak fairness of `Mix`: `compute_data()` is called as long as the song
  plays.
- `song_reader`: weak fairness of what `read_midi_file()` does once the file is
  read; reading itself may take for ever.

### What the properties say

- Audio queue: `FramesInOrder` relates buckets, the rest of the caller's block
  and the counter of computed frames: nothing is missing or doubled at any
  interruption. `BucketsSound` says that no bucket is lost, which
  `add_play_bucket()` relies on: an empty queue finds one. `OnlyTailPartial` and
  `NothingToDrop` say that the whole buckets the code writes hold audio, and that
  no setup or flush drops any that was to be kept. `ImplementsStream` as above;
  `CallsReturn`: `aq_add()` and the flushes come back.
- Voice pool: `TypeOK` with the bound of the pool (no voice sounds where no loop
  looks), `OnVoicePending` (every voice that is on will meet its Note Off,
  through wrapping counters and moves), `SustainedHasPedal` (a sustained voice
  has a pedal that will drop it, unless Reset All Controllers lifted it),
  `NotesExclusive` (who cuts whom), `SingleLinksPaired` (chorus partners agree,
  with one layer and constant polyphony).
- Player: `SeekExact` and `OnTime` (each event once, in order, at its time,
  after any seek), `StopObeyed` (a request to leave or reload, wherever it was
  read, ends the playing), `SongEnds`; `TypeOK` keeps the event loop inside the
  list.
- Mailbox: `OnceInOrder` for any callers; `NothingLost` (no request is
  lost; an argument may be, but never is it one older than that of the call
  before) and `Served` for the one caller that asks first.
- Trace: `ShownInOrder` (what was shown and what waits are the events pushed, so
  no node was overwritten), `NotEarly`, `Shown`.
- Streams: `ImplementsByteStream`; `RingHolds` (every byte that may be read or
  sought back to is in its cell, through wrap, copy and short reads); `LimitKept`.
- Cache: `OneOwner` and `SegmentsApart` of the pools under it; `Reachable` (what
  tables and voices point to was not given back when the next song began, the
  `cache` of a voice with a special patch excepted); `DataIntact` (no copy is
  overwritten, nothing lies beyond the array), while no resampled length exceeds
  what a `splen_t` can tell apart (`LengthsHeld`); `CountsSounding`: a count is,
  modulo the int32, the time for which those notes sound of whose samples it is
  the last that can be cached, unless a reset, a shifted channel that becomes a
  drum part or back, or a note that is not cached hid the off of a note
  (`muddled`).
- Sound: `ReadsInside` (no block reads outside the data, nor behind a loop it is
  in) for samples with room behind the loop (`Roomy`) and voices whose data has
  not ended before; `HeldAtSustain`, `OnlyQuieter`, `ReleasedEnds`.
- Song reader: `InOrder`; `OnTick` compares the carry of `groom_list()` with
  the sum over ticks at the tempo in force, a song being refused only when a time
  does not fit - for songs without a gap of more than FRAC ticks and without a
  tick whose parts of a sample do not fit an int32; `Beats` compares the note steps with
  the signatures in force, for bars of at most 15 beats, the bars counted modulo
  4096 as the step's twelve bits count them;
  `ChannelsMoved`: channels stay together and apart; `LoadingEnds`: a file that
  was read comes to an end, unless the program ends by dividing by a denominator
  of 0.

### Disagreements between the code and what it says

1. `aq_rates` / `StorageFits`: `aq_set_soft_queue()` keeps the storage when the
   number of buckets is the same (`aq.c:193`), but the size of a bucket may have
   changed with the rate: buckets are then written beyond the memory allocated.
2. `voice_layers` / `LinksPaired`: `note_on()` selects a voice for each layer
   before it starts any. The search for the second may take the voice the first
   one got; it is then started twice, and the second start resets `chorus_link`
   (`playmidi.c:2347`) while the clone of the first still points to it, against
   "Make doubled link v1 and v2" (`playmidi.c:2614`).
3. `player_first` / `EventDue`: a jump to 0, or to any time up to the first
   event, skips the first event: `midi_restart_time` becomes 1
   (`playmidi.c:6429`), so that the event loop steps on, though `skip_to()` did
   not step back. `playmidi.c:8321` says "don't skip the first event if == 0".

Observed while modelling, not made into runs:

- Audio queue: `droid_a.c:110` answers PM_REQ_DISCARD with success and keeps what
  the track holds (`output.h:53-55` promises that it is discarded). Without
  buckets `aq_add()` ignores errors of the output (`aq.c:655-658`). When an
  output that cannot discard refuses a block in the flush before a set-up, the
  queue is dropped; `Stubborn` therefore takes every block, and
  `FlushDropsNothing` is proved for outputs that discard.
- Voices: `voice_decrement_conservative()` moves a voice and leaves its partner's
  link on the old slot (`playmidi.c:6320`). The vid counters are ambiguous when
  256 notes of one key wait (`playmidi.c:483`), and a chorus link cannot name a
  slot above 255, which `-p` permits (`playmidi.h:441`). Reset All Controllers
  lifts the pedals and drops nothing.
- Player: a reload's first seek replays the event before its restart point;
  restart and jump in one round, or a jump to 0 while paused, play an event
  twice (hence `SeeksOnly`). A new reverb moves the song to where it is heard
  without telling `play_event()` (`playmidi.c:6389-6393`): the event that was due
  is played out of its time, and again when the song comes to it. A song whose only event is its end, jumped within,
  steps past the list (hence the assumption that there are two). A new rate that
  is refused ends the round with RC_NONE, whatever was sought before it in the
  round. RC_STOP before loading is ignored on Android (`playmidi.c:8521-8527`),
  RC_RELOAD during `midi_play_end()` too (`7138`). RC_RELOAD after
  PM_REQ_PLAY_END uses the released `AudioTrack` (`JNIHandler.java:262-268`), and
  the check that drains a song may flip the pause flag of the next
  (`playmidi.c:6190`). RC_PREVIOUS goes back within 2 seconds
  (`playmidi.c:6397`), a comment says "less than a second"
  (`controls.h:39-40`).
- Mailbox: a request may carry 0, an unscaled argument, or the argument of the
  call before, even if the caller waited for `timidityReady()`. `PlayerActivity`
  calls it and does not use the answer.
- Trace: while nothing is heard, `trace_loop()` lowers the start of the first
  event without a bound.
- Streams: `url_cache_seek()` from the end adds `whence` instead of the offset
  (`url_cache.c:214-217`). `url_cache_open()` on a stream that is a cache already
  loses the bytes read so far. `url_fgetc()` and `url_gets()` of `url.c` count
  what a stream's own function has read already, or by `strlen()`, so that a NUL
  byte escapes the count; a limit may end too early. `url_rewind()` ignores a
  refused seek. `url_buff_seek()` from the end stays at the end when the way back
  is refused. The `url_memb_` functions are not used.
- Cache: of a note with several samples only the last that can be cached is
  counted (`recache.c:140-141`), so that one side of a stereo sound is hardly
  ever worth a copy. The prescan takes notes modulo 128 where playing clamps
  them. A reset within a song ends no note for the prescan, and neither does a
  channel that becomes a drum part (`playmidi.c:5207-5210`), whose notes are no
  longer shifted. Counts and their total may wrap. A resampled length of 2^20
  points or more, which a short loop at a high ratio can reach, wraps
  (`recache.c:357`, `421`): the copy is then taken to fit, and its loop is
  written far behind the array. `find_samples()` leaves `cache` of an earlier
  note for special patches (`playmidi.c:1898-1908`), also one of an earlier song,
  whose entry was given back; `resample.c` only compares it with NULL.
- Sound: the sostenuto pedal holds voices that were released before
  (`playmidi.c:2871` calls it instant) and recomputes envelopes that samples
  without envelope do not have. A sample that was resampled before is not freed
  by the block that ends it (`resample.c:1327`) and its tail sounds twice. A
  ping-pong loop may stop exactly at its end, and running back it is turned a
  position late (`resample.c:783`): one that begins with its data reads position
  -1. After a bend down the cursor may stand an increment or more behind the end
  of the data; the count of samples left is unsigned and wraps
  (`resample.c:417`, `609`; `1326` for a sample resampled before), and a whole
  block behind the data is read. That takes a looped sample without envelope
  whose data ends with its loop, as a cached one does, or a voice whose data
  ended in the first block of a song, which is mixed once more
  (`playmidi.c:6811`). A voice whose envelope has no level at all, or whose data
  ends before its `sample_offset`, is freed by the call that starts it.
  `envelope_width` 0 would divide by zero (`mix.c:1589`), so `Widths` is
  positive.
- Song reader: a denominator of 2^8 or more becomes 0 in a `uint8`
  (`readmidi.c:3349-3359`) and divides when the steps are inserted (`4603`);
  divisions of 0 are not refused either, and every tick is then infinitely long
  or not a number. Only one signature is taken with a step. A bar of more than 15
  beats does not fit the nibble. A gap of more than 2^16 ticks loses carry. A
  tick of 2^15 samples or more is converted to an int32 it does not fit
  (`readmidi.c:366-367`), which C leaves undefined. A
  time that wraps below zero becomes 0. `move_channels()` tests a pointer it has
  not set (`readmidi.c:3868`), so the model lets it do nothing. The loop over
  drum channels behind it (`4026-4036`) has no effect. The silent note that keeps
  the rest before the first note keeps none when its channel is quiet.

## 4. What is proved

The theorems hold for every value of the constants that meets the named
assumptions; the runs above show the same properties on small instances. A
theorem with a hypothesis of its own (`AllDiscard`, `FewPending`, `NarrowPool`,
`LoopsInside`) names where the code stops being right; the
runs meet it.

**AudioQueueProofs.** For all play modes that accept PM_REQ_DISCARD
(`AllDiscard`; every output of the Android build does): `TypeCorrect`
(`TypeOK`), `BucketsNeverLost` (`BucketsSound`), `BucketsFull`
(`OnlyTailPartial`), `NeverStale` (`NoStale`) and `FlushDropsNothing`
(`NothingToDrop`). The first invariants are not inductive by themselves:
`NoStale` needs that the head is full when it is written, which needs that only
the tail is partial, which needs to know at each `pc` whether the tail was
padded or the queue emptied. `IInv` collects them (theorem `Inductive`), with one
lemma for each action. Bucket lists are treated through lemmas on `Head`, `Tail`
and `Append` (`ReusePartitioned`, `AllocatePartitioned`).
`FramesNeverReordered` (`FramesInOrder`) and the refinement `StreamImplemented`
(`ImplementsStream`) stand on an invariant that each bucket holds consecutive
frames and the next one goes on where it ends, and that the caller's block goes
on where the tail ends; every action then is a step of `FrameStream` or leaves its
variables alone.

**ResampleCacheProofs.** First the pools by themselves (`MBlock`'s `Spec`):
`TypeCorrect`, `BlocksOwnedOnce` (`OneOwner`) and `SegmentsNeverOverlap`
(`SegmentsApart`), for all pools, blocks, sizes and alignments, from
`SizeAssumption` alone. The invariant adds that the free part of a block is
aligned and lies behind its segments, and that no block is smaller than
`MIN_MBLOCK_SIZE`: a block from the free list is taken without a test of its
size (`mblock.c:71`), which is right only because of that. The three ways to a
new block share the lemma `TakeBlock`. The same lemmas give `CacheOwnsBlocks` and
`CacheSegmentsApart` for the pool while the cache works in it. `CacheReachable`
(`Reachable`): what the table, the notes and the voices point to is a segment
that was handed out since the last reset, but for the `cache` of a voice with a
special patch. `CopiesIntact` (`DataIntact`) assumes
`LoopsInside`, that the loop of a sample lies in its data and is not empty, as
`sndfont.c:1273-1280` makes it; that no length wraps (`LengthsHeld`) is a
hypothesis of the property itself. Its invariant follows the one copy under way
(what is counted, what is written, how far it may still go) and bounds the cells
of a resampled loop by the length computed before the copy was made.
`CountsRight` (`CountsSounding`) needs that sounds and notes are paired
(`Paired`): one sound for each note that is on, begun when the table says, by the
key that the shift of its channel takes there; every event that shifts keys refers
all notes of its channel off first, which is why the off finds its on. Where no
event does that (a reset, a drum part on a shifted channel, a note that is not
cached), the history is `muddled` and nothing is claimed. While the samples of a
note are still referred to (`refer`), table and counts are those of one sample
after the other: `Followed` says that they will be paired once the last of them
that can be cached has had its turn (`Awaits`), and that they are when none is
left (`Settled`); the samples before it leave nothing behind, because each takes
the place of the one before at the same time. That wrapped counts add up
as the whole ones do is `WrappedSum`. `resamp_cache_refer_alloff()` adds up over
notes and the history over sounds: sums are recursive functions on the subsets of
a finite set, their order does not matter (`SumOrder`), and sums of the same
values are equal (`SumSame`), each by the least set that fails.

**VoicePoolProofs.** For every polyphony, number of channels and keys, alternate
assign table and instrument: `VoicePoolTyped` (`TypeOK`: no voice sounds behind
`upper_voices`, through both reductions and every change of the polyphony),
`NotesStayExclusive` (`NotesExclusive`), `SustainedStaysHeld`
(`SustainedHasPedal`); with fewer notes of a key waiting than a `uint8` counts
(`FewPending`) `VoicesStayPending` (`OnVoicePending`), and with slots a `uint8`
can name (`NarrowPool`) `SingleLinksStayPaired` (`SingleLinksPaired`). Both
hypotheses are limits of the code (section 3, Observed). All five are preserved
by the same elementary changes (a voice starts, stops, changes its status, moves
to another slot), so the proof has a lemma per change and property, and each
handler is a chain of changes (`Keeps`).

**MidiTraceProofs.** `EventsShownInOrder` (`ShownInOrder`) and `EventsNotEarly`
(`NotEarly`), for every mode, number of nodes, events and samples. The lists
share no node and every node of the pool is in one of them, so that a node that
is written is neither shown nor waiting.

**RequestProofs.** The player (`PlayerControl`): for every song, block length and set of sessions:
`TypeCorrect` (`TypeOK`, the event loop stays inside the list if the song has an
event before its end), `RequestsObeyed` (`StopObeyed`),
and for songs that begin at time 0, `SeeksExact` (`SeekExact`)
and `EventsOnTime` (`OnTime`). The invariant says for each `pc` which event is
due, where `current_sample` may be between the events, and what
`midi_restart_time` means there.

The mailbox (`DroidMailbox`): `ExecutedOnceInOrder` (`OnceInOrder`) for any number of
threads and calls, in any order of their accesses: what the reader holds was
posted after everything it returned, and after it has cleared `droid_rc` only a
later store can be there. `CallerLosesNothing` (`NothingLost`: none of its
requests, while an argument may be that of the call before or 0) adds what a
caller that asks first knows at each of its own accesses.

**UrlProofs.** For every ring, size of nodes, opening, set of requests
(`Request` says what a caller may ask for) and every part of its demand that the
reader may give. `BytesInPlace` (`RingHolds`) is about the ring alone, with a
caller that asks for anything (`BuffSpec`); its invariant adds where both
pointers may be, that the unread bytes are those between them, and what the
locals of each loop count. `Memory` says the same of a cached stream's nodes:
full but for the last, the numbers of the source in a row, the cursor among
them. `push_memb()` and `read_memb()` are recursive functions over the bytes
they move; that these functions exist and keep `Memory` is shown for each
length with the least length that fails (`LeastNatural`, `PushAfter`,
`TakenAfter`). `StreamInv` puts both streams under `url.c`: what is kept is what
lies around the position told, the rounds of a call have given what follows the
position it began at, and the count is within the limit, but for a seek by
reading, which counts without a limit and starts anew when it ends. Each call
has a lemma that it keeps `StreamInv` and is a step of `ByteStream` or a stutter
(`BuffUrlRead`, `CacheUrlSeek`, ...); the lemmas `Say...` put the steps of
`ByteStream` into terms of `Url`. From them follow `StreamInvariant`,
`LimitIsKept` (`LimitKept`), `StreamBytesInPlace` (`RingHolds` under `url.c`)
and `Refinement` (`ImplementsByteStream`). One part of the invariant is there
only for the refinement: `Bound`, that no more was read than URL_BUFF_SIZE ahead
of the furthest position or of the place, without which a seek back by
URL_BUFF_SIZE - 2 might find its bytes overwritten.

**SongReaderProofs.** `AlwaysInOrder` (`InOrder`) for every file, limit of
events and width of the times, and `PointOnList`. `PlaceSplits` is the heart: on
an ordered list, the scan from wherever the last event was inserted ends between
the events that are not later and those that are, so that the insertion keeps the
order of reading too. That the scans end at all rests on `LeastNatural`.
`ChannelsStayApart` (`ChannelsMoved`): the table of `move_channels()` is
a recursive function over the list; `Fair` is the invariant of its rounds (every
slot is its own, of the right number, and a channel shares one only when all
slots of its number are taken). `SamplesExact` (`OnTick`): after every event the
count, in parts, is the sum of the parts of all ticks since the start (`Counted`,
`Exactly`, `ClockStep`); `Carried` shows that one round of the fixed-point
arithmetic loses nothing and that a count which does not fit turns negative, for
every even FRAC. `Rests` follows the silent note that `opt_preserve_silence`
puts at 0. `BeatsCounted` (`Beats`) speaks of sets of records rather than places
in the list, because a step is inserted among events already there. `InTime` is
its invariant: the table built so far says which signature rules at every time
up to the event reached (`TableFor`, `NextRow`), each step follows the one before
it (`InStep`), and the loop stands where the last step and its signature put it
(`Stands`). That at most one row of the table falls due with a step is the
hypothesis `Spaced`; a row that repeats the signature before it can only come
from two signatures of one time, which is why `Follows` admits a new bar there.

**VoiceSoundProofs.** For every sample `SamplesAssumption` admits, and every
volume, width, delay, block and pitch. What `recompute_envelope()` and
`next_stage()` may do is a recursive function of the stage; `StageOf` is one stage
of it, and `FromExists` builds the function from the last stage down, so that a
lemma about what it returns needs one argument per stage. `EnvelopeInv` is what
`HeldVoicesSustain` (`HeldAtSustain`) and `ReleasedVoicesFade` (`OnlyQuieter`)
need: a voice that is held is at most at the sustain stage and there moves to the
sustain level, and one that is released stands still or falls. Neither property
is inductive alone: an update may pass several stages at once with the level it
reached as its volume, and the fastest rates begin the next stage too.
`VoicesReadInside` (`ReadsInside`) rests on `CursorInv`, where the cursor may be
between two blocks. In a ping-pong loop (`Swings`) that differs by direction,
because an overshoot is folded back at once at the end and a position late at the
start; the walk through a block is a recursive function of the samples made, and
`LoopWalk` and `BidirWalk` show that it exists and stays inside, by the least
length that fails. Behind a loop that is left by a Note Off the cursor may stand
anywhere an increment reaches; `Room` keeps it where a block at any pitch still
counts right, which is what `Roomy` asks of the sample. The theorem has no
hypothesis besides: the samples and voices for which the code stops being right
are excepted in `ReadsInside` itself (section 3, Observed).

Only model-checked:

- liveness (`CallsReturn`, `SongEnds`, `Served`, `Shown`, `ReleasedEnds`,
  `LoadingEnds`): reasoning with fairness is outside the prover.

## 5. What is not modelled

- The arithmetic of sound (interpolation, filters, panning, reverb, chorus,
  modulation envelopes, tremolo): no order or failure of its own.
- Instruments and sound fonts, the decoders of archives and compressed patches,
  vendored module loaders: data transformations. The bytes of MIDI events,
  system-exclusive messages, what gives a channel its program and drum part, and
  the readers of RCP, MFi and module files, which add their events through the
  modelled `readmidi_add_event()`.
- Start-up, options, file outputs, other outputs and interfaces: not part of the
  Android build or straight-line code.
- The Java screens: they hold lists and hand one path to the player; the calls
  into the player are in `PlayerControl` and `DroidMailbox`.
- In modelled parts: the play counters behind `aq_samples()` (`aq.c:306`) are
  the clock of `MidiTrace`; failing `malloc()` ends the program
  (`safe_malloc()`); missing instruments, WRD and lyrics are left out.

Not covered by a property, and listed above as observations: an output error
without buckets, which Android's output never returns; the released `AudioTrack`
and the carried-over pause flag, where the code does what no property could ask
of it; requests that are dropped where they are read, or forgotten by the rest of
their round; chorus links while the polyphony changes; links of more than 256
voices.

## 6. Plan

Done: every module of section 2, and the proofs of section 4.

Next, in this order:

1. Proofs: `ImplementsStream` for outputs that cannot discard, with the one drop
   they cause in the open.
2. Model: loading and release of instruments, the bank and program events that
   mark them in `groom_list()`; channels with several parts in `VoicePool`.
