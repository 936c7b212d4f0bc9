--------------------------- MODULE PlayerControl ---------------------------
(***************************************************************************)
(* Playing songs: JNIHandler.play(), play_midi_file(), play_midi() and its *)
(* event loop, compute_data() with the control requests apply_controls()   *)
(* reads between two blocks, the seeks of skip_to(), midi_play_end(), and  *)
(* the AudioTrack the frames go to, as the Android build has them.         *)
(*                                                                         *)
(* A song is the list of its event times; the last event is ME_EOT.  One   *)
(* request is read per poll; requests that only shape the sound are left   *)
(* out, those with the same effect on the position are one kind:           *)
(*   stop    RC_STOP, QUIT, LOAD_FILE, NEXT, REALLY_PREVIOUS, TUNE_END     *)
(*   sync    RC_SYNC_RESTART, KEYUP, KEYDOWN, TOGGLE_MUTE, SOLO_PLAY, ...  *)
(*   reverb  RC_CHANGE_REV_EFFB, CHANGE_REV_TIME                           *)
(*   reload  RC_RELOAD, TOGGLE_DRUMCHAN                                    *)
(*   rate    RC_CHANGE_RATE, OUTPUT_CHANGED                                *)
(***************************************************************************)
EXTENDS Integers, Sequences

CONSTANTS
  Times,         \* MIDI_EVENT_TIME of the events
  NoteOns,       \* the events that are ME_NOTEON
  Block,         \* audio_buffer_size
  TailBlocks,    \* bound: blocks midi_play_end() computes
  Second,        \* play_mode->rate
  Sessions       \* the sessions considered, see Session

CommandKinds == {"stop", "previous", "restart", "jump", "forward", "back",
                 "pause", "sync", "reverb", "reload", "rate"}

(* What is asked of the player in a behaviour, with its bounds. *)
Session ==
  [commands: SUBSET CommandKinds,   \* the kinds of requests
   jumps: SUBSET Nat,               \* arguments of RC_JUMP, FORWARD and BACK
   most: Nat,                       \* bound: number of requests
   songs: Nat]                      \* bound: songs played

ASSUME TimesAssumption ==
  /\ Times \in Seq(Nat) /\ Times # <<>>
  /\ \A i, j \in 1..Len(Times) : i <= j => Times[i] <= Times[j]
ASSUME NotesAssumption == NoteOns \subseteq 1..Len(Times) - 1
ASSUME SizesAssumption ==
  Block \in Nat \ {0} /\ TailBlocks \in Nat \ {0} /\ Second \in Nat \ {0}
ASSUME SessionsAssumption == Sessions \subseteq Session

VARIABLES
  session,            \* a member of Sessions
  pc,                 \* where the player thread is
  ev,                 \* the event given to play_event()
  current_event, current_sample,
  buffered_count,
  count,              \* what compute_data() has still to compute
  midi_restart_time,
  play_pause_flag,
  offset,             \* midi_trace.offset
  jump_flag,          \* of apply_controls()
  tail,               \* compute_data() calls left in midi_play_end(), or 0
  rc,                 \* what play_midi() or play_midi_load_file() returned
  track,              \* the AudioTrack of JNIHandler
  songs, asked,       \* songs and requests so far
  expect,             \* history: the event that is due since the last seek
  skipped,            \* history: where a request to leave the song was read
  reload              \* history: where a request to load it again was read

posVars == <<ev, current_event, current_sample, buffered_count, offset>>
runVars == <<count, jump_flag, tail>>
histVars == <<skipped, reload>>
vars == <<session, pc, posVars, runVars, midi_restart_time, play_pause_flag, rc, track,
          songs, asked, expect, histVars>>

EOT == Len(Times)
sample_count == Times[EOT]
FirstAt(t) ==
  IF t > sample_count THEN EOT
  ELSE CHOOSE i \in 1..EOT : Times[i] >= t /\ \A j \in 1..i - 1 : Times[j] < t

Init ==
  /\ session \in Sessions
  /\ pc = "idle"
  /\ ev = 1 /\ current_event = 1 /\ current_sample = 0 /\ buffered_count = 0
  /\ count = 0 /\ midi_restart_time = 0 /\ play_pause_flag = FALSE
  /\ offset = 0 /\ jump_flag = FALSE /\ tail = 0 /\ rc = "none"
  /\ track = "new" /\ songs = 0 /\ asked = 0
  /\ expect = 1 /\ skipped = "no" /\ reload = "no"

-----------------------------------------------------------------------------
(* skip_to(t): the events before t are replayed silently by seek_forward(), *)
(* which stops one event early because the event loop steps on              *)
SeekNoStepBack(t) ==                                               \* mutant
  /\ UNCHANGED ev
  /\ current_event' = FirstAt(t)
  /\ current_sample' = t /\ buffered_count' = 0 /\ offset' = t
  /\ expect' = FirstAt(t)
SkipTo(t) ==
  /\ UNCHANGED ev
  /\ current_event' = IF t > sample_count \/ FirstAt(t) = 1 THEN FirstAt(t)
                      ELSE FirstAt(t) - 1
  /\ current_sample' = IF t > sample_count THEN sample_count ELSE t
  /\ buffered_count' = 0
  /\ offset' = t
  /\ expect' = FirstAt(t)

(* current_trace_samples(): what the output was given since the last seek, *)
(* at most what was computed; or current_sample when it cannot be known    *)
Heard == {t \in offset..current_sample : t <= current_sample - buffered_count}
         \cup {current_sample}

Ask(kind) == /\ kind \in session.commands
             /\ asked < session.most                               \* bound
             /\ asked' = asked + 1

-----------------------------------------------------------------------------
(* JNIHandler.play(): AudioTrack.play() throws on a released track *)
Play ==
  /\ pc = "idle" /\ songs < session.songs                             \* bound
  /\ songs' = songs + 1
  /\ IF track = "released" THEN pc' = "crashed" /\ UNCHANGED track
                           ELSE pc' = "opening" /\ track' = "playing"
  /\ skipped' = "no" /\ reload' = "no"
  /\ UNCHANGED <<session, posVars, runVars, midi_restart_time, play_pause_flag,
                 rc, asked, expect>>

(* check_apply_control(), read where nothing plays: a request to leave the *)
(* song goes to the caller, which continues with `leave`; the pause flag   *)
(* flips; a new rate restarts the song at 0; the others are read and       *)
(* dropped                                                                 *)
Check(leave, where) ==
  \/ /\ Ask("stop")
     /\ pc' = leave /\ rc' = "skip" /\ skipped' = where
     /\ UNCHANGED <<play_pause_flag, midi_restart_time>>
  \/ /\ Ask("pause")
     /\ play_pause_flag' = ~play_pause_flag
     /\ UNCHANGED <<pc, rc, skipped, midi_restart_time>>
  \/ /\ Ask("rate")
     /\ midi_restart_time' = 0
     /\ UNCHANGED <<pc, rc, skipped, play_pause_flag>>
  \/ /\ \E kind \in CommandKinds \ {"stop", "pause"} : Ask(kind)
     /\ UNCHANGED <<pc, rc, skipped, play_pause_flag, midi_restart_time>>

(* play_midi_file() up to play_reload: on Android what it reads is ignored *)
Opening ==
  /\ pc = "opening"
  /\ pc' = "load" /\ midi_restart_time' = 0
  /\ \/ UNCHANGED <<play_pause_flag, skipped, asked>>
     \/ Ask("stop") /\ skipped' = "opening" /\ UNCHANGED play_pause_flag
     \/ /\ Ask("pause") /\ play_pause_flag' = ~play_pause_flag
        /\ UNCHANGED skipped
  /\ UNCHANGED <<session, posVars, runVars, rc, track, songs, expect, reload>>

(* play_midi_load_file(): the file is read and its instruments are loaded; *)
(* requests are read once the file is open and for every instrument        *)
LoadPoll ==
  /\ pc = "load"
  /\ Check("closing", "load")
  /\ reload' = "no"
  /\ UNCHANGED <<session, posVars, runVars, track, songs, expect>>
Load ==
  /\ pc = "load"
  /\ \/ pc' = "closing" /\ rc' = "error"
     \/ pc' = "flush" /\ UNCHANGED rc
  /\ reload' = "no"
  /\ UNCHANGED <<session, posVars, runVars, midi_restart_time, play_pause_flag,
                 track, songs, asked, expect, skipped>>

(* play_midi(): aq_flush(0), skip_to(midi_restart_time) *)
FlushPoll ==
  /\ pc = "flush"
  /\ Check("finish", "flush")
  /\ UNCHANGED <<session, posVars, runVars, track, songs, expect,
                 reload>>
Begin ==
  /\ pc = "flush"
  /\ SkipTo(midi_restart_time)
  /\ pc' = "event" /\ tail' = 0
  /\ UNCHANGED <<session, count, jump_flag, midi_restart_time, play_pause_flag,
                 rc, track, songs, asked, skipped, reload>>

(* play_event(): samples are computed up to the time of the event *)
Event ==
  /\ pc = "event"
  /\ ev' = current_event
  /\ midi_restart_time' = 1
  /\ \/ /\ Times[ev'] > current_sample
        /\ count' = Times[ev'] - current_sample
        /\ pc' = "compute"
     \/ /\ Times[ev'] <= current_sample
        /\ pc' = "handle" /\ UNCHANGED count
  /\ UNCHANGED <<session, current_event, current_sample, buffered_count, offset,
                 jump_flag, tail, play_pause_flag, rc, track, songs, asked,
                 expect, histVars>>

(* the event loop goes on to the next event: "don't skip the first event   *)
(* if == 0"                                                                *)
StepOn ==
  current_event' = IF midi_restart_time = 0 THEN current_event ELSE current_event + 1

Handle ==
  /\ pc = "handle"
  /\ \/ /\ ev = EOT
        /\ pc' = "compute"
        /\ tail' \in 1..TailBlocks /\ count' = Block
        /\ UNCHANGED <<current_event, expect>>
     \/ /\ ev # EOT
        /\ StepOn
        /\ expect' = ev + 1
        /\ pc' = "event" /\ UNCHANGED <<tail, count>>
  /\ UNCHANGED <<session, ev, current_sample, buffered_count, offset, jump_flag,
                 midi_restart_time, play_pause_flag, rc, track, songs, asked,
                 histVars>>

(* play_event() returned after a jump *)
Advance ==
  /\ pc = "advance"
  /\ pc' = "event"
  /\ StepOn
  /\ UNCHANGED <<session, ev, current_sample, buffered_count, offset, runVars,
                 midi_restart_time, play_pause_flag, rc, track, songs, asked,
                 expect, histVars>>

-----------------------------------------------------------------------------
(* compute_data() *)

(* the next compute_data() of midi_play_end(), or its end *)
NextTail ==
  /\ tail' = tail - 1
  /\ IF tail = 1 THEN pc' = "drain" /\ UNCHANGED count
                 ELSE pc' = "compute" /\ count' = Block

RestUncounted ==                                                   \* mutant
  /\ pc = "compute" /\ count + buffered_count < Block
  /\ buffered_count' = buffered_count + IF count > 0 THEN count ELSE 0
  /\ IF tail = 0 THEN pc' = "handle" /\ count' = 0 /\ UNCHANGED tail
                 ELSE NextTail
  /\ UNCHANGED <<session, ev, current_event, current_sample, offset, jump_flag,
                 midi_restart_time, play_pause_flag, rc, track, songs, asked,
                 expect, histVars>>
(* less than a block is left: it is computed and kept in common_buffer *)
ComputeRest ==
  /\ pc = "compute" /\ count + buffered_count < Block
  /\ LET rest == IF count > 0 THEN count ELSE 0
     IN  /\ current_sample' = current_sample + rest
         /\ buffered_count' = buffered_count + rest
  /\ IF tail = 0 THEN pc' = "handle" /\ count' = 0 /\ UNCHANGED tail
                 ELSE NextTail
  /\ UNCHANGED <<session, ev, current_event, offset, jump_flag,
                 midi_restart_time, play_pause_flag, rc, track, songs, asked,
                 expect, histVars>>

(* a full block: apply_controls() first *)
ComputeBlock ==
  /\ pc = "compute" /\ count + buffered_count >= Block
  /\ pc' = "poll" /\ jump_flag' = FALSE
  /\ UNCHANGED <<session, posVars, count, tail, midi_restart_time,
                 play_pause_flag, rc, track, songs, asked, expect, histVars>>

(* the block is computed and handed to aq_add(); the song may end early    *)
(* when no voice sounds and no note follows                                *)
Render ==
  LET done == Block - buffered_count
  IN  /\ pc = "render"
      /\ current_sample' = current_sample + done
      /\ buffered_count' = 0
      /\ \/ /\ pc' = "compute" /\ count' = count - done
            /\ UNCHANGED tail
         \/ /\ tail = 0 /\ \A i \in NoteOns : i < current_event
            /\ pc' = "compute" /\ count' = Block /\ tail' = 1
  /\ UNCHANGED <<session, ev, current_event, offset, jump_flag,
                 midi_restart_time, play_pause_flag, rc, track, songs, asked,
                 expect, histVars>>

LeaveDrains(r) ==                                                  \* mutant
  /\ rc' = r
  /\ UNCHANGED <<tail, count>>
  /\ pc' = IF tail > 0 THEN "drain" ELSE IF r = "jump" THEN "advance" ELSE "finish"
(* apply_controls() returns r # RC_NONE: play_event() goes on after a jump *)
(* and play_midi() ends with anything else; midi_play_end() heeds only the *)
(* requests that leave the song                                            *)
Leave(r) ==
  \/ /\ tail = 0 /\ r = "jump"
     /\ pc' = "advance" /\ UNCHANGED <<rc, tail, count>>
  \/ /\ (tail = 0 /\ r # "jump") \/ r = "skip"
     /\ pc' = "finish" /\ rc' = r /\ UNCHANGED <<tail, count>>
  \/ /\ tail > 0 /\ r # "skip"
     /\ NextTail /\ UNCHANGED rc

Where == IF tail = 0 THEN "song" ELSE "end"

(* the request is carried out and the next one is read *)
Continue == pc' = "poll" /\ UNCHANGED <<rc, tail, count>>

PollWaits ==                                                       \* mutant
  /\ pc = "poll" /\ ~play_pause_flag
  /\ IF jump_flag THEN Continue
                  ELSE pc' = "render" /\ UNCHANGED <<rc, tail, count>>
  /\ UNCHANGED <<session, posVars, jump_flag, midi_restart_time,
                 play_pause_flag, track, songs, asked, expect, histVars>>
PollNone ==
  /\ pc = "poll" /\ ~play_pause_flag
  /\ IF jump_flag THEN Leave("jump")
                  ELSE pc' = "render" /\ UNCHANGED <<rc, tail, count>>
  /\ UNCHANGED <<session, posVars, jump_flag, midi_restart_time,
                 play_pause_flag, track, songs, asked, expect, histVars>>

Stop ==
  /\ pc = "poll" /\ Ask("stop")
  /\ play_pause_flag' = FALSE
  /\ Leave("skip") /\ skipped' = "song"
  /\ UNCHANGED <<session, posVars, jump_flag, midi_restart_time, track, songs,
                 expect, reload>>

(* RC_PREVIOUS: RC_REALLY_PREVIOUS near the start, else RC_RESTART *)
Previous ==
  /\ pc = "poll" /\ Ask("previous")
  /\ \/ /\ current_sample < 2 * Second
        /\ Leave("skip") /\ skipped' = "song"
     \/ /\ current_sample >= 2 * Second
        /\ Leave("restart") /\ UNCHANGED skipped
  /\ UNCHANGED <<session, posVars, jump_flag, midi_restart_time,
                 play_pause_flag, track, songs, expect, reload>>

Pause ==
  /\ pc = "poll" /\ Ask("pause")
  /\ play_pause_flag' = ~play_pause_flag
  /\ Continue
  /\ UNCHANGED <<session, posVars, jump_flag, midi_restart_time, track, songs,
                 expect, histVars>>

Restart ==
  /\ pc = "poll" /\ Ask("restart")
  /\ midi_restart_time' = 0
  /\ IF play_pause_flag THEN UNCHANGED <<posVars, expect, jump_flag>>
                        ELSE SkipTo(0) /\ jump_flag' = TRUE
  /\ Continue
  /\ UNCHANGED <<session, play_pause_flag, track, songs, skipped, reload>>

JumpUnchecked(v) ==                                                \* mutant
  /\ pc = "poll" /\ Ask("jump")
  /\ ~play_pause_flag
  /\ SkipTo(v) /\ Leave("jump")
  /\ UNCHANGED <<session, midi_restart_time, play_pause_flag, jump_flag, track,
                 songs, skipped, reload>>
Jump(v) ==
  /\ pc = "poll" /\ Ask("jump")
  /\ \/ /\ play_pause_flag
        /\ midi_restart_time' = v
        /\ Continue /\ UNCHANGED <<posVars, expect, skipped>>
     \/ /\ ~play_pause_flag /\ v >= sample_count
        /\ Leave("skip") /\ skipped' = "song"
        /\ UNCHANGED <<midi_restart_time, posVars, expect>>
     \/ /\ ~play_pause_flag /\ v < sample_count
        /\ SkipTo(v) /\ Leave("jump")
        /\ UNCHANGED <<midi_restart_time, skipped>>
  /\ UNCHANGED <<session, play_pause_flag, jump_flag, track, songs, reload>>

Lesser(a, b) == IF a <= b THEN a ELSE b
Forward(v) ==
  /\ pc = "poll" /\ Ask("forward")
  /\ \/ /\ play_pause_flag
        /\ midi_restart_time' = Lesser(midi_restart_time + v, sample_count)
        /\ Continue /\ UNCHANGED <<posVars, expect, skipped>>
     \/ /\ ~play_pause_flag
        /\ \E cur \in Heard :
             IF v + cur >= sample_count
             THEN /\ Leave("skip") /\ skipped' = "song"
                  /\ UNCHANGED <<posVars, expect>>
             ELSE SkipTo(v + cur) /\ Leave("jump") /\ UNCHANGED skipped
        /\ UNCHANGED midi_restart_time
  /\ UNCHANGED <<session, play_pause_flag, jump_flag, track, songs, reload>>

Back(v) ==
  /\ pc = "poll" /\ Ask("back")
  /\ \/ /\ play_pause_flag
        /\ midi_restart_time' = IF v <= midi_restart_time
                                THEN midi_restart_time - v ELSE 0
        /\ Continue /\ UNCHANGED <<posVars, expect>>
     \/ /\ ~play_pause_flag
        /\ \E cur \in Heard :
             IF cur > v THEN SkipTo(cur - v) /\ UNCHANGED midi_restart_time
                        ELSE SkipTo(0) /\ midi_restart_time' = 0
        /\ Leave("jump")
  /\ UNCHANGED <<session, play_pause_flag, jump_flag, track, songs, skipped,
                 reload>>

(* sync_restart(): the song goes on where it is heard; a new reverb does   *)
(* the same, but does not tell the caller                                  *)
Sync ==
  /\ pc = "poll"
  /\ \E cur \in Heard : SkipTo(cur)
  /\ \/ Ask("sync") /\ jump_flag' = TRUE
     \/ Ask("reverb") /\ UNCHANGED jump_flag
  /\ Continue
  /\ UNCHANGED <<session, midi_restart_time, play_pause_flag, track, songs,
                 skipped, reload>>

Reload ==
  /\ pc = "poll" /\ Ask("reload")
  /\ midi_restart_time' \in Heard
  /\ Leave("reload") /\ reload' = Where
  /\ UNCHANGED <<session, posVars, jump_flag, play_pause_flag, track, songs,
                 expect, skipped>>

(* playmidi_change_rate(): nothing to do, or free_instruments(1) *)
ChangeRate ==
  /\ pc = "poll" /\ Ask("rate")
  /\ \/ /\ pc' = "render"
        /\ UNCHANGED <<rc, tail, count, midi_restart_time, reload>>
     \/ /\ midi_restart_time' \in Heard
        /\ Leave("reload") /\ reload' = Where
  /\ UNCHANGED <<session, posVars, jump_flag, play_pause_flag, track, songs,
                 expect, skipped>>

-----------------------------------------------------------------------------
(* the end of midi_play_end(): aq_soft_flush() polls while it drains *)
DrainPoll ==
  /\ pc = "drain"
  /\ Check("finish", "drain")
  /\ UNCHANGED <<session, posVars, runVars, track, songs, expect,
                 reload>>
Drain ==
  /\ pc = "drain"
  /\ pc' = "finish" /\ rc' = "skip" /\ buffered_count' = 0
  /\ UNCHANGED <<session, ev, current_event, current_sample, offset, runVars,
                 midi_restart_time, play_pause_flag, track, songs, asked, expect,
                 histVars>>

(* PM_REQ_PLAY_END: controlMe(10) stops and releases the track *)
Finish ==
  /\ pc = "finish"
  /\ pc' = "closing"
  /\ track' = "released"
  /\ UNCHANGED <<session, posVars, runVars, midi_restart_time, play_pause_flag,
                 rc, songs, asked, expect, histVars>>

(* play_end: the song is closed, or loaded again after RC_RELOAD *)
Close ==
  /\ pc = "closing"
  /\ pc' = IF rc = "reload" THEN "load" ELSE "idle"
  /\ rc' = "none" /\ tail' = 0
  /\ UNCHANGED <<session, posVars, count, jump_flag, midi_restart_time,
                 play_pause_flag, track, songs, asked, expect, skipped,
                 reload>>

-----------------------------------------------------------------------------
Step ==
  \/ Opening \/ Load \/ Begin \/ Event \/ Handle \/ Advance
  \/ ComputeRest \/ ComputeBlock \/ Render \/ PollNone
  \/ Drain \/ Finish \/ Close
Request ==
  \/ LoadPoll \/ FlushPoll \/ DrainPoll
  \/ Stop \/ Previous \/ Pause \/ Restart \/ Sync \/ Reload \/ ChangeRate
  \/ \E v \in session.jumps : Jump(v) \/ Forward(v) \/ Back(v)
Next == Play \/ Step \/ Request

Spec == Init /\ [][Next]_vars

(* The player thread runs until the song is over. *)
FairSpec == Spec /\ WF_vars(Step)

-----------------------------------------------------------------------------
PCs == {"idle", "opening", "load", "flush", "event", "compute", "poll",
        "render", "handle", "advance", "drain", "finish", "closing", "crashed"}

(* Type invariant; in particular the event loop never runs past ME_EOT,    *)
(* the last element of event_list.                                         *)
TypeOK ==
  /\ pc \in PCs
  /\ ev \in 1..EOT /\ current_event \in 1..EOT /\ current_sample \in Nat
  /\ buffered_count \in 0..Block - 1 /\ count \in Int
  /\ midi_restart_time \in Nat /\ play_pause_flag \in BOOLEAN
  /\ offset \in Nat /\ jump_flag \in BOOLEAN /\ tail \in 0..TailBlocks
  /\ rc \in {"none", "skip", "restart", "reload", "error"}
  /\ track \in {"new", "playing", "released"}
  /\ session \in Sessions
  /\ songs \in 0..session.songs /\ asked \in 0..session.most
  /\ expect \in 1..EOT
  /\ skipped \in {"no", "opening", "load", "flush", "song", "drain"}
  /\ reload \in {"no", "song", "end"}

(* No event is lost or played twice: the event that is handled is the one  *)
(* that follows the last one, or the first at or after the position of the *)
(* last seek (playmidi.c:8321).  SeekExact is about the sessions that      *)
(* neither seek to the very beginning but by RC_RESTART, nor mix seeks     *)
(* with requests that use midi_restart_time for something else.            *)
EventDue == pc = "handle" => ev = expect
SeeksOnly ==
  \/ session.commands \subseteq {"restart", "stop"}
  \/ /\ session.commands \subseteq {"stop", "previous", "jump", "forward", "back"}
     /\ 0 \notin session.jumps
SeekExact == SeeksOnly => EventDue

(* An event is handled at its time: whatever was computed, dropped or      *)
(* skipped before, current_sample has reached it and not gone past the     *)
(* next one; in the same sessions.                                         *)
OnTime ==
  pc = "handle" /\ tail = 0 /\ SeeksOnly => current_sample = Times[ev]

(* A request to leave the song that is read while it is loaded or played   *)
(* ends it: nothing is computed and no event is handled any more.  A       *)
(* reload asked for while the song plays brings it back to its loading; it *)
(* does not go on, and it does not end.                                    *)
StopObeyed ==
  /\ skipped \in {"load", "flush", "song", "drain"} =>
       pc \in {"finish", "closing", "idle", "crashed"}
  /\ reload = "song" => pc \in {"finish", "closing", "load"}

(* A song comes to its end, unless it is left paused. *)
SongEnds == pc = "opening" ~> (pc \in {"idle", "crashed"} \/ play_pause_flag)
=============================================================================
