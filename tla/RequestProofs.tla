---------------------------- MODULE RequestProofs ---------------------------
(***************************************************************************)
(* Proofs about the requests of the Java side, from the two integers of    *)
(* the mailbox to what the player does with them.                          *)
(*  1. PlayerControl: the event loop stays inside event_list, a request to *)
(*     leave the song is obeyed and each event is played once and on time, *)
(*     for every song of two events or more, every block size and every    *)
(*     session;                                                            *)
(*  2. DroidMailbox: requests are carried out once and in order, for any   *)
(*     number of Java threads and of calls, whether they wait for          *)
(*     timidityReady() or not.                                             *)
(***************************************************************************)
EXTENDS PlayerControl, DroidMailbox, FiniteSetTheorems, WellFoundedInduction, TLAPS

-----------------------------------------------------------------------------
(* Every nonempty set of natural numbers has a least element. *)
LEMMA LeastNatural ==
  ASSUME NEW T \in SUBSET Nat, T # {}
  PROVE  \E n \in T : \A m \in T : n <= m
<1>1. PICK n \in T : \A m \in T : <<m, n>> \notin OpToRel(<, Nat)
  BY NatLessThanWellFounded, WFMin
<1>2. \A m \in T : ~(m < n)
  BY <1>1 DEF OpToRel
<1> QED
  BY <1>2

-----------------------------------------------------------------------------
(* The first event at or after a time that the song reaches. *)
LEMMA FirstAtType ==
  ASSUME NEW t \in Nat
  PROVE  /\ FirstAt(t) \in 1..EOT
         /\ t <= sample_count => /\ Times[FirstAt(t)] >= t
                                /\ \A j \in 1..FirstAt(t) - 1 : Times[j] < t
<1>1. /\ EOT \in Nat \ {0} /\ \A i \in 1..EOT : Times[i] \in Nat
      /\ sample_count \in Nat
  BY TimesAssumption DEF EOT, sample_count
<1>2. CASE t > sample_count
  BY <1>1, <1>2 DEF FirstAt
<1>3. CASE ~(t > sample_count)
  <2> DEFINE Late == {i \in 1..EOT : Times[i] >= t}
  <2>1. Late \in SUBSET Nat /\ EOT \in Late
    BY <1>1, <1>3 DEF sample_count
  <2>2. PICK n \in Late : \A m \in Late : n <= m
    <3> HIDE DEF Late
    <3> QED
      BY <2>1, LeastNatural
  <2>3. ASSUME NEW j \in 1..n - 1
        PROVE  Times[j] < t
    <3>1. j \in 1..EOT /\ ~(n <= j)
      BY <1>1, <2>2
    <3>2. j \notin Late
      BY <2>2, <3>1
    <3> QED
      BY <1>1, <3>1, <3>2
  <2>4. \E i \in 1..EOT : Times[i] >= t /\ \A j \in 1..i - 1 : Times[j] < t
    BY <2>2, <2>3
  <2> QED
    BY <1>3, <2>4 DEF FirstAt
<1> QED
  BY <1>2, <1>3

(* Where a seek leaves the song; one inside the song leaves an event to go *)
(* on to.                                                                  *)
LEMMA SkipToLands ==
  ASSUME NEW t \in Nat, SkipTo(t)
  PROVE  /\ ev' = ev /\ current_event' \in 1..EOT /\ expect' \in 1..EOT
         /\ current_sample' \in Nat /\ buffered_count' = 0 /\ offset' = t
         /\ t <= sample_count => current_sample' = t
         /\ t <= sample_count /\ EOT >= 2 => current_event' < EOT
<1>1. EOT \in Nat \ {0} /\ sample_count \in Nat
  BY TimesAssumption DEF EOT, sample_count
<1>2. FirstAt(t) \in 1..EOT
  BY FirstAtType
<1> QED
  BY <1>1, <1>2 DEF SkipTo

-----------------------------------------------------------------------------
(* The event loop has room to step on wherever it may: while the samples   *)
(* up to an event are computed, current_sample stays inside the song, so a *)
(* seek to where the song is heard does too.                               *)
Inside ==
  /\ pc \in {"event", "handle", "advance"} => tail = 0
  /\ tail = 0 =>
       /\ pc \in {"compute", "poll", "render"} =>
            current_sample + count <= sample_count
       /\ pc \in {"poll", "render"} => current_sample <= sample_count
       /\ pc \in {"compute", "poll", "render", "handle"} =>
            ev = EOT \/ current_event < EOT
       /\ (pc = "poll" /\ jump_flag) \/ pc = "advance" => current_event < EOT
Room == TypeOK /\ Inside

LEMMA ConstantTypes ==
  /\ EOT \in Nat \ {0} /\ sample_count \in Nat
  /\ \A i \in 1..EOT : Times[i] \in Nat /\ Times[i] <= sample_count
  /\ Block \in Nat \ {0} /\ TailBlocks \in Nat \ {0} /\ Second \in Nat \ {0}
  /\ session \in Sessions =>
       /\ session.jumps \subseteq Nat /\ session.most \in Nat /\ session.songs \in Nat
BY TimesAssumption, SizesAssumption, SessionsAssumption
   DEF EOT, sample_count, Session

LEMMA HeardType ==
  ASSUME TypeOK, NEW cur \in Heard
  PROVE  cur \in Nat /\ cur <= current_sample
BY DEF Heard, TypeOK

LEMMA AskType ==
  ASSUME TypeOK, NEW kind, Ask(kind), session' = session
  PROVE  asked' \in 0..session'.most
BY ConstantTypes DEF Ask, TypeOK

-----------------------------------------------------------------------------
(* Between songs: nothing is computed, tail is left alone. *)
LEMMA RoomOutside ==
  ASSUME Room, Play \/ Opening \/ LoadPoll \/ Load \/ FlushPoll \/ DrainPoll
               \/ Drain \/ Finish \/ Close
  PROVE  Room'
<1> USE ConstantTypes DEF Room
<1>1. CASE Play
  <2>1. TypeOK'
    BY <1>1 DEF Play, TypeOK, PCs, posVars, runVars
  <2>2. Inside'
    BY <1>1 DEF Play, Inside
  <2> QED BY <2>1, <2>2
<1>2. CASE Opening
  <2>1. asked' \in 0..session'.most
    BY <1>2, AskType DEF Opening, TypeOK
  <2>2. TypeOK'
    BY ZenonT(60), <1>2, <2>1 DEF Opening, TypeOK, PCs, posVars, runVars
  <2>3. Inside'
    BY <1>2 DEF Opening, Inside
  <2> QED BY <2>2, <2>3
<1>3. ASSUME NEW leave \in {"closing", "finish"}, NEW where \in {"load", "flush", "drain"},
             Check(leave, where), session' = session
      PROVE  /\ asked' \in 0..session'.most
             /\ pc' \in {pc, leave} /\ rc' \in {rc, "skip"}
             /\ skipped' \in {skipped, where}
             /\ play_pause_flag' \in BOOLEAN /\ midi_restart_time' \in Nat
  <2>1. \E kind \in CommandKinds : Ask(kind)
    BY <1>3 DEF Check, CommandKinds
  <2>2. asked' \in 0..session'.most
    BY <1>3, <2>1, AskType
  <2>3. play_pause_flag' \in BOOLEAN
    <3>1. play_pause_flag \in BOOLEAN
      BY DEF TypeOK
    <3>2. play_pause_flag' = ~play_pause_flag \/ play_pause_flag' = play_pause_flag
      BY <1>3 DEF Check
    <3> QED BY <3>1, <3>2
  <2>4. /\ pc' \in {pc, leave} /\ rc' \in {rc, "skip"}
        /\ skipped' \in {skipped, where}
    BY <1>3 DEF Check
  <2>5. midi_restart_time' \in {midi_restart_time, 0}
    BY <1>3 DEF Check
  <2>6. midi_restart_time' \in Nat
    BY <2>5 DEF TypeOK
  <2> QED
    BY <2>2, <2>3, <2>4, <2>6
<1>4. CASE LoadPoll
  <2>1. Check("closing", "load") /\ session' = session
    BY <1>4 DEF LoadPoll
  <2>2. TypeOK'
    BY <1>3, <1>4, <2>1 DEF LoadPoll, TypeOK, PCs, posVars, runVars
  <2>3. Inside'
    BY <1>3, <1>4, <2>1 DEF LoadPoll, Inside
  <2> QED BY <2>2, <2>3
<1>5. CASE Load
  <2>1. TypeOK'
    BY <1>5 DEF Load, TypeOK, PCs, posVars, runVars
  <2>2. Inside'
    BY <1>5 DEF Load, Inside
  <2> QED BY <2>1, <2>2
<1>6. CASE FlushPoll
  <2>1. Check("finish", "flush") /\ session' = session
    BY <1>6 DEF FlushPoll
  <2>2. TypeOK'
    BY <1>3, <1>6, <2>1 DEF FlushPoll, TypeOK, PCs, posVars, runVars
  <2>3. Inside'
    BY <1>3, <1>6, <2>1 DEF FlushPoll, Inside
  <2> QED BY <2>2, <2>3
<1>7. CASE DrainPoll
  <2>1. Check("finish", "drain") /\ session' = session
    BY <1>7 DEF DrainPoll
  <2>2. TypeOK'
    BY <1>3, <1>7, <2>1 DEF DrainPoll, TypeOK, PCs, posVars, runVars
  <2>3. Inside'
    BY <1>3, <1>7, <2>1 DEF DrainPoll, Inside
  <2> QED BY <2>2, <2>3
<1>8. CASE Drain
  <2>1. TypeOK'
    BY <1>8 DEF Drain, TypeOK, PCs, runVars, histVars
  <2>2. Inside'
    BY <1>8 DEF Drain, Inside
  <2> QED BY <2>1, <2>2
<1>9. CASE Finish
  <2>1. TypeOK'
    BY <1>9 DEF Finish, TypeOK, PCs, posVars, runVars, histVars
  <2>2. Inside'
    BY <1>9 DEF Finish, Inside
  <2> QED BY <2>1, <2>2
<1>10. CASE Close
  <2>1. TypeOK'
    BY <1>10 DEF Close, TypeOK, PCs, posVars
  <2>2. Inside'
    BY <1>10 DEF Close, Inside
  <2> QED BY <2>1, <2>2
<1> QED
  BY <1>1, <1>2, <1>4, <1>5, <1>6, <1>7, <1>8, <1>9, <1>10

(* The event loop. *)
LEMMA RoomEvents ==
  ASSUME Room, EOT >= 2, Begin \/ Event \/ Handle \/ Advance
  PROVE  Room'
<1> USE ConstantTypes DEF Room
<1>1. CASE Begin
  <2>1. midi_restart_time \in Nat /\ SkipTo(midi_restart_time)
    BY <1>1 DEF Begin, TypeOK
  <2>2. TypeOK'
    BY <1>1, <2>1, SkipToLands DEF Begin, TypeOK, PCs
  <2>3. Inside'
    BY <1>1 DEF Begin, Inside
  <2> QED BY <2>2, <2>3
<1>2. CASE Event
  <2>1. TypeOK'
    BY <1>2 DEF Event, TypeOK, PCs, histVars
  <2>2. tail' = 0 /\ ev' = current_event /\ current_event' = ev'
    BY <1>2 DEF Event, Inside
  <2>3. /\ current_event \in 1..EOT
        /\ ev' = EOT \/ current_event' < EOT
        /\ Times[current_event] \in Nat /\ Times[current_event] <= sample_count
        /\ current_sample \in Nat
    BY <2>2 DEF TypeOK
  <2>4. CASE pc' = "compute"
    <3>1. current_sample' = current_sample /\ count' = Times[current_event] - current_sample
      BY <1>2, <2>2, <2>4 DEF Event
    <3>2. current_sample' + count' <= sample_count
      BY <2>3, <3>1
    <3>3. Inside'
      BY <2>2, <2>3, <2>4, <3>2 DEF Inside
    <3> QED BY <2>1, <3>3
  <2>5. CASE pc' = "handle"
    <3>1. Inside'
      BY <2>2, <2>3, <2>5 DEF Inside
    <3> QED BY <2>1, <3>1
  <2> QED
    BY <1>2, <2>4, <2>5 DEF Event
<1>3. CASE Handle
  <2>1. tail = 0 /\ (ev = EOT \/ current_event < EOT)
    BY <1>3 DEF Handle, Inside
  <2>2. TypeOK'
    BY <1>3, <2>1 DEF Handle, StepOn, TypeOK, PCs, histVars
  <2>3. Inside'
    BY <1>3, <2>1 DEF Handle, Inside, TypeOK
  <2> QED BY <2>2, <2>3
<1>4. CASE Advance
  <2>1. tail = 0 /\ current_event < EOT
    BY <1>4 DEF Advance, Inside
  <2>2. TypeOK'
    BY <1>4, <2>1 DEF Advance, StepOn, TypeOK, PCs, runVars, histVars
  <2>3. Inside'
    BY <1>4, <2>1 DEF Advance, Inside, runVars
  <2> QED BY <2>2, <2>3
<1> QED
  BY <1>1, <1>2, <1>3, <1>4

(* compute_data() between two polls. *)
LEMMA RoomBlocks ==
  ASSUME Room, ComputeRest \/ ComputeBlock \/ Render
  PROVE  Room'
<1> USE ConstantTypes DEF Room
<1>1. CASE ComputeRest
  <2>1. /\ current_sample' \in Nat /\ buffered_count' \in 0..Block - 1
    BY <1>1 DEF ComputeRest, TypeOK
  <2>2. tail' \in 0..TailBlocks /\ count' \in Int
    BY <1>1 DEF ComputeRest, NextTail, TypeOK
  <2>3. pc' \in PCs
    BY <1>1 DEF ComputeRest, NextTail, PCs
  <2>4. TypeOK'
    BY <1>1, <2>1, <2>2, <2>3 DEF ComputeRest, TypeOK, histVars
  <2>5. CASE tail = 0
    <3>1. pc' = "handle" /\ tail' = 0 /\ ev' = ev /\ current_event' = current_event
      BY <1>1, <2>5 DEF ComputeRest
    <3>2. ev = EOT \/ current_event < EOT
      BY <1>1, <2>5 DEF ComputeRest, Inside
    <3>3. Inside'
      BY <3>1, <3>2 DEF Inside
    <3> QED BY <2>4, <3>3
  <2>6. CASE tail # 0
    <3>1. (pc' = "drain" /\ tail' = 0) \/ (pc' = "compute" /\ tail' # 0)
      BY <1>1, <2>6 DEF ComputeRest, NextTail, TypeOK
    <3>2. Inside'
      BY <3>1 DEF Inside
    <3> QED BY <2>4, <3>2
  <2> QED BY <2>5, <2>6
<1>2. CASE ComputeBlock
  <2>1. TypeOK'
    BY <1>2 DEF ComputeBlock, TypeOK, PCs, posVars, histVars
  <2>2. Inside'
    BY <1>2 DEF ComputeBlock, TypeOK, Inside, posVars
  <2> QED BY <2>1, <2>2
<1>3. CASE Render
  <2>1. /\ current_sample' \in Nat /\ buffered_count' \in 0..Block - 1
        /\ tail' \in 0..TailBlocks /\ count' \in Int
    BY <1>3 DEF Render, TypeOK
  <2>2. TypeOK'
    BY <1>3, <2>1 DEF Render, TypeOK, PCs, histVars
  <2>3. Inside'
    BY <1>3 DEF Render, TypeOK, Inside
  <2> QED BY <2>2, <2>3
<1> QED
  BY <1>1, <1>2, <1>3

-----------------------------------------------------------------------------
(* The requests.  What one of them does to the flow of play, whatever the  *)
(* position it leaves.                                                     *)
Onward == Continue \/ \E r \in {"jump", "restart", "reload", "skip"} : Leave(r)

LEMMA OnwardType ==
  ASSUME TypeOK, pc = "poll", Onward
  PROVE  /\ pc' \in {"poll", "advance", "finish", "drain", "compute"}
         /\ rc' \in {"none", "skip", "restart", "reload", "error"}
         /\ tail' \in 0..TailBlocks /\ count' \in Int
<1>1. CASE Continue
  BY <1>1 DEF Continue, TypeOK
<1>2. ASSUME NEW r \in {"jump", "restart", "reload", "skip"}, Leave(r)
      PROVE  /\ pc' \in {"poll", "advance", "finish", "drain", "compute"}
             /\ rc' \in {"none", "skip", "restart", "reload", "error"}
             /\ tail' \in 0..TailBlocks /\ count' \in Int
  BY <1>2, ConstantTypes DEF Leave, NextTail, TypeOK
<1> QED
  BY <1>1, <1>2 DEF Onward

LEMMA SumBelow ==
  ASSUME NEW a \in Int, NEW b \in Int, NEW c \in Int, NEW s \in Int,
         a + c <= s, b <= a
  PROVE  b + c <= s
OBVIOUS

(* A position a request may leave: the one it found, or one that a seek    *)
(* inside the song lands on, while the song plays.                         *)
Kept == UNCHANGED <<posVars, expect>>
Landed == /\ ev' = ev /\ current_event' \in 1..EOT /\ expect' \in 1..EOT
          /\ current_sample' \in Nat /\ buffered_count' = 0 /\ offset' \in Nat
          /\ tail = 0 => /\ current_sample' <= current_sample \/ ~(pc' = "poll")
                         /\ current_sample' <= sample_count
                         /\ current_event' < EOT

LEMMA OnwardInside ==
  ASSUME Room, pc = "poll", Onward, TypeOK',
         Kept \/ Landed,
         tail = 0 /\ pc' = "advance" => Landed \/ jump_flag,
         tail = 0 /\ jump_flag' => Landed \/ jump_flag
  PROVE  Inside'
<1>1. CASE tail = 0
  <2>1. /\ pc' \in {"poll", "advance", "finish"} /\ tail' = 0
        /\ pc' = "poll" => count' = count
    BY <1>1 DEF Onward, Continue, Leave
  <2>2. /\ current_sample + count <= sample_count /\ current_sample <= sample_count
        /\ ev = EOT \/ current_event < EOT
        /\ jump_flag => current_event < EOT
    BY <1>1 DEF Room, Inside
  <2>3. current_sample \in Nat /\ count \in Int /\ current_sample' \in Nat
    BY DEF Room, TypeOK
  <2>4. CASE Kept
    <3>1. /\ ev' = ev /\ current_event' = current_event
          /\ current_sample' = current_sample
      BY <2>4 DEF Kept, posVars
    <3> QED BY <1>1, <2>1, <2>2, <2>3, <3>1 DEF Inside, Landed
  <2>5. CASE Landed
    <3>1. pc' = "poll" => current_sample' + count' <= sample_count
      <4> SUFFICES ASSUME pc' = "poll" PROVE current_sample' + count' <= sample_count
        OBVIOUS
      <4>1. current_sample' <= current_sample /\ count' = count
        BY <1>1, <2>1, <2>5 DEF Landed
      <4>2. sample_count \in Int
        BY ConstantTypes
      <4>3. current_sample \in Int /\ count \in Int /\ current_sample' \in Int
        BY <2>3
      <4>4. current_sample' + count <= sample_count
        BY <2>2, <4>1, <4>2, <4>3, SumBelow
      <4> QED BY <4>1, <4>4
    <3>2. current_sample' <= sample_count /\ current_event' < EOT
      BY <1>1, <2>5 DEF Landed
    <3> QED BY <2>1, <3>1, <3>2 DEF Inside
  <2> QED BY <2>4, <2>5
<1>2. CASE tail # 0
  <2>1. \/ pc' \in {"poll", "compute"} /\ tail' # 0
        \/ pc' \in {"finish", "drain"}
    BY <1>2 DEF Onward, Continue, Leave, NextTail, Room, TypeOK
  <2> QED BY <2>1 DEF Inside
<1> QED
  BY <1>1, <1>2

(* What is left to show of a request. *)
LEMMA RequestRoom ==
  ASSUME Room, pc = "poll", Onward, Kept \/ Landed,
         \E kind \in CommandKinds : Ask(kind),
         session' = session, track' = track, songs' = songs,
         midi_restart_time' \in Nat,
         play_pause_flag' \in BOOLEAN, jump_flag' \in BOOLEAN,
         skipped' \in {skipped, "song"}, reload' \in {reload, "song", "end"},
         tail = 0 /\ pc' = "advance" => Landed \/ jump_flag,
         tail = 0 /\ jump_flag' => Landed \/ jump_flag
  PROVE  Room'
<1>1. TypeOK
  BY DEF Room
<1>2. asked' \in 0..session'.most
  BY <1>1, AskType
<1>3. /\ pc' \in {"poll", "advance", "finish", "drain", "compute"}
      /\ rc' \in {"none", "skip", "restart", "reload", "error"}
      /\ tail' \in 0..TailBlocks /\ count' \in Int
  BY <1>1, OnwardType
<1>4. /\ ev' \in 1..EOT /\ current_event' \in 1..EOT /\ current_sample' \in Nat
      /\ buffered_count' \in 0..Block - 1 /\ offset' \in Nat /\ expect' \in 1..EOT
  <2>1. CASE Kept
    BY <1>1, <2>1 DEF Kept, posVars, TypeOK
  <2>2. CASE Landed
    BY <1>1, <2>2, ConstantTypes DEF Landed, TypeOK
  <2> QED BY <2>1, <2>2
<1>5. TypeOK'
  BY <1>1, <1>2, <1>3, <1>4 DEF TypeOK, PCs
<1> QED
  BY <1>5, OnwardInside DEF Room

(* A seek to a time inside the song, no later than where it is unless it   *)
(* ends the polling.                                                       *)
LEMMA SeekLands ==
  ASSUME TypeOK, EOT >= 2, NEW t \in Nat, SkipTo(t),
         tail = 0 => /\ t <= sample_count
                     /\ t <= current_sample \/ ~(pc' = "poll")
  PROVE  Landed
<1>1. /\ ev' = ev /\ current_event' \in 1..EOT /\ expect' \in 1..EOT
      /\ current_sample' \in Nat /\ buffered_count' = 0 /\ offset' = t
      /\ t <= sample_count => current_sample' = t
      /\ t <= sample_count => current_event' < EOT
  BY SkipToLands
<1> QED
  BY <1>1 DEF Landed

LEMMA RoomRequests ==
  ASSUME Room, EOT >= 2,
         NEW v \in Nat,
         \/ Stop \/ Previous \/ Pause \/ Restart \/ Sync \/ Reload
         \/ Jump(v) \/ Forward(v) \/ Back(v)
  PROVE  Room'
<1>1. TypeOK /\ Inside /\ current_sample \in Nat /\ tail \in 0..TailBlocks
  BY DEF Room, TypeOK
<1>2. play_pause_flag \in BOOLEAN /\ jump_flag \in BOOLEAN /\ midi_restart_time \in Nat
  BY <1>1 DEF TypeOK
<1>3. sample_count \in Nat
  BY ConstantTypes
<1>4. pc = "poll" /\ tail = 0 => current_sample <= sample_count
  BY <1>1 DEF Inside
<1>5. \A cur \in Heard : cur \in Nat /\ cur <= current_sample
  BY <1>1, HeardType
<1>6. {"stop", "previous", "jump", "forward", "back", "pause", "restart",
       "sync", "reverb", "reload", "rate"} \subseteq CommandKinds
  BY DEF CommandKinds
<1>7. CASE Stop
  <2>1. pc = "poll" /\ Ask("stop") /\ Leave("skip") /\ Kept /\ jump_flag' = jump_flag
    BY <1>7 DEF Stop, Kept
  <2>2. Onward /\ ~(pc' = "advance" /\ tail = 0)
    BY <2>1 DEF Onward, Leave
  <2>3. play_pause_flag' \in BOOLEAN
    BY <1>7 DEF Stop
  <2> QED
    BY <1>2, <1>6, <1>7, <2>1, <2>2, <2>3, RequestRoom DEF Stop
<1>8. CASE Previous
  <2>1. /\ pc = "poll" /\ Ask("previous") /\ Kept /\ jump_flag' = jump_flag
        /\ Leave("skip") \/ Leave("restart")
    BY <1>8 DEF Previous, Kept
  <2>2. Onward /\ ~(pc' = "advance" /\ tail = 0)
    BY <2>1 DEF Onward, Leave
  <2>3. skipped' \in {skipped, "song"}
    BY <1>8 DEF Previous
  <2> QED
    BY <1>2, <1>6, <1>8, <2>1, <2>2, <2>3, RequestRoom DEF Previous
<1>9. CASE Pause
  <2>1. /\ pc = "poll" /\ Ask("pause") /\ Kept /\ jump_flag' = jump_flag
        /\ Continue
    BY <1>9 DEF Pause, Kept
  <2>2. Onward /\ pc' = "poll"
    BY <2>1 DEF Onward, Continue
  <2>3. play_pause_flag' = ~play_pause_flag
    BY <1>9 DEF Pause
  <2>4. play_pause_flag' \in BOOLEAN
    BY <1>2, <2>3
  <2> QED
    BY <1>2, <1>6, <1>9, <2>1, <2>2, <2>4, RequestRoom DEF Pause, histVars
<1>10. CASE Restart
  <2>1. pc = "poll" /\ Ask("restart") /\ Continue /\ midi_restart_time' = 0
    BY <1>10 DEF Restart
  <2>2. Onward /\ pc' = "poll"
    BY <2>1 DEF Onward, Continue
  <2>3. CASE play_pause_flag
    <3>1. Kept /\ jump_flag' = jump_flag
      BY <1>10, <2>3 DEF Restart, Kept
    <3> QED
      BY <1>2, <1>6, <1>10, <2>1, <2>2, <3>1, RequestRoom DEF Restart
  <2>4. CASE ~play_pause_flag
    <3>1. SkipTo(0) /\ jump_flag' = TRUE
      BY <1>10, <2>4 DEF Restart
    <3>2. Landed
      BY <1>1, <1>3, <3>1, SeekLands
    <3> QED
      BY <1>2, <1>6, <1>10, <2>1, <2>2, <3>1, <3>2, RequestRoom DEF Restart
  <2> QED BY <2>3, <2>4
<1>11. CASE Sync
  <2>1. /\ pc = "poll" /\ Continue
        /\ Ask("sync") \/ Ask("reverb")
    BY <1>11 DEF Sync
  <2>2. Onward /\ pc' = "poll"
    BY <2>1 DEF Onward, Continue
  <2>3. PICK cur \in Heard : SkipTo(cur)
    BY <1>11 DEF Sync
  <2>4. cur \in Nat /\ cur <= current_sample
    BY <1>5
  <2>5. tail = 0 => cur <= sample_count
    BY <1>1, <1>3, <1>4, <2>1, <2>4
  <2>6. Landed
    BY <1>1, <2>3, <2>4, <2>5, SeekLands
  <2>7. jump_flag' \in BOOLEAN
    BY <1>2, <1>11 DEF Sync
  <2> QED
    BY <1>2, <1>6, <1>11, <2>1, <2>2, <2>6, <2>7, RequestRoom DEF Sync
<1>12. CASE Reload
  <2>1. /\ pc = "poll" /\ Ask("reload") /\ Kept /\ jump_flag' = jump_flag
        /\ Leave("reload") /\ midi_restart_time' \in Nat
    BY <1>5, <1>12 DEF Reload, Kept
  <2>2. Onward /\ ~(pc' = "advance" /\ tail = 0)
    BY <2>1 DEF Onward, Leave
  <2>3. reload' \in {reload, "song", "end"}
    BY <1>12 DEF Reload, Where
  <2> QED
    BY <1>2, <1>6, <1>12, <2>1, <2>2, <2>3, RequestRoom DEF Reload
<1>13. CASE Jump(v)
  <2>1. /\ pc = "poll" /\ Ask("jump") /\ jump_flag' = jump_flag
        /\ midi_restart_time' \in Nat /\ skipped' \in {skipped, "song"}
    BY <1>2, <1>13 DEF Jump
  <2>2. CASE Continue /\ Kept
    <3>1. Onward /\ pc' = "poll"
      BY <2>2 DEF Onward, Continue
    <3> QED
      BY <1>2, <1>6, <1>13, <2>1, <2>2, <3>1, RequestRoom DEF Jump
  <2>3. CASE Leave("skip") /\ Kept
    <3>1. Onward /\ ~(pc' = "advance" /\ tail = 0)
      BY <2>3 DEF Onward, Leave
    <3> QED
      BY <1>2, <1>6, <1>13, <2>1, <2>3, <3>1, RequestRoom DEF Jump
  <2>4. CASE v < sample_count /\ SkipTo(v) /\ Leave("jump")
    <3>1. Onward /\ (tail = 0 => ~(pc' = "poll"))
      BY <2>4 DEF Onward, Leave
    <3>2. Landed
      BY <1>1, <1>3, <2>4, <3>1, SeekLands
    <3> QED
      BY <1>2, <1>6, <1>13, <2>1, <3>1, <3>2, RequestRoom DEF Jump
  <2> QED
    BY <1>13, <2>2, <2>3, <2>4 DEF Jump, Kept
<1>14. CASE Forward(v)
  <2>1. /\ pc = "poll" /\ Ask("forward") /\ jump_flag' = jump_flag
        /\ midi_restart_time' \in Nat /\ skipped' \in {skipped, "song"}
    BY <1>2, <1>3, <1>14 DEF Forward, Lesser
  <2>2. CASE Continue /\ Kept
    <3>1. Onward /\ pc' = "poll"
      BY <2>2 DEF Onward, Continue
    <3> QED
      BY <1>2, <1>6, <1>14, <2>1, <2>2, <3>1, RequestRoom DEF Forward
  <2>3. CASE Leave("skip") /\ Kept
    <3>1. Onward /\ ~(pc' = "advance" /\ tail = 0)
      BY <2>3 DEF Onward, Leave
    <3> QED
      BY <1>2, <1>6, <1>14, <2>1, <2>3, <3>1, RequestRoom DEF Forward
  <2>4. ASSUME NEW cur \in Heard, ~(v + cur >= sample_count), SkipTo(v + cur), Leave("jump")
        PROVE  Room'
    <3>1. Onward /\ (tail = 0 => ~(pc' = "poll"))
      BY <2>4 DEF Onward, Leave
    <3>2. v + cur \in Nat /\ v + cur <= sample_count
      BY <1>3, <1>5, <2>4
    <3>3. Landed
      BY <1>1, <2>4, <3>1, <3>2, SeekLands
    <3> QED
      BY <1>2, <1>6, <1>14, <2>1, <3>1, <3>3, RequestRoom DEF Forward
  <2> QED
    BY <1>14, <2>2, <2>3, <2>4 DEF Forward, Kept
<1>15. CASE Back(v)
  <2>1. pc = "poll" /\ Ask("back") /\ jump_flag' = jump_flag
    BY <1>15 DEF Back
  <2>2. midi_restart_time' \in Nat
    BY <1>2, <1>15 DEF Back
  <2>3. CASE Continue /\ Kept
    <3>1. Onward /\ pc' = "poll"
      BY <2>3 DEF Onward, Continue
    <3> QED
      BY <1>2, <1>6, <1>15, <2>1, <2>2, <2>3, <3>1, RequestRoom DEF Back
  <2>4. ASSUME NEW cur \in Heard, Leave("jump"),
               (cur > v /\ SkipTo(cur - v)) \/ (~(cur > v) /\ SkipTo(0))
        PROVE  Room'
    <3>1. Onward /\ (tail = 0 => ~(pc' = "poll"))
      BY <2>4 DEF Onward, Leave
    <3>2. PICK t \in Nat : SkipTo(t) /\ t <= current_sample
      BY <1>1, <1>5, <2>4
    <3>3. tail = 0 => t <= sample_count
      BY <1>1, <1>3, <1>4, <2>1, <3>2
    <3>4. Landed
      BY <1>1, <3>1, <3>2, <3>3, SeekLands
    <3> QED
      BY <1>2, <1>6, <1>15, <2>1, <2>2, <3>1, <3>4, RequestRoom DEF Back
  <2> QED
    BY <1>15, <2>3, <2>4 DEF Back, Kept
<1> QED
  BY <1>7, <1>8, <1>9, <1>10, <1>11, <1>12, <1>13, <1>14, <1>15

(* A new rate, and the end of the polling. *)
LEMMA RoomPolls ==
  ASSUME Room, ChangeRate \/ PollNone
  PROVE  Room'
<1>1. TypeOK /\ Inside /\ play_pause_flag \in BOOLEAN /\ jump_flag \in BOOLEAN
  BY DEF Room, TypeOK
<1>2. CASE ChangeRate /\ pc' = "render"
  <2>1. pc = "poll" /\ Ask("rate") /\ session' = session
    BY <1>2 DEF ChangeRate
  <2>2. asked' \in 0..session'.most
    BY <1>1, <2>1, AskType
  <2>3. UNCHANGED <<posVars, rc, tail, count, midi_restart_time, reload, jump_flag,
                    play_pause_flag, track, songs, expect, skipped>>
    BY <1>2 DEF ChangeRate, Leave, NextTail
  <2>4. TypeOK'
    BY <1>1, <1>2, <2>1, <2>2, <2>3 DEF TypeOK, PCs, posVars
  <2>5. Inside'
    BY <1>1, <1>2, <2>1, <2>3 DEF Inside, posVars
  <2> QED BY <2>4, <2>5 DEF Room
<1>3. CASE ChangeRate /\ ~(pc' = "render")
  <2>1. /\ pc = "poll" /\ Ask("rate") /\ Kept /\ jump_flag' = jump_flag
        /\ Leave("reload") /\ midi_restart_time' \in Nat
    BY <1>1, <1>3, HeardType DEF ChangeRate, Kept
  <2>2. Onward /\ ~(pc' = "advance" /\ tail = 0)
    BY <2>1 DEF Onward, Leave
  <2>3. reload' \in {reload, "song", "end"}
    BY <1>3 DEF ChangeRate, Where
  <2>4. "rate" \in CommandKinds
    BY DEF CommandKinds
  <2> QED
    BY <1>1, <1>3, <2>1, <2>2, <2>3, <2>4, RequestRoom DEF ChangeRate
<1>4. CASE PollNone /\ jump_flag
  <2>1. pc = "poll" /\ Kept /\ jump_flag' = jump_flag /\ Leave("jump")
    BY <1>4 DEF PollNone, Kept
  <2>2. Onward
    BY <2>1 DEF Onward
  <2>3. /\ pc' \in {"poll", "advance", "finish", "drain", "compute"}
        /\ rc' \in {"none", "skip", "restart", "reload", "error"}
        /\ tail' \in 0..TailBlocks /\ count' \in Int
    BY <1>1, <2>1, <2>2, OnwardType
  <2>4. TypeOK'
    BY <1>1, <1>4, <2>3 DEF PollNone, TypeOK, PCs, posVars, histVars
  <2> QED
    BY <1>4, <2>1, <2>2, <2>4, OnwardInside DEF Room
<1>5. CASE PollNone /\ ~jump_flag
  <2>1. TypeOK'
    BY <1>1, <1>5 DEF PollNone, TypeOK, PCs, posVars, histVars
  <2>2. Inside'
    BY <1>1, <1>5 DEF PollNone, Inside, posVars
  <2> QED BY <2>1, <2>2 DEF Room
<1> QED
  BY <1>1, <1>2, <1>3, <1>4, <1>5

-----------------------------------------------------------------------------
(* A request that leaves the song is known by what play_midi() or          *)
(* play_midi_load_file() returned until the song is closed.                *)
Left == {"load", "flush", "song", "drain"}
Known ==
  pc \in {"finish", "closing"} =>
    /\ skipped \in Left => rc = "skip"
    /\ reload = "song" => rc = "reload"
Obeyed == StopObeyed /\ Known

LEMMA ObeyedStep ==
  ASSUME Obeyed, Next
  PROVE  Obeyed'
<1> USE DEF Obeyed, StopObeyed, Known, Left
<1>1. CASE Play
  BY <1>1 DEF Play
<1>2. CASE Opening
  BY <1>2 DEF Opening
<1>3. CASE LoadPoll
  BY <1>3 DEF LoadPoll, Check
<1>4. CASE Load
  BY <1>4 DEF Load
<1>5. CASE FlushPoll
  BY <1>5 DEF FlushPoll, Check
<1>6. CASE Begin
  BY <1>6 DEF Begin
<1>7. CASE Event
  BY <1>7 DEF Event, histVars
<1>8. CASE Handle
  BY <1>8 DEF Handle, histVars
<1>9. CASE Advance
  BY <1>9 DEF Advance, histVars
<1>10. CASE ComputeRest
  BY <1>10 DEF ComputeRest, NextTail, histVars
<1>11. CASE ComputeBlock
  BY <1>11 DEF ComputeBlock, histVars
<1>12. CASE Render
  BY <1>12 DEF Render, histVars
<1>13. CASE PollNone
  BY <1>13 DEF PollNone, Leave, NextTail, histVars
<1>14. CASE Stop
  BY <1>14 DEF Stop, Leave
<1>15. CASE Previous
  BY <1>15 DEF Previous, Leave, NextTail
<1>16. CASE Pause
  BY <1>16 DEF Pause, Continue, histVars
<1>17. CASE Restart
  BY <1>17 DEF Restart, Continue
<1>18. CASE Sync
  BY <1>18 DEF Sync, Continue
<1>19. CASE Reload
  BY <1>19 DEF Reload, Where, Leave, NextTail
<1>20. CASE ChangeRate
  BY <1>20 DEF ChangeRate, Where, Leave, NextTail
<1>21. ASSUME NEW v \in session.jumps, Jump(v)
       PROVE  Obeyed'
  BY <1>21 DEF Jump, Continue, Leave, NextTail
<1>22. ASSUME NEW v \in session.jumps, Forward(v)
       PROVE  Obeyed'
  <2>1. /\ pc = "poll" /\ reload' = reload
        /\ \/ Continue /\ skipped' = skipped
           \/ Leave("skip") /\ skipped' = "song"
           \/ Leave("jump") /\ skipped' = skipped
    BY <1>22 DEF Forward
  <2> QED
    BY <2>1 DEF Continue, Leave, NextTail
<1>23. ASSUME NEW v \in session.jumps, Back(v)
       PROVE  Obeyed'
  BY <1>23 DEF Back, Continue, Leave, NextTail
<1>24. CASE DrainPoll
  BY <1>24 DEF DrainPoll, Check
<1>25. CASE Drain
  BY <1>25 DEF Drain, histVars
<1>26. CASE Finish
  BY <1>26 DEF Finish, histVars
<1>27. CASE Close
  BY <1>27 DEF Close
<1> QED
  BY <1>1, <1>2, <1>3, <1>4, <1>5, <1>6, <1>7, <1>8, <1>9, <1>10, <1>11, <1>12,
     <1>13, <1>14, <1>15, <1>16, <1>17, <1>18, <1>19, <1>20, <1>21, <1>22,
     <1>23, <1>24, <1>25, <1>26, <1>27
  DEF Next, Step, Request

-----------------------------------------------------------------------------
LEMMA RoomStep ==
  ASSUME Room, EOT >= 2, Next
  PROVE  Room'
<1>1. session \in Sessions
  BY DEF Room, TypeOK
<1>2. session.jumps \subseteq Nat
  BY <1>1, ConstantTypes
<1> QED
  BY <1>2, RoomOutside, RoomEvents, RoomBlocks, RoomRequests, RoomPolls
  DEF Next, Step, Request

LEMMA RoomInit ==
  ASSUME Init, EOT >= 2
  PROVE  Room
<1>1. session \in Sessions /\ session.songs \in Nat /\ session.most \in Nat
  BY ConstantTypes DEF Init
<1>2. TypeOK
  <2>1. play_pause_flag \in BOOLEAN /\ jump_flag \in BOOLEAN
    BY DEF Init
  <2>2. /\ 0 \in Nat /\ 0 \in Int /\ 1 \in 1..EOT /\ 0 \in 0..Block - 1
        /\ 0 \in 0..TailBlocks /\ 0 \in 0..session.songs /\ 0 \in 0..session.most
    BY <1>1, ConstantTypes
  <2> QED
    BY <1>1, <2>1, <2>2 DEF Init, TypeOK, PCs
<1>3. Inside
  BY DEF Init, Inside
<1> QED
  BY <1>2, <1>3 DEF Room

(* Of every song with an event before its ME_EOT, the event loop stays     *)
(* inside event_list whatever is asked, and the rest of the type invariant *)
(* holds.                                                                  *)
THEOREM TypeCorrect ==
  ASSUME EOT >= 2
  PROVE  Spec => []TypeOK
<1>1. Init => Room
  BY RoomInit
<1>2. Room /\ [Next]_vars => Room'
  <2>1. CASE Next
    BY <2>1, RoomStep
  <2>2. CASE UNCHANGED vars
    BY <2>2 DEF vars, posVars, runVars, histVars, Room, TypeOK, Inside
  <2> QED BY <2>1, <2>2
<1>3. Room => TypeOK
  BY DEF Room
<1> QED
  BY <1>1, <1>2, <1>3, PTL DEF Spec

(* A request that leaves the song, or loads it again, is carried out: the  *)
(* song it was asked in does not go on.                                    *)
THEOREM RequestsObeyed == Spec => []StopObeyed
<1>1. Init => Obeyed
  BY DEF Init, Obeyed, StopObeyed, Known
<1>2. Obeyed /\ [Next]_vars => Obeyed'
  <2>1. CASE Next
    BY <2>1, ObeyedStep
  <2>2. CASE UNCHANGED vars
    BY <2>2 DEF vars, histVars, Obeyed, StopObeyed, Known
  <2> QED BY <2>1, <2>2
<1>3. Obeyed => StopObeyed
  BY DEF Obeyed
<1> QED
  BY <1>1, <1>2, <1>3, PTL DEF Spec

-----------------------------------------------------------------------------
(* Seeks are exact.  In the sessions SeeksOnly is about the event that is  *)
(* due is the one play_event() was given, while samples are computed up to *)
(* it, and after a seek the one the event loop steps on to.                *)
Straight == /\ tail = 0
            /\ pc = "compute" \/ pc = "render" \/ (pc = "poll" /\ ~jump_flag)
Turned == tail = 0 /\ (pc = "advance" \/ (pc = "poll" /\ jump_flag))
Due ==
  /\ play_pause_flag = FALSE /\ rc # "reload"
  /\ pc \in {"load", "flush"} => midi_restart_time = 0
  /\ pc = "event" => current_event = expect /\ current_sample <= Times[expect]
  /\ Straight =>
       /\ ev = expect /\ current_event = ev /\ midi_restart_time = 1
       /\ current_sample + count = Times[ev] /\ count >= 0
       /\ pc # "compute" => count + buffered_count >= Block
  /\ pc = "handle" =>
       /\ ev = expect /\ current_event = ev /\ midi_restart_time = 1
       /\ current_sample = Times[ev]
  /\ Turned =>
       /\ expect = IF midi_restart_time = 0 THEN current_event ELSE current_event + 1
       /\ current_sample <= Times[expect]
  /\ pc = "poll" /\ jump_flag => "restart" \in session.commands
Exact == Room /\ (SeeksOnly => Due)

(* Where a seek lands in a song that begins at time 0. *)
LEMMA SkipToDue ==
  ASSUME Times[1] = 0, NEW t \in Nat, t <= sample_count, SkipTo(t)
  PROVE  /\ current_sample' = t /\ expect' \in 1..EOT /\ t <= Times[expect']
         /\ t = 0 => current_event' = 1 /\ expect' = 1
         /\ t > 0 => current_event' + 1 = expect'
<1>1. /\ EOT \in Nat \ {0} /\ sample_count \in Nat
      /\ \A i \in 1..EOT : Times[i] \in Nat
  BY ConstantTypes
<1>2. PICK i \in 1..EOT : i = FirstAt(t)
  BY FirstAtType
<1>3. Times[i] >= t /\ \A j \in 1..i - 1 : Times[j] < t
  BY <1>2, FirstAtType
<1>4. t = 0 => i = 1
  <2>1. t = 0 /\ i # 1 => 1 \in 1..i - 1 /\ Times[1] < t
    BY <1>1, <1>3
  <2> QED BY <2>1
<1>5. t > 0 => i # 1
  BY <1>3
<1>6. /\ current_sample' = t /\ expect' = i
      /\ current_event' = IF i = 1 THEN i ELSE i - 1
  BY <1>1, <1>2 DEF SkipTo
<1> QED
  BY <1>1, <1>3, <1>4, <1>5, <1>6

(* Only the seeks among the requests are made in these sessions. *)
LEMMA OnlySeeks ==
  ASSUME SeeksOnly, NEW kind, Ask(kind)
  PROVE  kind \in {"stop", "previous", "restart", "jump", "forward", "back"}
BY DEF SeeksOnly, Ask

LEMMA DueOutside ==
  ASSUME SeeksOnly, Due,
         Play \/ Opening \/ LoadPoll \/ Load \/ FlushPoll \/ DrainPoll
         \/ Drain \/ Finish \/ Close
  PROVE  Due'
<1> USE DEF Due, Straight, Turned
<1>1. CASE Play
  BY <1>1 DEF Play, posVars, runVars
<1>2. CASE Opening
  <2>1. ~Ask("pause")
    BY OnlySeeks
  <2> QED
    BY <1>2, <2>1 DEF Opening
<1>3. ASSUME NEW leave, NEW where, Check(leave, where)
      PROVE  /\ play_pause_flag' = play_pause_flag /\ midi_restart_time' = midi_restart_time
             /\ pc' \in {pc, leave} /\ rc' \in {rc, "skip"}
  <2>1. ~Ask("pause") /\ ~Ask("rate")
    BY OnlySeeks
  <2> QED
    BY <1>3, <2>1 DEF Check
<1>4. CASE LoadPoll
  BY <1>3, <1>4 DEF LoadPoll
<1>5. CASE Load
  BY <1>5 DEF Load
<1>6. CASE FlushPoll
  BY <1>3, <1>6 DEF FlushPoll
<1>7. CASE DrainPoll
  BY <1>3, <1>7 DEF DrainPoll
<1>8. CASE Drain
  BY <1>8 DEF Drain
<1>9. CASE Finish
  BY <1>9 DEF Finish
<1>10. CASE Close
  BY <1>10 DEF Close
<1> QED
  BY <1>1, <1>2, <1>4, <1>5, <1>6, <1>7, <1>8, <1>9, <1>10

LEMMA DueEvents ==
  ASSUME Times[1] = 0, Room, Due, Begin \/ Event \/ Handle \/ Advance
  PROVE  Due'
<1>1. /\ TypeOK /\ Inside /\ ev \in 1..EOT /\ current_event \in 1..EOT
      /\ expect \in 1..EOT /\ current_sample \in Nat
  BY DEF Room, TypeOK
<1>2. /\ EOT \in Nat \ {0} /\ sample_count \in Nat
      /\ \A i \in 1..EOT : Times[i] \in Nat
  BY ConstantTypes
<1>3. CASE Begin
  <2>1. SkipTo(0) /\ pc' = "event" /\ play_pause_flag' = play_pause_flag /\ rc' = rc
    BY <1>3 DEF Begin, Due
  <2>2. current_sample' = 0 /\ expect' = 1 /\ current_event' = 1
    BY <1>2, <2>1, SkipToDue
  <2> QED
    BY <2>1, <2>2 DEF Due, Straight, Turned
<1>4. CASE Event
  <2>1. /\ pc = "event" /\ ev' = current_event /\ current_event' = current_event
        /\ midi_restart_time' = 1 /\ current_sample' = current_sample
        /\ expect' = expect /\ play_pause_flag' = play_pause_flag /\ rc' = rc
        /\ current_event = expect /\ current_sample <= Times[expect]
    BY <1>4 DEF Event, Due, histVars
  <2>2. CASE pc' = "compute" /\ count' = Times[expect] - current_sample
    BY <1>1, <1>2, <2>1, <2>2 DEF Due, Straight, Turned
  <2>3. CASE pc' = "handle" /\ Times[expect] <= current_sample
    BY <1>1, <1>2, <2>1, <2>3 DEF Due, Straight, Turned
  <2> QED
    BY <1>4, <2>1, <2>2, <2>3 DEF Event
<1>5. CASE Handle
  <2>1. /\ pc = "handle" /\ play_pause_flag' = play_pause_flag /\ rc' = rc
        /\ current_sample' = current_sample
        /\ ev = expect /\ current_event = ev /\ midi_restart_time = 1
        /\ current_sample = Times[ev]
    BY <1>5 DEF Handle, Due
  <2>2. CASE ev = EOT
    <3>1. pc' = "compute" /\ tail' # 0
      BY <1>5, <2>2 DEF Handle
    <3> QED
      BY <2>1, <3>1 DEF Due, Straight, Turned
  <2>3. CASE ev # EOT
    <3>1. pc' = "event" /\ current_event' = ev + 1 /\ expect' = ev + 1
      BY <1>5, <2>1, <2>3 DEF Handle, StepOn
    <3>2. Times[ev] <= Times[ev + 1]
      BY <1>1, <1>2, <2>3, TimesAssumption DEF EOT
    <3> QED
      BY <2>1, <3>1, <3>2 DEF Due, Straight, Turned
  <2> QED BY <2>2, <2>3
<1>6. CASE Advance
  <2>1. /\ pc = "advance" /\ pc' = "event" /\ tail = 0
        /\ play_pause_flag' = play_pause_flag /\ rc' = rc
        /\ expect' = expect /\ current_sample' = current_sample
    BY <1>1, <1>6 DEF Advance, Inside
  <2>2. current_event' = expect /\ current_sample <= Times[expect]
    BY <1>6, <2>1 DEF Advance, StepOn, Due, Turned
  <2> QED
    BY <2>1, <2>2 DEF Due, Straight, Turned
<1> QED
  BY <1>3, <1>4, <1>5, <1>6

LEMMA DueBlocks ==
  ASSUME Room, Due, ComputeRest \/ ComputeBlock \/ Render
  PROVE  Due'
<1>1. /\ ev \in 1..EOT /\ current_sample \in Nat /\ count \in Int
      /\ buffered_count \in 0..Block - 1 /\ tail \in 0..TailBlocks
      /\ Block \in Nat /\ TailBlocks \in Nat /\ Times[ev] \in Nat
  BY ConstantTypes DEF Room, TypeOK
<1>2. CASE ComputeRest
  <2>1. /\ pc = "compute" /\ ev' = ev /\ current_event' = current_event
        /\ expect' = expect /\ midi_restart_time' = midi_restart_time
        /\ play_pause_flag' = play_pause_flag /\ rc' = rc
    BY <1>2 DEF ComputeRest, histVars
  <2>2. CASE tail = 0
    <3>1. /\ ev = expect /\ current_event = ev /\ midi_restart_time = 1
          /\ current_sample + count = Times[ev] /\ count >= 0
      BY <2>1, <2>2 DEF Due, Straight
    <3>2. pc' = "handle" /\ tail' = 0 /\ current_sample' = Times[ev]
      BY <1>1, <1>2, <2>2, <3>1 DEF ComputeRest
    <3> QED
      BY <2>1, <3>1, <3>2 DEF Due, Straight, Turned
  <2>3. CASE tail # 0
    <3>1. (pc' = "drain" /\ tail' = 0) \/ (pc' = "compute" /\ tail' # 0)
      BY <1>1, <1>2, <2>3 DEF ComputeRest, NextTail
    <3> QED
      BY <2>1, <3>1 DEF Due, Straight, Turned
  <2> QED BY <2>2, <2>3
<1>3. CASE ComputeBlock
  BY <1>1, <1>3 DEF ComputeBlock, Due, Straight, Turned, posVars
<1>4. CASE Render
  <2>1. /\ pc = "render" /\ pc' = "compute" /\ ev' = ev /\ current_event' = current_event
        /\ expect' = expect /\ midi_restart_time' = midi_restart_time
        /\ play_pause_flag' = play_pause_flag /\ rc' = rc
    BY <1>4 DEF Render, histVars
  <2>2. CASE tail' = 0
    <3>1. /\ tail = 0 /\ count' = count - (Block - buffered_count)
          /\ current_sample' = current_sample + (Block - buffered_count)
      BY <1>4, <2>2 DEF Render
    <3>2. /\ ev = expect /\ current_event = ev /\ midi_restart_time = 1
          /\ current_sample + count = Times[ev] /\ count + buffered_count >= Block
      BY <2>1, <3>1 DEF Due, Straight
    <3>3. current_sample' + count' = Times[ev] /\ count' >= 0
      BY <1>1, <3>1, <3>2
    <3> QED
      BY <2>1, <3>2, <3>3 DEF Due, Straight, Turned
  <2>3. CASE tail' # 0
    BY <2>1, <2>3 DEF Due, Straight, Turned
  <2> QED BY <2>2, <2>3
<1> QED
  BY <1>2, <1>3, <1>4

(* A request that leaves the song, or is not heeded at its end. *)
LEMMA DueLeaves ==
  ASSUME Room, Due, pc = "poll", NEW r \in {"restart", "skip"}, Leave(r),
         play_pause_flag' = play_pause_flag \/ play_pause_flag' = FALSE
  PROVE  Due'
<1>1. tail \in 0..TailBlocks /\ TailBlocks \in Nat
  BY ConstantTypes DEF Room, TypeOK
<1>2. \/ pc' \in {"finish", "drain"}
      \/ pc' = "compute" /\ tail' # 0
  BY <1>1 DEF Leave, NextTail
<1>3. rc' # "reload" /\ play_pause_flag' = FALSE
  BY DEF Leave, NextTail, Due
<1> QED
  BY <1>2, <1>3 DEF Due, Straight, Turned

(* A jump: the song is where the event that is due is next. *)
LEMMA DueJumps ==
  ASSUME Room, Due, Times[1] = 0, pc = "poll", Leave("jump"),
         play_pause_flag' = play_pause_flag,
         NEW t \in Nat, SkipTo(t), tail = 0 => t <= sample_count,
         tail = 0 => \/ t = 0 /\ midi_restart_time' = 0
                     \/ t > 0 /\ midi_restart_time' = midi_restart_time
                        /\ midi_restart_time # 0
  PROVE  Due'
<1>1. tail \in 0..TailBlocks /\ TailBlocks \in Nat
  BY ConstantTypes DEF Room, TypeOK
<1>2. CASE tail = 0
  <2>1. pc' = "advance" /\ rc' = rc /\ tail' = tail
    BY <1>2 DEF Leave
  <2>2. /\ current_sample' = t /\ t <= Times[expect']
        /\ t = 0 => current_event' = 1 /\ expect' = 1
        /\ t > 0 => current_event' + 1 = expect'
    BY <1>2, SkipToDue
  <2> QED
    BY <1>2, <2>1, <2>2 DEF Due, Straight, Turned
<1>3. CASE tail # 0
  <2>1. /\ rc' = rc
        /\ (pc' = "drain" /\ tail' = 0) \/ (pc' = "compute" /\ tail' # 0)
    BY <1>1, <1>3 DEF Leave, NextTail
  <2> QED
    BY <2>1 DEF Due, Straight, Turned
<1> QED
  BY <1>2, <1>3

LEMMA DueRequests ==
  ASSUME SeeksOnly, Room, Due, Times[1] = 0,
         \/ Stop \/ Previous \/ Pause \/ Restart \/ Sync \/ Reload \/ ChangeRate
         \/ PollNone
         \/ \E u \in session.jumps : u \in Nat /\ (Jump(u) \/ Forward(u) \/ Back(u))
  PROVE  Due'
<1>1. /\ TypeOK /\ Inside /\ current_sample \in Nat /\ tail \in 0..TailBlocks
      /\ sample_count \in Nat /\ TailBlocks \in Nat
  BY ConstantTypes DEF Room, TypeOK
<1>2. ~play_pause_flag
  BY DEF Due
<1>3. pc = "poll" /\ tail = 0 => current_sample <= sample_count
  BY <1>1 DEF Inside
<1>4. \A cur \in Heard : cur \in Nat /\ cur <= current_sample
  BY <1>1, HeardType
<1>5. ~Ask("pause") /\ ~Ask("sync") /\ ~Ask("reverb") /\ ~Ask("reload") /\ ~Ask("rate")
  BY OnlySeeks
<1>7. Ask("jump") \/ Ask("forward") \/ Ask("back") =>
         \A v \in session.jumps : v \in Nat => v > 0
  BY DEF SeeksOnly, Ask
<1>8. CASE Stop
  BY <1>8, DueLeaves DEF Stop
<1>9. CASE Previous
  BY <1>9, DueLeaves DEF Previous
<1>10. CASE Pause \/ Sync \/ Reload \/ ChangeRate
  BY <1>5, <1>10 DEF Pause, Sync, Reload, ChangeRate
<1>11. CASE Restart
  <2>1. /\ SkipTo(0) /\ jump_flag' = TRUE /\ pc' = "poll" /\ midi_restart_time' = 0
        /\ tail' = tail /\ rc' = rc /\ play_pause_flag' = play_pause_flag
    BY <1>2, <1>11 DEF Restart, Continue
  <2>2. current_sample' = 0 /\ expect' = 1 /\ current_event' = 1 /\ 0 <= Times[expect']
    BY <1>1, <2>1, SkipToDue
  <2>3. "restart" \in session'.commands
    BY <1>11 DEF Restart, Ask
  <2>4. play_pause_flag' = FALSE /\ rc' # "reload"
    BY <2>1 DEF Due
  <2>5. pc' = "poll" /\ ~Straight'
    BY <2>1 DEF Straight
  <2>6. expect' = current_event' /\ current_sample' <= Times[expect']
    BY <2>2
  <2> QED
    BY <2>1, <2>3, <2>4, <2>5, <2>6 DEF Due, Turned
<1>12. CASE PollNone /\ jump_flag
  <2>1. /\ pc = "poll" /\ UNCHANGED <<posVars, midi_restart_time, play_pause_flag, expect>>
        /\ Leave("jump")
    BY <1>12 DEF PollNone
  <2>2. CASE tail = 0
    <3>1. pc' = "advance" /\ rc' = rc /\ tail' = tail
      BY <2>1, <2>2 DEF Leave
    <3> QED
      BY <1>12, <2>1, <2>2, <3>1 DEF Due, Straight, Turned, posVars
  <2>3. CASE tail # 0
    <3>1. /\ rc' = rc
          /\ (pc' = "drain" /\ tail' = 0) \/ (pc' = "compute" /\ tail' # 0)
      BY <1>1, <2>1, <2>3 DEF Leave, NextTail
    <3> QED
      BY <2>1, <3>1 DEF Due, Straight, Turned
  <2> QED BY <2>2, <2>3
<1>13. CASE PollNone /\ ~jump_flag
  BY <1>13 DEF PollNone, Due, Straight, Turned, posVars
<1>14. Ask("jump") \/ Ask("forward") \/ Ask("back") =>
         (pc = "poll" /\ tail = 0 => midi_restart_time # 0)
  <2>1. Ask("jump") \/ Ask("forward") \/ Ask("back") => ~("restart" \in session.commands)
    BY DEF SeeksOnly, Ask
  <2> QED
    BY <2>1 DEF Due, Straight
<1>15. ASSUME NEW v \in session.jumps, v \in Nat, Jump(v)
       PROVE  Due'
  <2>1. /\ pc = "poll" /\ Ask("jump") /\ play_pause_flag' = play_pause_flag
        /\ midi_restart_time' = midi_restart_time
        /\ Leave("skip") \/ (v < sample_count /\ SkipTo(v) /\ Leave("jump"))
    BY <1>2, <1>15 DEF Jump
  <2>2. CASE Leave("skip")
    BY <2>1, <2>2, DueLeaves
  <2>3. CASE v < sample_count /\ SkipTo(v) /\ Leave("jump")
    <3>1. v > 0 /\ v <= sample_count /\ (tail = 0 => midi_restart_time # 0)
      BY <1>1, <1>7, <1>14, <1>15, <2>1, <2>3
    <3> QED
      BY <1>15, <2>1, <2>3, <3>1, DueJumps
  <2> QED BY <2>1, <2>2, <2>3
<1>16. ASSUME NEW v \in session.jumps, v \in Nat, Forward(v)
       PROVE  Due'
  <2>1. /\ pc = "poll" /\ Ask("forward") /\ play_pause_flag' = play_pause_flag
        /\ midi_restart_time' = midi_restart_time
    BY <1>2, <1>16 DEF Forward
  <2>2. CASE Leave("skip")
    BY <2>1, <2>2, DueLeaves
  <2>3. ASSUME NEW cur \in Heard, ~(v + cur >= sample_count), SkipTo(v + cur), Leave("jump")
        PROVE  Due'
    <3>1. /\ v + cur \in Nat /\ v + cur > 0 /\ v + cur <= sample_count
          /\ tail = 0 => midi_restart_time # 0
      BY <1>1, <1>4, <1>7, <1>14, <1>16, <2>1, <2>3
    <3> QED
      BY <2>1, <2>3, <3>1, DueJumps
  <2> QED
    BY <1>2, <1>16, <2>2, <2>3 DEF Forward
<1>17. ASSUME NEW v \in session.jumps, v \in Nat, Back(v)
       PROVE  Due'
  <2>1. /\ pc = "poll" /\ Ask("back") /\ play_pause_flag' = play_pause_flag
        /\ Leave("jump")
    BY <1>2, <1>17 DEF Back
  <2>2. PICK cur \in Heard :
          \/ cur > v /\ SkipTo(cur - v) /\ midi_restart_time' = midi_restart_time
          \/ SkipTo(0) /\ midi_restart_time' = 0
    BY <1>2, <1>17 DEF Back
  <2>3. CASE SkipTo(0) /\ midi_restart_time' = 0
    BY <1>1, <2>1, <2>3, DueJumps
  <2>4. CASE cur > v /\ SkipTo(cur - v) /\ midi_restart_time' = midi_restart_time
    <3>1. cur \in Nat /\ cur <= current_sample
      BY <1>4
    <3>2. cur - v \in Nat /\ cur - v > 0
      BY <1>17, <2>4, <3>1
    <3>3. tail = 0 => cur - v <= sample_count
      BY <1>1, <1>3, <1>17, <2>1, <2>4, <3>1
    <3>4. tail = 0 => midi_restart_time # 0
      BY <1>14, <2>1
    <3> QED
      BY <2>1, <2>4, <3>2, <3>3, <3>4, DueJumps
  <2> QED BY <2>2, <2>3, <2>4
<1> QED
  BY <1>8, <1>9, <1>10, <1>11, <1>12, <1>13, <1>15, <1>16, <1>17

LEMMA ExactStep ==
  ASSUME EOT >= 2, Times[1] = 0, Exact, Next
  PROVE  Exact'
<1>1. Room'
  BY RoomStep DEF Exact
<1>2. ASSUME SeeksOnly, Due
      PROVE  Due'
  <2>1. session.jumps \subseteq Nat
    BY ConstantTypes DEF Exact, Room, TypeOK
  <2>2. Room
    BY DEF Exact
  <2>3. CASE Play \/ Opening \/ LoadPoll \/ Load \/ FlushPoll \/ DrainPoll
              \/ Drain \/ Finish \/ Close
    BY <1>2, <2>3, DueOutside
  <2>4. CASE Begin \/ Event \/ Handle \/ Advance
    BY <1>2, <2>2, <2>4, DueEvents
  <2>5. CASE ComputeRest \/ ComputeBlock \/ Render
    BY <1>2, <2>2, <2>5, DueBlocks
  <2>6. CASE Stop \/ Previous \/ Pause \/ Restart \/ Sync \/ Reload \/ ChangeRate
              \/ PollNone
    BY <1>2, <2>2, <2>6, DueRequests
  <2>7. ASSUME NEW v \in session.jumps, Jump(v) \/ Forward(v) \/ Back(v)
        PROVE  Due'
    BY <1>2, <2>1, <2>2, <2>7, DueRequests
  <2> QED
    BY <2>3, <2>4, <2>5, <2>6, <2>7 DEF Next, Step, Request
<1>3. SeeksOnly' => SeeksOnly
  <2>1. session' = session
    BY DEF Next, Step, Request, Play, Opening, LoadPoll, Load, FlushPoll, Begin,
           Event, Handle, Advance, ComputeRest, ComputeBlock, Render, PollNone,
           Stop, Previous, Pause, Restart, Jump, Forward, Back, Sync, Reload,
           ChangeRate, DrainPoll, Drain, Finish, Close
  <2> QED
    BY <2>1 DEF SeeksOnly
<1> QED
  BY <1>1, <1>2, <1>3 DEF Exact

LEMMA ExactAlways ==
  ASSUME EOT >= 2, Times[1] = 0
  PROVE  Spec => []Exact
<1>1. Init => Exact
  <2> SUFFICES ASSUME Init PROVE Exact
    OBVIOUS
  <2>1. Room
    BY RoomInit
  <2>2. Due
    BY DEF Init, Due, Straight, Turned
  <2> QED BY <2>1, <2>2 DEF Exact
<1>2. Exact /\ [Next]_vars => Exact'
  <2>1. CASE Next
    BY <2>1, ExactStep
  <2>2. CASE UNCHANGED vars
    BY <2>2 DEF vars, posVars, runVars, histVars, Exact, Room, TypeOK, Inside,
                SeeksOnly, Due, Straight, Turned
  <2> QED BY <2>1, <2>2
<1> QED
  BY <1>1, <1>2, PTL DEF Spec

(* No seek of a song that begins with an event at time 0 loses an event or *)
(* plays one twice, wherever it lands and whatever block it interrupts.    *)
THEOREM SeeksExact ==
  ASSUME EOT >= 2, Times[1] = 0
  PROVE  Spec => []SeekExact
<1>1. Exact => SeekExact
  BY DEF Exact, SeekExact, EventDue, Due
<1> QED
  BY <1>1, ExactAlways, PTL

(* ... and every event of it is handled at its time. *)
THEOREM EventsOnTime ==
  ASSUME EOT >= 2, Times[1] = 0
  PROVE  Spec => []OnTime
<1>1. Exact => OnTime
  BY DEF Exact, OnTime, Due
<1> QED
  BY <1>1, ExactAlways, PTL

-----------------------------------------------------------------------------
(***************************************************************************)
(* 2. The mailbox: what the player executes was posted before it, in the   *)
(* same order.                                                             *)
(***************************************************************************)
(* The executed requests e are among the first k posted ones p, in order. *)
Through(e, p, k) ==
  \E at \in [1..Len(e) -> 1..k] :
    /\ \A i \in 1..Len(e) : p[at[i]] = e[i].rc
    /\ \A i, j \in 1..Len(e) : i < j => at[i] < at[j]

Requests == [id: Nat, jump: BOOLEAN]
Arguments == [of: Nat, scaled: Nat]
Results == [rc: Requests, arg: Arguments]

LEMMA ThroughMore ==
  ASSUME NEW e \in Seq(Results), NEW p, NEW k \in Nat, NEW l \in Nat, k <= l,
         Through(e, p, k)
  PROVE  Through(e, p, l)
BY DEF Through

(* Requests that are posted later leave what was executed alone. *)
LEMMA ThroughAppend ==
  ASSUME NEW e \in Seq(Results), NEW p \in Seq(Requests), NEW r \in Requests,
         NEW k \in Nat, k <= Len(p), Through(e, p, k)
  PROVE  Through(e, Append(p, r), k)
<1>1. \A i \in 1..k : Append(p, r)[i] = p[i]
  OBVIOUS
<1>2. PICK at \in [1..Len(e) -> 1..k] :
        /\ \A i \in 1..Len(e) : p[at[i]] = e[i].rc
        /\ \A i, j \in 1..Len(e) : i < j => at[i] < at[j]
  BY DEF Through
<1>3. \A i \in 1..Len(e) : Append(p, r)[at[i]] = e[i].rc
  BY <1>1, <1>2
<1> QED
  BY <1>2, <1>3 DEF Through

(* One more request is executed, posted after the ones before. *)
LEMMA ThroughNext ==
  ASSUME NEW e \in Seq(Results), NEW p \in Seq(Requests), NEW x \in Results,
         NEW k \in 1..Len(p), Through(e, p, k - 1), p[k] = x.rc
  PROVE  Through(Append(e, x), p, k)
<1> DEFINE f == Append(e, x)
<1>1. /\ f \in Seq(Results) /\ Len(f) = Len(e) + 1 /\ Len(e) \in Nat
      /\ f[Len(f)] = x /\ \A i \in 1..Len(e) : f[i] = e[i]
  OBVIOUS
<1>2. PICK at \in [1..Len(e) -> 1..(k - 1)] :
        /\ \A i \in 1..Len(e) : p[at[i]] = e[i].rc
        /\ \A i, j \in 1..Len(e) : i < j => at[i] < at[j]
  BY DEF Through
<1> DEFINE on == [i \in 1..Len(f) |-> IF i = Len(f) THEN k ELSE at[i]]
<1>3. \A i \in 1..Len(f) : i = Len(f) \/ i \in 1..Len(e)
  BY <1>1
<1>4. on \in [1..Len(f) -> 1..k]
  BY <1>2, <1>3
<1>5. \A i \in 1..Len(f) : p[on[i]] = f[i].rc
  BY <1>1, <1>2, <1>3
<1>6. ASSUME NEW i \in 1..Len(f), NEW j \in 1..Len(f), i < j
      PROVE  on[i] < on[j]
  <2>1. i \in 1..Len(e) /\ on[i] = at[i] /\ at[i] \in 1..(k - 1)
    BY <1>1, <1>2, <1>6
  <2>2. CASE j = Len(f)
    BY <2>1, <2>2
  <2>3. CASE j # Len(f)
    BY <1>2, <1>3, <1>6, <2>1, <2>3
  <2> QED
    BY <2>2, <2>3
<1> QED
  BY <1>4, <1>5, <1>6 DEF Through

-----------------------------------------------------------------------------
(* The inductive invariant.  What ctl_read() holds was posted after what   *)
(* was executed; and once it has cleared droid_rc, what is there came from *)
(* a later call.                                                           *)

Types ==
  /\ calls \in Nat
  /\ droid_rc \in Requests /\ droid_arg \in Arguments
  /\ caller \in [Threads -> [rc: Requests, stores: SUBSET Both,
                             pc: {"store", "test", "scale", "done"}]]
  /\ reader \in [loads: SUBSET Both, clears: SUBSET Both, rc: Requests,
                 arg: Arguments]
  /\ posted \in Seq(Requests) /\ executed \in Seq(Results)

LastPosted ==
  droid_rc # RC_NONE => posted # <<>> /\ droid_rc = posted[Len(posted)]

Unread == "rc" \in reader.loads \/ (reader.clears # {} /\ "rc" \notin reader.clears)
Holding == "rc" \notin reader.loads /\ reader.clears = {}

UnreadIsNew ==
  Unread /\ droid_rc # RC_NONE => Through(executed, posted, Len(posted) - 1)
HeldIsNew ==
  Holding => \E k \in 1..Len(posted) :
               posted[k] = reader.rc /\ Through(executed, posted, k - 1)
LoadsFirst == reader.clears # {} => reader.loads = {}

Inv ==
  /\ Types /\ LastPosted /\ LoadsFirst
  /\ Through(executed, posted, Len(posted))
  /\ UnreadIsNew /\ HeldIsNew

-----------------------------------------------------------------------------
(* What keeps the mailbox and the two histories keeps the invariant, if it *)
(* neither ends nor begins a reading.                                      *)
LEMMA HistoriesKept ==
  ASSUME Inv, Types',
         UNCHANGED <<droid_rc, reader, posted, executed>>
  PROVE  Inv'
<1>1. LastPosted' /\ LoadsFirst' /\ Through(executed, posted, Len(posted))'
  BY DEF Inv, LastPosted, LoadsFirst
<1>2. UnreadIsNew'
  BY DEF Inv, UnreadIsNew, Unread
<1>3. HeldIsNew'
  BY DEF Inv, HeldIsNew, Holding
<1> QED
  BY <1>1, <1>2, <1>3 DEF Inv

(* The record of a caller after one of its steps. *)
LEMMA CallerRecord ==
  ASSUME Types, NEW t \in Threads
  PROVE  /\ caller[t].rc \in Requests /\ caller[t].stores \in SUBSET Both
         /\ Raw(caller[t].rc) \in Arguments
         /\ Scaled(droid_arg) \in Arguments
         /\ Scaled(Raw(caller[t].rc)) \in Arguments
<1>1. caller[t].rc \in Requests /\ caller[t].stores \in SUBSET Both
  BY DEF Types
<1>2. Raw(caller[t].rc) \in Arguments
  BY <1>1 DEF Raw, Requests, Arguments
<1>3. \A arg \in Arguments : Scaled(arg) \in Arguments
  BY DEF Scaled, Arguments
<1>4. droid_arg \in Arguments
  BY DEF Types
<1> QED
  BY <1>1, <1>2, <1>3, <1>4

LEMMA InitInv == MailInit => Inv
<1> SUFFICES ASSUME MailInit PROVE Inv
  OBVIOUS
<1>1. RC_NONE \in Requests /\ NoArg \in Arguments
  BY DEF RC_NONE, NoArg, Requests, Arguments
<1>2. Types
  BY <1>1 DEF MailInit, Types, NoCall, Polling
<1>3. LastPosted /\ UnreadIsNew
  BY DEF MailInit, LastPosted, UnreadIsNew
<1>4. LoadsFirst /\ HeldIsNew
  BY DEF MailInit, Polling, Both, LoadsFirst, HeldIsNew, Holding
<1>5. Through(executed, posted, Len(posted))
  <2>1. executed = <<>> /\ posted = <<>>
    BY DEF MailInit
  <2>2. Through(<<>>, <<>>, 0)
    <3> DEFINE at == [i \in 1..0 |-> 1]
    <3>1. Len(<<>>) = 0 /\ \A i \in 1..Len(<<>>) : FALSE
      OBVIOUS
    <3>2. at \in [1..Len(<<>>) -> 1..0]
      BY <3>1
    <3> HIDE DEF at
    <3>3. /\ \A i \in 1..Len(<<>>) : <<>>[at[i]] = <<>>[i].rc
          /\ \A i, j \in 1..Len(<<>>) : i < j => at[i] < at[j]
      BY <3>1, Zenon
    <3> QED
      BY <3>2, <3>3 DEF Through
  <2> QED
    BY <2>1, <2>2
<1> QED
  BY <1>2, <1>3, <1>4, <1>5 DEF Inv

-----------------------------------------------------------------------------
(* One lemma for each action *)

LEMMA CallStep ==
  ASSUME Inv, NEW t \in Threads, NEW jump \in BOOLEAN, Call(t, jump)
  PROVE  Inv'
<1>1. calls' \in Nat
  BY DEF Call, Inv, Types
<1>2. [id |-> calls', jump |-> jump] \in Requests
  BY <1>1 DEF Requests
<1>3. Types'
  BY <1>1, <1>2 DEF Call, Inv, Types, memVars
<1> QED
  BY <1>3, HistoriesKept DEF Call, memVars

LEMMA StoreArgStep ==
  ASSUME Inv, NEW t \in Threads, StoreArg(t)
  PROVE  Inv'
<1>1. /\ caller[t].stores \in SUBSET Both
      /\ Raw(caller[t].rc) \in Arguments
  BY CallerRecord DEF Inv
<1>2. caller' \in [Threads -> [rc: Requests, stores: SUBSET Both,
                              pc: {"store", "test", "scale", "done"}]]
  BY ZenonT(60), <1>1 DEF StoreArg, Stored, Inv, Types
<1>3. Types'
  BY <1>1, <1>2 DEF StoreArg, Inv, Types
<1> QED
  BY <1>3, HistoriesKept DEF StoreArg

LEMMA TestStep ==
  ASSUME Inv, NEW t \in Threads, Test(t)
  PROVE  Inv'
<1>1. caller' \in [Threads -> [rc: Requests, stores: SUBSET Both,
                              pc: {"store", "test", "scale", "done"}]]
  BY ZenonT(60) DEF Test, Inv, Types
<1>2. Types'
  BY <1>1 DEF Test, Inv, Types, memVars
<1> QED
  BY <1>2, HistoriesKept DEF Test, memVars

LEMMA ScaleStep ==
  ASSUME Inv, NEW t \in Threads, Scale(t)
  PROVE  Inv'
<1>1. caller' \in [Threads -> [rc: Requests, stores: SUBSET Both,
                              pc: {"store", "test", "scale", "done"}]]
  BY DEF Scale, Inv, Types
<1>2. droid_arg' \in Arguments
  BY CallerRecord DEF Scale, Inv
<1>3. Types'
  BY <1>1, <1>2 DEF Scale, Inv, Types
<1> QED
  BY <1>3, HistoriesKept DEF Scale

(* The store a later call makes may hide a request, but is itself new. *)
LEMMA StoreRcStep ==
  ASSUME Inv, NEW t \in Threads, StoreRc(t)
  PROVE  Inv'
<1>1. PICK r \in Requests : r = caller[t].rc
  BY CallerRecord DEF Inv
<1>2. /\ droid_rc' = r /\ posted' = Append(posted, r)
      /\ reader' = reader /\ executed' = executed
  BY <1>1 DEF StoreRc
<1>3. posted \in Seq(Requests) /\ executed \in Seq(Results)
  BY DEF Inv, Types
<1>4. /\ posted' \in Seq(Requests) /\ Len(posted') = Len(posted) + 1
      /\ posted'[Len(posted')] = r /\ Len(posted) \in Nat
      /\ \A i \in 1..Len(posted) : posted'[i] = posted[i]
      /\ posted' # <<>>
  BY <1>2, <1>3
<1>5. Types'
  <2>1. caller' \in [Threads -> [rc: Requests, stores: SUBSET Both,
                                pc: {"store", "test", "scale", "done"}]]
    BY ZenonT(60) DEF StoreRc, Stored, Inv, Types
  <2> QED
    BY <1>2, <1>4, <2>1 DEF StoreRc, Inv, Types
<1>6. Through(executed, posted', Len(posted))
  BY <1>2, <1>3, ThroughAppend DEF Inv
<1>7. Through(executed', posted', Len(posted'))
  BY <1>2, <1>3, <1>4, <1>6, ThroughMore
<1>8. UnreadIsNew'
  BY <1>2, <1>4, <1>6 DEF UnreadIsNew
<1>9. HeldIsNew'
  <2>1. SUFFICES ASSUME Holding'
                 PROVE  \E k \in 1..Len(posted') :
                          posted'[k] = reader'.rc /\ Through(executed', posted', k - 1)
    BY DEF HeldIsNew
  <2>2. PICK k \in 1..Len(posted) :
          posted[k] = reader.rc /\ Through(executed, posted, k - 1)
    BY <1>2, <2>1 DEF Inv, HeldIsNew, Holding
  <2>3. k \in 1..Len(posted') /\ posted'[k] = reader.rc /\ k - 1 \in Nat
    BY <1>4, <2>2
  <2>4. Through(executed, posted', k - 1)
    BY <1>2, <1>3, <2>2, <2>3, ThroughAppend
  <2> QED
    BY <1>2, <2>3, <2>4
<1>10. LastPosted' /\ LoadsFirst'
  BY <1>2, <1>4 DEF Inv, LastPosted, LoadsFirst
<1> QED
  BY <1>5, <1>7, <1>8, <1>9, <1>10 DEF Inv

LEMMA LoadRcStep ==
  ASSUME Inv, LoadRc
  PROVE  Inv'
<1>1. /\ "rc" \in reader.loads
      /\ UNCHANGED <<droid_rc, droid_arg, calls, caller, posted, executed>>
  BY DEF LoadRc, memVars
<1>2. posted \in Seq(Requests) /\ droid_rc \in Requests
  BY DEF Inv, Types
<1>3. reader.clears = {}
  BY <1>1 DEF Inv, LoadsFirst
<1>4. CASE droid_rc = RC_NONE
  <2>1. reader' = Polling
    BY <1>4 DEF LoadRc
  <2>2. Types'
    <3>1. RC_NONE \in Requests /\ NoArg \in Arguments
      BY DEF RC_NONE, NoArg, Requests, Arguments
    <3> QED
      BY <1>1, <2>1, <3>1 DEF Inv, Types, Polling
  <2>3. LastPosted' /\ LoadsFirst' /\ UnreadIsNew' /\ HeldIsNew'
    BY <1>1, <1>4, <2>1 DEF LastPosted, LoadsFirst, UnreadIsNew, HeldIsNew,
                            Holding, Polling, Both
  <2> QED
    BY <1>1, <2>2, <2>3 DEF Inv
<1>5. CASE droid_rc # RC_NONE
  <2>1. reader' = [reader EXCEPT !.loads = @ \ {"rc"}, !.rc = droid_rc]
    BY <1>5 DEF LoadRc
  <2>2. reader \in [loads: SUBSET Both, clears: SUBSET Both, rc: Requests,
                    arg: Arguments]
    BY DEF Inv, Types
  <2>3. /\ reader'.loads = reader.loads \ {"rc"} /\ reader'.clears = {}
        /\ reader'.rc = droid_rc
        /\ reader' \in [loads: SUBSET Both, clears: SUBSET Both, rc: Requests,
                         arg: Arguments]
    BY <1>2, <1>3, <2>1, <2>2
  <2>4. Types'
    BY <1>1, <2>3 DEF Inv, Types
  <2>5. LastPosted' /\ LoadsFirst' /\ UnreadIsNew'
    BY <1>1, <2>3 DEF Inv, LastPosted, LoadsFirst, UnreadIsNew, Unread
  <2>6. HeldIsNew'
    <3>1. Len(posted) \in 1..Len(posted) /\ posted[Len(posted)] = droid_rc
      BY <1>2, <1>5 DEF Inv, LastPosted
    <3>2. Through(executed, posted, Len(posted) - 1)
      BY <1>1, <1>5 DEF Inv, UnreadIsNew, Unread
    <3> QED
      BY <1>1, <2>3, <3>1, <3>2 DEF HeldIsNew
  <2> QED
    BY <1>1, <2>4, <2>5, <2>6 DEF Inv
<1> QED
  BY <1>4, <1>5

LEMMA LoadArgStep ==
  ASSUME Inv, LoadArg
  PROVE  Inv'
<1>1. /\ "arg" \in reader.loads
      /\ UNCHANGED <<droid_rc, droid_arg, calls, caller, posted, executed>>
      /\ reader' = [reader EXCEPT !.loads = @ \ {"arg"}, !.arg = droid_arg]
  BY DEF LoadArg, memVars
<1>2. reader \in [loads: SUBSET Both, clears: SUBSET Both, rc: Requests,
                  arg: Arguments]
  BY DEF Inv, Types
<1>3. /\ "rc" \in reader'.loads <=> "rc" \in reader.loads
      /\ reader'.clears = reader.clears /\ reader'.rc = reader.rc
      /\ reader' \in [loads: SUBSET Both, clears: SUBSET Both, rc: Requests,
                       arg: Arguments]
  BY <1>1, <1>2 DEF Inv, Types
<1>4. Types'
  BY <1>1, <1>3 DEF Inv, Types
<1>5. LastPosted' /\ LoadsFirst'
  BY <1>1, <1>3 DEF Inv, LastPosted, LoadsFirst
<1>6. UnreadIsNew'
  BY <1>1, <1>3 DEF Inv, UnreadIsNew, Unread
<1>7. HeldIsNew'
  BY <1>1, <1>3 DEF Inv, HeldIsNew, Holding
<1> QED
  BY <1>1, <1>4, <1>5, <1>6, <1>7 DEF Inv

LEMMA ReturnStep ==
  ASSUME Inv, Return
  PROVE  Inv'
<1> DEFINE x == [rc |-> reader.rc, arg |-> reader.arg]
<1>1. /\ reader.loads = {} /\ reader.clears = {}
      /\ executed' = Append(executed, x)
      /\ reader' = [reader EXCEPT !.clears = Both]
      /\ UNCHANGED <<droid_rc, droid_arg, calls, caller, posted>>
  BY DEF Return, memVars
<1>2. /\ reader \in [loads: SUBSET Both, clears: SUBSET Both, rc: Requests,
                     arg: Arguments]
      /\ posted \in Seq(Requests) /\ executed \in Seq(Results)
  BY DEF Inv, Types
<1>3. x \in Results /\ executed' \in Seq(Results)
  BY <1>1, <1>2 DEF Results
<1>4. /\ reader' \in [loads: SUBSET Both, clears: SUBSET Both, rc: Requests,
                      arg: Arguments]
      /\ reader'.loads = {} /\ reader'.clears = Both
  BY <1>1, <1>2
<1>5. Types'
  BY <1>1, <1>3, <1>4 DEF Inv, Types
<1>6. PICK k \in 1..Len(posted) :
        posted[k] = reader.rc /\ Through(executed, posted, k - 1)
  BY <1>1 DEF Inv, HeldIsNew, Holding
<1>7. Through(executed', posted, k)
  BY <1>1, <1>2, <1>3, <1>6, ThroughNext
<1>8. Through(executed', posted, Len(posted))
  BY <1>2, <1>3, <1>6, <1>7, ThroughMore
<1>9. LastPosted' /\ LoadsFirst' /\ UnreadIsNew' /\ HeldIsNew'
  BY <1>1, <1>4 DEF Inv, LastPosted, LoadsFirst, UnreadIsNew, Unread,
                    HeldIsNew, Holding, Both
<1> QED
  BY <1>1, <1>5, <1>8, <1>9 DEF Inv

LEMMA ClearRcStep ==
  ASSUME Inv, ClearRc
  PROVE  Inv'
<1>1. /\ droid_rc' = RC_NONE /\ "rc" \in reader.clears /\ Cleared("rc")
      /\ UNCHANGED <<droid_arg, calls, caller, posted, executed>>
  BY DEF ClearRc
<1>2. reader \in [loads: SUBSET Both, clears: SUBSET Both, rc: Requests,
                  arg: Arguments]
  BY DEF Inv, Types
<1>3. RC_NONE \in Requests /\ NoArg \in Arguments
  BY DEF RC_NONE, NoArg, Requests, Arguments
<1>4. reader' \in [loads: SUBSET Both, clears: SUBSET Both, rc: Requests,
                   arg: Arguments]
  BY <1>1, <1>2, <1>3 DEF Cleared, Polling
<1>5. Types'
  BY <1>1, <1>3, <1>4 DEF Inv, Types
<1>6. LoadsFirst' /\ HeldIsNew'
  <2>1. reader.loads = {}
    BY <1>1 DEF Inv, LoadsFirst
  <2>2. CASE reader.clears = {"rc"}
    BY <1>1, <2>2 DEF Cleared, Polling, Both, LoadsFirst, HeldIsNew, Holding
  <2>3. CASE reader.clears # {"rc"}
    <3>1. reader'.loads = {} /\ reader'.clears # {}
      BY <1>1, <1>2, <2>1, <2>3 DEF Cleared
    <3> QED
      BY <3>1 DEF LoadsFirst, HeldIsNew, Holding
  <2> QED
    BY <2>2, <2>3
<1>7. LastPosted' /\ UnreadIsNew'
  BY <1>1 DEF LastPosted, UnreadIsNew
<1> QED
  BY <1>1, <1>5, <1>6, <1>7 DEF Inv

LEMMA ClearArgStep ==
  ASSUME Inv, ClearArg
  PROVE  Inv'
<1>1. /\ droid_arg' = NoArg /\ "arg" \in reader.clears /\ Cleared("arg")
      /\ UNCHANGED <<droid_rc, calls, caller, posted, executed>>
  BY DEF ClearArg
<1>2. reader \in [loads: SUBSET Both, clears: SUBSET Both, rc: Requests,
                  arg: Arguments]
  BY DEF Inv, Types
<1>3. RC_NONE \in Requests /\ NoArg \in Arguments
  BY DEF RC_NONE, NoArg, Requests, Arguments
<1>4. reader' \in [loads: SUBSET Both, clears: SUBSET Both, rc: Requests,
                   arg: Arguments]
  BY <1>1, <1>2, <1>3 DEF Cleared, Polling
<1>5. Types'
  BY <1>1, <1>3, <1>4 DEF Inv, Types
<1>6. LastPosted'
  BY <1>1 DEF Inv, LastPosted
<1>7. reader.loads = {}
  BY <1>1 DEF Inv, LoadsFirst
<1>8. CASE reader.clears = {"arg"}
  <2>1. Unread /\ reader' = Polling
    BY <1>1, <1>8 DEF Unread, Cleared
  <2>2. UnreadIsNew'
    BY <1>1, <2>1 DEF Inv, UnreadIsNew
  <2>3. LoadsFirst' /\ HeldIsNew'
    BY <2>1 DEF Polling, Both, LoadsFirst, HeldIsNew, Holding
  <2> QED
    BY <1>1, <1>5, <1>6, <2>2, <2>3 DEF Inv
<1>9. CASE reader.clears # {"arg"}
  <2>1. /\ reader'.loads = {} /\ reader'.clears # {}
        /\ "rc" \in reader'.clears <=> "rc" \in reader.clears
    BY <1>1, <1>2, <1>7, <1>9 DEF Cleared
  <2>2. UnreadIsNew'
    BY <1>1, <1>7, <2>1 DEF Inv, UnreadIsNew, Unread
  <2>3. LoadsFirst' /\ HeldIsNew'
    BY <2>1 DEF LoadsFirst, HeldIsNew, Holding
  <2> QED
    BY <1>1, <1>5, <1>6, <2>2, <2>3 DEF Inv
<1> QED
  BY <1>8, <1>9

LEMMA StutterStep ==
  ASSUME Inv, UNCHANGED mail_vars
  PROVE  Inv'
<1>1. UNCHANGED <<calls, droid_rc, droid_arg, caller, reader, posted, executed>>
  BY DEF mail_vars, memVars
<1>2. Types'
  BY <1>1 DEF Inv, Types
<1> QED
  BY <1>1, <1>2, HistoriesKept

-----------------------------------------------------------------------------
(* In every state what ctl_read() holds or will find was posted after all  *)
(* it has returned.                                                        *)
THEOREM InductiveInvariant == MailSpec => []Inv
<1>1. Inv /\ [MailNext]_mail_vars => Inv'
  <2> SUFFICES ASSUME Inv, [MailNext]_mail_vars PROVE Inv'
    OBVIOUS
  <2>1. ASSUME NEW t \in Threads, NEW jump \in BOOLEAN, Call(t, jump)
        PROVE  Inv'
    BY <2>1, CallStep
  <2>2. ASSUME NEW t \in Threads, Sender(t)
        PROVE  Inv'
    BY <2>2, StoreRcStep, StoreArgStep, TestStep, ScaleStep DEF Sender
  <2>3. CASE Reader
    BY <2>3, LoadRcStep, LoadArgStep, ReturnStep, ClearRcStep, ClearArgStep
       DEF Reader
  <2>4. CASE UNCHANGED mail_vars
    BY <2>4, StutterStep
  <2> QED
    BY <2>1, <2>2, <2>3, <2>4 DEF MailNext
<1> QED
  BY InitInv, <1>1, PTL DEF MailSpec

(* However many Java threads call controlTimidity(), and whatever they     *)
(* overwrite, ctl_read() returns each request once at most, and in the     *)
(* order in which the requests reached the mailbox.                        *)
THEOREM ExecutedOnceInOrder == MailSpec => []OnceInOrder
<1>1. Inv => OnceInOrder
  BY DEF Inv, Through, OnceInOrder
<1> QED
  BY InductiveInvariant, <1>1, PTL

-----------------------------------------------------------------------------
(* One caller that waits for timidityReady(): the n-th call, the n-th      *)
(* request posted and the n-th executed are the same.                      *)

Alone(t) == use.asks /\ use.callers = {t}
Taken == "rc" \in reader.clears

CallerAlone(t) ==
  /\ \A u \in Threads : u # t => caller[u].stores = {} /\ caller[u].pc = "done"
  /\ caller[t].pc # "done" => caller[t].rc.id = calls
  /\ caller[t].stores # {} => caller[t].pc = "store"

Numbered(t) ==
  /\ IF "rc" \in caller[t].stores
     THEN droid_rc = RC_NONE /\ calls = Len(posted) + 1
     ELSE calls = Len(posted)
  /\ \A i \in 1..Len(posted) : posted[i].id = i
  /\ Len(executed) <= Len(posted)
  /\ \A j \in 1..Len(executed) : executed[j].rc = posted[j]

(* The request in the mailbox is the last one posted, and the reader has   *)
(* returned it only when it is about to clear it.                          *)
InMailbox ==
  IF droid_rc = RC_NONE
  THEN Len(posted) = Len(executed) /\ ~Taken /\ ~Holding
  ELSE /\ Len(posted) >= 1 /\ droid_rc = posted[Len(posted)]
       /\ Len(posted) = Len(executed) + (IF Taken THEN 0 ELSE 1)
       /\ Holding => reader.rc = droid_rc

(* What may be taken for the argument of the next request to be executed.  *)
Recent(n, arg) == arg.of \in {0, n, n + 1}
ArgumentsRecent ==
  /\ "arg" \notin reader.clears => Recent(Len(executed), droid_arg)
  /\ reader.clears = {} /\ "arg" \notin reader.loads =>
       Recent(Len(executed), reader.arg)
  /\ \A i \in 1..Len(executed) :
       executed[i].arg.of \in {0, executed[i].rc.id - 1, executed[i].rc.id}

AloneInv(t) ==
  CallerAlone(t) /\ Numbered(t) /\ InMailbox /\ ArgumentsRecent

LEMMA InitAlone ==
  ASSUME MailInit, NEW t \in Threads
  PROVE  AloneInv(t)
<1>1. /\ calls = 0 /\ droid_rc = RC_NONE /\ droid_arg = NoArg
      /\ caller = [u \in Threads |-> NoCall] /\ reader = Polling
      /\ posted = <<>> /\ executed = <<>>
  BY DEF MailInit
<1>2. Len(posted) = 0 /\ Len(executed) = 0
  BY <1>1
<1>3. CallerAlone(t)
  BY <1>1 DEF CallerAlone, NoCall
<1>4. Numbered(t)
  BY <1>1, <1>2 DEF Numbered, NoCall
<1>5. InMailbox
  BY <1>1, <1>2 DEF InMailbox, Taken, Holding, Polling, Both
<1>6. ArgumentsRecent
  BY <1>1, <1>2 DEF ArgumentsRecent, Recent, Polling, NoArg, Both
<1> QED
  BY <1>3, <1>4, <1>5, <1>6 DEF AloneInv

(* The numbers of calls and requests, as the steps below use them: a call  *)
(* under way is the request that is executed next, or the last one.        *)
LEMMA CallsCount ==
  ASSUME Inv, NEW t \in Threads, AloneInv(t)
  PROVE  /\ calls \in Nat /\ Len(posted) \in Nat /\ Len(executed) \in Nat
         /\ calls = Len(executed) \/ calls = Len(executed) + 1
<1>1. calls \in Nat /\ Len(posted) \in Nat /\ Len(executed) \in Nat
  BY DEF Inv, Types
<1>2. CASE "rc" \in caller[t].stores
  BY <1>1, <1>2 DEF AloneInv, Numbered, InMailbox
<1>3. CASE "rc" \notin caller[t].stores
  BY <1>1, <1>3 DEF AloneInv, Numbered, InMailbox
<1> QED
  BY <1>1, <1>2, <1>3

LEMMA AloneCall ==
  ASSUME Inv, NEW t \in Threads, Alone(t), AloneInv(t),
         NEW u \in Threads, NEW jump \in BOOLEAN, Call(u, jump)
  PROVE  AloneInv(t)'
<1>1. /\ u = t /\ droid_rc = RC_NONE /\ calls' = calls + 1 /\ caller[t].pc = "done"
      /\ caller' = [caller EXCEPT ![t] = [rc |-> [id |-> calls', jump |-> jump],
                                         stores |-> Both, pc |-> "store"]]
      /\ UNCHANGED <<droid_rc, droid_arg, reader, posted, executed>>
  BY DEF Call, Alone, memVars
<1>2. /\ caller'[t].rc.id = calls' /\ caller'[t].stores = Both /\ caller'[t].pc = "store"
      /\ \A v \in Threads : v # t => caller'[v] = caller[v]
  BY <1>1 DEF Inv, Types
<1>3. "rc" \notin caller[t].stores
  BY <1>1 DEF AloneInv, CallerAlone
<1>4. CallerAlone(t)'
  BY <1>2 DEF AloneInv, CallerAlone
<1>5. Numbered(t)'
  BY <1>1, <1>2, <1>3 DEF AloneInv, Numbered, Both
<1>6. InMailbox' /\ ArgumentsRecent'
  BY <1>1 DEF AloneInv, InMailbox, Taken, Holding, ArgumentsRecent
<1> QED
  BY <1>4, <1>5, <1>6 DEF AloneInv

LEMMA AloneStoreRc ==
  ASSUME Inv, NEW t \in Threads, Alone(t), AloneInv(t),
         NEW u \in Threads, StoreRc(u)
  PROVE  AloneInv(t)'
<1>1. u = t
  BY DEF StoreRc, AloneInv, CallerAlone
<1>2. PICK r \in Requests : r = caller[t].rc
  BY CallerRecord DEF Inv
<1>3. /\ "rc" \in caller[t].stores
      /\ droid_rc' = r /\ posted' = Append(posted, r)
      /\ caller' = [caller EXCEPT ![t].stores = @ \ {"rc"},
                       ![t].pc = IF caller[t].stores = {"rc"} THEN "test" ELSE @]
      /\ UNCHANGED <<calls, droid_arg, reader, executed>>
  BY <1>1, <1>2 DEF StoreRc, Stored
<1>4. /\ caller'[t].rc = r /\ "rc" \notin caller'[t].stores
      /\ caller'[t].stores # {} => caller'[t].pc = caller[t].pc
      /\ \A v \in Threads : v # t => caller'[v] = caller[v]
  BY <1>2, <1>3 DEF Inv, Types
<1>5. /\ droid_rc = RC_NONE /\ r.id = calls /\ calls = Len(posted) + 1
      /\ Len(posted) = Len(executed) /\ ~Taken /\ ~Holding
  BY <1>2, <1>3 DEF AloneInv, CallerAlone, Numbered, InMailbox
<1>6. posted \in Seq(Requests) /\ executed \in Seq(Results)
  BY DEF Inv, Types
<1>7. /\ Len(posted') = Len(posted) + 1 /\ Len(posted) \in Nat
      /\ posted'[Len(posted')] = r
      /\ \A i \in 1..Len(posted) : posted'[i] = posted[i]
  BY <1>3, <1>6
<1>8. r # RC_NONE
  BY <1>5, <1>7 DEF RC_NONE
<1>9. CallerAlone(t)'
  BY <1>3, <1>4, <1>5 DEF AloneInv, CallerAlone
<1>10. Numbered(t)'
  <2>1. \A i \in 1..Len(posted') : posted'[i].id = i
    <3>1. \A i \in 1..Len(posted') : i = Len(posted') \/ i \in 1..Len(posted)
      BY <1>7
    <3> QED
      BY <1>5, <1>7, <3>1 DEF AloneInv, Numbered
  <2>2. \A j \in 1..Len(executed') : executed'[j].rc = posted'[j]
    BY <1>3, <1>5, <1>7 DEF AloneInv, Numbered
  <2> QED
    BY <1>3, <1>4, <1>5, <1>7, <2>1, <2>2 DEF Numbered
<1>11. InMailbox'
  <2>1. ~Taken' /\ ~Holding'
    BY <1>3, <1>5 DEF Taken, Holding
  <2> QED
    BY <1>3, <1>5, <1>7, <1>8, <2>1 DEF InMailbox
<1>12. ArgumentsRecent'
  BY <1>3 DEF AloneInv, ArgumentsRecent
<1> QED
  BY <1>9, <1>10, <1>11, <1>12 DEF AloneInv

LEMMA AloneStoreArg ==
  ASSUME Inv, NEW t \in Threads, Alone(t), AloneInv(t),
         NEW u \in Threads, StoreArg(u)
  PROVE  AloneInv(t)'
<1>1. u = t
  BY DEF StoreArg, AloneInv, CallerAlone
<1>2. /\ "arg" \in caller[t].stores /\ droid_arg' = Raw(caller[t].rc)
      /\ caller' = [caller EXCEPT ![t].stores = @ \ {"arg"},
                       ![t].pc = IF caller[t].stores = {"arg"} THEN "test" ELSE @]
      /\ UNCHANGED <<calls, droid_rc, reader, posted, executed>>
  BY <1>1 DEF StoreArg, Stored
<1>3. /\ caller'[t].rc = caller[t].rc
      /\ "rc" \in caller'[t].stores <=> "rc" \in caller[t].stores
      /\ caller'[t].stores # {} => caller'[t].pc = caller[t].pc
      /\ \A v \in Threads : v # t => caller'[v] = caller[v]
  BY <1>2 DEF Inv, Types
<1>4. caller[t].rc.id = calls /\ caller[t].stores # {} /\ caller[t].pc = "store"
  BY <1>2 DEF AloneInv, CallerAlone
<1>5. CallerAlone(t)'
  BY <1>2, <1>3, <1>4 DEF AloneInv, CallerAlone
<1>6. Numbered(t)' /\ InMailbox'
  BY <1>2, <1>3 DEF AloneInv, Numbered, InMailbox, Taken, Holding
<1>7. droid_arg'.of = calls
  BY <1>2, <1>4 DEF Raw
<1>8. ArgumentsRecent'
  BY <1>2, <1>7, CallsCount DEF AloneInv, ArgumentsRecent, Recent
<1> QED
  BY <1>5, <1>6, <1>8 DEF AloneInv

LEMMA AloneTestScale ==
  ASSUME Inv, NEW t \in Threads, Alone(t), AloneInv(t),
         NEW u \in Threads, Test(u) \/ Scale(u)
  PROVE  AloneInv(t)'
<1>1. u = t
  BY DEF Test, Scale, AloneInv, CallerAlone
<1>2. /\ caller[t].pc \in {"test", "scale"}
      /\ \E p \in {"scale", "done"} : caller' = [caller EXCEPT ![t].pc = p]
      /\ droid_arg' \in {droid_arg, Scaled(droid_arg), Scaled(Raw(caller[t].rc))}
      /\ UNCHANGED <<calls, droid_rc, reader, posted, executed>>
  BY <1>1 DEF Test, Scale, memVars
<1>3. /\ caller'[t].rc = caller[t].rc /\ caller'[t].stores = caller[t].stores
      /\ \A v \in Threads : v # t => caller'[v] = caller[v]
  BY <1>2 DEF Inv, Types
<1>4. caller[t].rc.id = calls /\ caller[t].stores = {}
  BY <1>2 DEF AloneInv, CallerAlone
<1>5. CallerAlone(t)'
  BY <1>2, <1>3, <1>4 DEF AloneInv, CallerAlone
<1>6. Numbered(t)' /\ InMailbox'
  BY <1>2, <1>3 DEF AloneInv, Numbered, InMailbox, Taken, Holding
<1>7. droid_arg'.of \in {droid_arg.of, calls}
  <2>1. \A arg \in Arguments : Scaled(arg).of = arg.of
    BY DEF Scaled, Arguments
  <2>2. droid_arg \in Arguments /\ Raw(caller[t].rc) \in Arguments
    BY CallerRecord DEF Inv, Types
  <2>3. Raw(caller[t].rc).of = calls
    BY <1>4 DEF Raw
  <2> QED
    BY <1>2, <2>1, <2>2, <2>3
<1>8. ArgumentsRecent'
  BY <1>2, <1>7, CallsCount DEF AloneInv, ArgumentsRecent, Recent
<1> QED
  BY <1>5, <1>6, <1>8 DEF AloneInv

(* The steps of ctl_read() leave the caller alone. *)
LEMMA CallerKept ==
  ASSUME NEW t \in Threads, AloneInv(t), UNCHANGED <<caller, calls>>
  PROVE  CallerAlone(t)'
BY DEF AloneInv, CallerAlone

LEMMA AloneLoads ==
  ASSUME Inv, NEW t \in Threads, Alone(t), AloneInv(t), LoadRc \/ LoadArg
  PROVE  AloneInv(t)'
<1>1. /\ reader.loads # {} /\ reader.clears = {}
      /\ UNCHANGED <<droid_rc, droid_arg, calls, caller, posted, executed>>
  BY DEF LoadRc, LoadArg, memVars, Inv, LoadsFirst
<1>2. reader \in [loads: SUBSET Both, clears: SUBSET Both, rc: Requests,
                  arg: Arguments]
  BY DEF Inv, Types
<1>3. CallerAlone(t)' /\ Numbered(t)'
  BY <1>1, CallerKept DEF AloneInv, Numbered
<1>4. CASE LoadRc /\ droid_rc = RC_NONE
  <2>1. reader' = Polling
    BY <1>4 DEF LoadRc
  <2>2. InMailbox' /\ ArgumentsRecent'
    BY <1>1, <1>4, <2>1 DEF AloneInv, InMailbox, Taken, Holding, ArgumentsRecent,
                            Polling, Both
  <2> QED
    BY <1>3, <2>2 DEF AloneInv
<1>5. CASE LoadRc /\ droid_rc # RC_NONE
  <2>1. /\ reader'.loads = reader.loads \ {"rc"} /\ reader'.clears = {}
        /\ reader'.rc = droid_rc /\ reader'.arg = reader.arg
    BY <1>1, <1>2, <1>5 DEF LoadRc
  <2>2. ~Taken /\ ~Taken'
    BY <1>1, <2>1 DEF Taken
  <2>3. InMailbox'
    BY <1>1, <1>5, <2>1, <2>2 DEF AloneInv, InMailbox
  <2>4. ArgumentsRecent'
    BY <1>1, <2>1 DEF AloneInv, ArgumentsRecent
  <2> QED
    BY <1>3, <2>3, <2>4 DEF AloneInv
<1>6. CASE LoadArg
  <2>1. /\ "rc" \in reader'.loads <=> "rc" \in reader.loads
        /\ reader'.clears = {}
        /\ reader'.rc = reader.rc /\ reader'.arg = droid_arg
    BY <1>1, <1>2, <1>6 DEF LoadArg
  <2>2. InMailbox'
    BY <1>1, <2>1 DEF AloneInv, InMailbox, Taken, Holding
  <2>3. ArgumentsRecent'
    BY <1>1, <2>1 DEF AloneInv, ArgumentsRecent
  <2> QED
    BY <1>3, <2>2, <2>3 DEF AloneInv
<1> QED
  BY <1>4, <1>5, <1>6

LEMMA AloneReturn ==
  ASSUME Inv, NEW t \in Threads, Alone(t), AloneInv(t), Return
  PROVE  AloneInv(t)'
<1> DEFINE x == [rc |-> reader.rc, arg |-> reader.arg]
<1>1. /\ reader.loads = {} /\ reader.clears = {}
      /\ executed' = Append(executed, x)
      /\ reader' = [reader EXCEPT !.clears = Both]
      /\ UNCHANGED <<droid_rc, droid_arg, calls, caller, posted>>
  BY DEF Return, memVars
<1>2. /\ reader \in [loads: SUBSET Both, clears: SUBSET Both, rc: Requests,
                     arg: Arguments]
      /\ posted \in Seq(Requests) /\ executed \in Seq(Results)
  BY DEF Inv, Types
<1>3. x \in Results
  BY <1>2 DEF Results
<1>4. /\ Len(executed') = Len(executed) + 1 /\ Len(executed) \in Nat
      /\ executed'[Len(executed')] = x /\ x.rc = reader.rc /\ x.arg = reader.arg
      /\ \A i \in 1..Len(executed) : executed'[i] = executed[i]
      /\ \A i \in 1..Len(executed') : i = Len(executed') \/ i \in 1..Len(executed)
  BY <1>1, <1>2, <1>3
<1>5. Holding /\ ~Taken
  BY <1>1 DEF Holding, Taken
<1>6. /\ droid_rc # RC_NONE /\ reader.rc = droid_rc
      /\ Len(posted) = Len(executed') /\ droid_rc = posted[Len(posted)]
      /\ Len(posted) \in Nat /\ Len(posted) >= 1
  BY <1>2, <1>4, <1>5 DEF AloneInv, InMailbox
<1>7. /\ reader'.loads = {} /\ reader'.clears = Both
  BY <1>1, <1>2
<1>8. CallerAlone(t)'
  BY <1>1, CallerKept
<1>9. Numbered(t)'
  <2>1. \A j \in 1..Len(executed') : executed'[j].rc = posted'[j]
    BY <1>1, <1>4, <1>6 DEF AloneInv, Numbered
  <2>2. Len(executed') <= Len(posted')
    BY <1>1, <1>6
  <2> QED
    BY <1>1, <2>1, <2>2 DEF AloneInv, Numbered
<1>10. InMailbox'
  <2>1. Taken' /\ ~Holding'
    BY <1>7 DEF Taken, Holding, Both
  <2> QED
    BY <1>1, <1>4, <1>6, <2>1 DEF InMailbox
<1>11. ArgumentsRecent'
  <2>1. reader.rc.id = Len(executed')
    BY <1>6 DEF AloneInv, Numbered
  <2>2. reader.arg.of \in {0, Len(executed), Len(executed) + 1}
    BY <1>1 DEF AloneInv, ArgumentsRecent, Recent
  <2>3. x.arg.of \in {0, x.rc.id - 1, x.rc.id}
    BY <1>4, <2>1, <2>2
  <2>4. \A i \in 1..Len(executed') :
          executed'[i].arg.of \in {0, executed'[i].rc.id - 1, executed'[i].rc.id}
    BY <1>4, <2>3 DEF AloneInv, ArgumentsRecent
  <2>5. reader'.clears # {} /\ "arg" \in reader'.clears
    BY <1>7 DEF Both
  <2> QED
    BY <2>4, <2>5 DEF ArgumentsRecent
<1> QED
  BY <1>8, <1>9, <1>10, <1>11 DEF AloneInv

LEMMA AloneClears ==
  ASSUME Inv, NEW t \in Threads, Alone(t), AloneInv(t), ClearRc \/ ClearArg
  PROVE  AloneInv(t)'
<1>1. /\ reader.clears # {} /\ reader.loads = {}
      /\ UNCHANGED <<calls, caller, posted, executed>>
  BY DEF ClearRc, ClearArg, Inv, LoadsFirst
<1>2. reader \in [loads: SUBSET Both, clears: SUBSET Both, rc: Requests,
                  arg: Arguments]
  BY DEF Inv, Types
<1>3. CallerAlone(t)'
  BY <1>1, CallerKept
<1>4. CASE ClearRc
  <2>1. /\ droid_rc' = RC_NONE /\ droid_arg' = droid_arg /\ Taken
        /\ Cleared("rc")
    BY <1>4 DEF ClearRc, Taken
  <2>2. droid_rc # RC_NONE /\ Len(posted) = Len(executed)
    BY <2>1 DEF AloneInv, InMailbox, Inv, Types
  <2>3. Numbered(t)'
    BY <1>1, <2>1, <2>2 DEF AloneInv, Numbered
  <2>4. ~Taken' /\ ~Holding'
    <3>1. CASE reader.clears = {"rc"}
      BY <2>1, <3>1 DEF Cleared, Polling, Both, Taken, Holding
    <3>2. CASE reader.clears # {"rc"}
      <4>1. reader'.clears = reader.clears \ {"rc"} /\ reader'.loads = {}
        BY <1>1, <1>2, <2>1, <3>2 DEF Cleared
      <4> QED
        BY <1>1, <3>2, <4>1 DEF Taken, Holding
    <3> QED
      BY <3>1, <3>2
  <2>5. InMailbox'
    BY <1>1, <2>1, <2>2, <2>4 DEF InMailbox
  <2>6. ArgumentsRecent'
    <3>1. CASE reader.clears = {"rc"}
      BY <1>1, <2>1, <3>1 DEF Cleared, Polling, Both, AloneInv, ArgumentsRecent
    <3>2. CASE reader.clears # {"rc"}
      <4>1. reader'.clears = reader.clears \ {"rc"} /\ reader'.clears # {}
        BY <1>1, <1>2, <2>1, <3>2 DEF Cleared
      <4> QED
        BY <1>1, <2>1, <4>1 DEF AloneInv, ArgumentsRecent
    <3> QED
      BY <3>1, <3>2
  <2> QED
    BY <1>3, <2>3, <2>5, <2>6 DEF AloneInv
<1>5. CASE ClearArg
  <2>1. /\ droid_rc' = droid_rc /\ droid_arg' = NoArg /\ "arg" \in reader.clears
        /\ Cleared("arg")
    BY <1>5 DEF ClearArg
  <2>2. Numbered(t)'
    BY <1>1, <2>1 DEF AloneInv, Numbered
  <2>3. Taken' = Taken /\ ~Holding /\ ~Holding'
    <3>1. CASE reader.clears = {"arg"}
      BY <2>1, <3>1 DEF Cleared, Polling, Both, Taken, Holding
    <3>2. CASE reader.clears # {"arg"}
      <4>1. reader'.clears = reader.clears \ {"arg"} /\ reader'.loads = {}
        BY <1>1, <1>2, <2>1, <3>2 DEF Cleared
      <4> QED
        BY <1>1, <2>1, <3>2, <4>1 DEF Taken, Holding
    <3> QED
      BY <3>1, <3>2
  <2>4. InMailbox'
    BY <1>1, <2>1, <2>3 DEF AloneInv, InMailbox
  <2>5. ArgumentsRecent'
    <3>1. Recent(Len(executed), NoArg)
      BY DEF Recent, NoArg
    <3>2. reader'.clears = {} => reader' = Polling
      BY <1>2, <2>1 DEF Cleared
    <3> QED
      BY <1>1, <2>1, <3>1, <3>2 DEF AloneInv, ArgumentsRecent, Polling, Both
  <2> QED
    BY <1>3, <2>2, <2>4, <2>5 DEF AloneInv
<1> QED
  BY <1>4, <1>5

(* A caller that waits for timidityReady() loses none of its requests, in  *)
(* whichever order the accesses of the two threads take place.  Its        *)
(* arguments it may lose: a request is carried out with its own, with that *)
(* of the call before or with 0, but with none of an earlier call.         *)
THEOREM CallerLosesNothing == MailSpec => []NothingLost
<1> DEFINE Sole == \A t \in Threads : Alone(t) => AloneInv(t)
<1>1. MailInit => Sole
  BY InitAlone
<1>2. Inv /\ Sole /\ [MailNext]_mail_vars => Sole'
  <2> SUFFICES ASSUME Inv, Sole, [MailNext]_mail_vars, NEW t \in Threads, Alone(t)'
               PROVE  AloneInv(t)'
    OBVIOUS
  <2>1. use' = use
    BY DEF MailNext, Call, Sender, StoreRc, StoreArg, Test, Scale, Reader, LoadRc,
           LoadArg, Return, ClearRc, ClearArg, mail_vars
  <2>2. Alone(t) /\ AloneInv(t)
    BY <2>1 DEF Alone
  <2>3. ASSUME NEW u \in Threads, NEW jump \in BOOLEAN, Call(u, jump)
        PROVE  AloneInv(t)'
    BY <2>2, <2>3, AloneCall
  <2>4. ASSUME NEW u \in Threads, Sender(u)
        PROVE  AloneInv(t)'
    BY <2>2, <2>4, AloneStoreRc, AloneStoreArg, AloneTestScale DEF Sender
  <2>5. CASE Reader
    BY <2>2, <2>5, AloneLoads, AloneReturn, AloneClears DEF Reader
  <2>6. CASE UNCHANGED mail_vars
    BY <2>2, <2>6 DEF mail_vars, memVars, AloneInv, CallerAlone, Numbered, InMailbox,
                      Taken, Holding, ArgumentsRecent
  <2> QED
    BY <2>3, <2>4, <2>5, <2>6 DEF MailNext
<1>3. Inv /\ Sole => NothingLost
  <2> SUFFICES ASSUME Inv, NEW t \in Threads, AloneInv(t)
               PROVE  /\ \A i \in 1..Len(posted) :
                           \/ \E j \in 1..Len(executed) : executed[j].rc = posted[i]
                           \/ droid_rc = posted[i] \/ reader.rc = posted[i]
                      /\ ArgumentsRecent
    BY DEF Alone, OneCaller, NothingLost, ArgumentsRecent
  <2>1. Len(posted) \in Nat /\ Len(executed) \in Nat
    BY DEF Inv, Types
  <2>2. ASSUME NEW i \in 1..Len(posted), i > Len(executed)
        PROVE  droid_rc = posted[i]
    BY <2>1, <2>2 DEF AloneInv, InMailbox
  <2> QED
    BY <2>1, <2>2 DEF AloneInv, Numbered
<1> HIDE DEF Sole
<1> QED
  BY <1>1, <1>2, <1>3, InductiveInvariant, PTL DEF MailSpec
=============================================================================
