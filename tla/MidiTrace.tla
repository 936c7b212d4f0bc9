----------------------------- MODULE MidiTrace -----------------------------
(***************************************************************************)
(* The delayed display events of timidity/miditrace.c: an event that is    *)
(* played at some sample waits in a list until that sample is heard, which *)
(* trace_loop() finds out; trace_flush() shows all that wait.              *)
(*                                                                         *)
(* Events are numbered in the order they were pushed.  List nodes are      *)
(* numbers; those the pool has handed out since it was last reused are     *)
(* 1..pool.  What the synthesizer and the device do to the two clocks, and *)
(* skip_to(), are here as far as the list depends on them.                 *)
(***************************************************************************)
EXTENDS Integers, Sequences

CONSTANTS
  Modes,        \* the ways the trace is set up, see Mode
  MaxTime,      \* bound: samples of a song
  MaxEvents,    \* bound: events pushed
  MaxStall      \* bound: samples an event is brought forward while none is heard

Mode == [trace_playing: BOOLEAN,  \* of ctl
         can_trace: BOOLEAN,      \* PF_CAN_TRACE of play_mode
         clock: BOOLEAN]          \* aq_samples() knows the time
ASSUME ModesAssumption == Modes \subseteq Mode
ASSUME BoundsAssumption ==
  MaxTime \in Nat /\ MaxEvents \in Nat /\ MaxStall \in Nat

VARIABLES
  mode,             \* a member of Modes
  current_sample,
  offset,           \* midi_trace.offset
  samples,          \* aq_samples()
  list,             \* nodes from head to tail
  free_list,        \* likewise
  pool,             \* midi_trace.pool
  node,             \* node[p]: the event, its start, whether it is ARG_CE
  lasttime,         \* of trace_loop()
  pushed,           \* history: events so far, and the time of each
  shown,            \* history: events in the order they were shown
  stalled           \* history: trace_loop() brought an event forward since
                    \* the list was last flushed

listVars == <<list, free_list, pool, node>>
timeVars == <<current_sample, offset, samples>>
histVars == <<pushed, shown, stalled>>
vars == <<mode, listVars, timeVars, lasttime, histVars>>

Never == MaxTime + 1                  \* 0x7fffffff

Init ==
  /\ mode \in Modes
  /\ current_sample = 0 /\ offset = 0 /\ samples = 0
  /\ list = <<>> /\ free_list = <<>> /\ pool = 0 /\ node = <<>>
  /\ lasttime = -1
  /\ pushed = <<>> /\ shown = <<>> /\ stalled = FALSE

-----------------------------------------------------------------------------
(* The clocks: compute_data() goes on, the device plays what it was given *)
Compute ==
  /\ current_sample < MaxTime                                      \* bound
  /\ current_sample' = current_sample + 1
  /\ UNCHANGED <<mode, listVars, offset, samples, lasttime, histVars>>
Sound ==
  /\ offset + samples < current_sample
  /\ samples' = samples + 1
  /\ UNCHANGED <<mode, listVars, current_sample, offset, lasttime, histVars>>

Heard == offset + samples             \* current_trace_samples()

-----------------------------------------------------------------------------
(* new_trace_node() *)
NewNode ==
  IF free_list = <<>> THEN pool + 1 ELSE Head(free_list)
TakesNode ==
  IF free_list = <<>> THEN pool' = pool + 1 /\ UNCHANGED free_list
                      ELSE free_list' = Tail(free_list) /\ UNCHANGED pool

(* push_midi_trace*() and midi_trace_setfunc() *)
Push(ce) ==
  LET event == Len(pushed) + 1
      p == NewNode
  IN  /\ event <= MaxEvents                                        \* bound
      /\ pushed' = Append(pushed, current_sample)
      /\ \/ /\ ~mode.trace_playing \/ ~mode.can_trace
            /\ shown' = Append(shown, event)
            /\ UNCHANGED listVars
         \/ /\ mode.trace_playing /\ mode.can_trace
            /\ TakesNode
            /\ node' = [i \in 1..pool' |->
                 IF i = p THEN [event |-> event, start |-> current_sample, ce |-> ce]
                          ELSE node[i]]
            /\ list' = Append(list, p)
            /\ UNCHANGED shown
      /\ UNCHANGED <<mode, timeVars, lasttime, stalled>>

-----------------------------------------------------------------------------
Now == IF mode.clock /\ mode.trace_playing THEN Heard ELSE Never
Due(p) == Now >= node[p].start /\ Now > 0

DueCount ==
  CHOOSE k \in 0..Len(list) :
    /\ \A i \in 1..k : Due(list[i])
    /\ k < Len(list) => ~Due(list[k + 1])
Events(s) == [i \in 1..Len(s) |-> node[s[i]].event]
Reversed(s) == [i \in 1..Len(s) |-> s[Len(s) + 1 - i]]

(* the first k are run and reused one by one *)
Show(k) ==
  /\ shown' = shown \o Events(SubSeq(list, 1, k))
  /\ free_list' = Reversed(SubSeq(list, 1, k)) \o free_list
  /\ list' = SubSeq(list, k + 1, Len(list))

NeverForward(update) ==                                            \* mutant
  UNCHANGED <<node, stalled>> /\ lasttime' = Now
AlwaysForward(update) ==                                           \* mutant
  /\ node' = [node EXCEPT ![Head(list')].start = @ - 1]
  /\ UNCHANGED stalled
  /\ lasttime' = Now
(* "avoid infinite loop": a call that shows nothing and finds the time of  *)
(* the call before brings the head forward                                 *)
Forward(update) ==
  IF update THEN UNCHANGED <<node, lasttime, stalled>>
  ELSE /\ lasttime' = Now
       /\ IF lasttime = Now
          THEN /\ node' = [node EXCEPT ![Head(list')].start = @ - 1]
               /\ stalled' = TRUE
          ELSE UNCHANGED <<node, stalled>>

(* trace_loop() *)
TraceLoop ==
  LET update == \E i \in 1..DueCount : node[list[i]].ce
  IN  /\ list # <<>>
      /\ Now > 0 \/ node[Head(list)].start > -MaxStall               \* bound
      /\ Show(DueCount)
      /\ IF list' = <<>> THEN UNCHANGED <<node, lasttime, stalled>>
                         ELSE Forward(update)
      /\ UNCHANGED <<mode, pool, timeVars, pushed>>

FlushDrops ==                                                      \* mutant
  /\ shown' = shown
  /\ list' = <<>> /\ free_list' = <<>> /\ pool' = 0 /\ node' = <<>>
  /\ stalled' = FALSE
(* trace_flush(): all are run, the pool is reused, the lists are emptied *)
Flush ==
  /\ shown' = shown \o Events(list)
  /\ list' = <<>> /\ free_list' = <<>> /\ pool' = 0 /\ node' = <<>>
  /\ stalled' = FALSE
TraceFlush ==
  /\ Flush
  /\ UNCHANGED <<mode, timeVars, lasttime, pushed>>

(* aq_flush(1) and skip_to(t): the song goes on elsewhere, and the device  *)
(* counts from 0                                                           *)
Seek(t) ==
  /\ Flush
  /\ current_sample' = t /\ offset' = t /\ samples' = 0
  /\ UNCHANGED <<mode, lasttime, pushed>>

-----------------------------------------------------------------------------
Next ==
  \/ Compute \/ Sound
  \/ \E ce \in BOOLEAN : Push(ce)
  \/ TraceLoop \/ TraceFlush
  \/ \E t \in 0..MaxTime : Seek(t)

Spec == Init /\ [][Next]_vars

(* aq_add() and the waiting loop of aq_flush() call trace_loop() again and *)
(* again; the device need not go on.                                       *)
FairSpec == Spec /\ WF_vars(TraceLoop)

-----------------------------------------------------------------------------
(* Every event is shown once and in order, by whichever of the loop and    *)
(* the flushes comes first: what was shown and what waits are the events   *)
(* pushed so far.                                                          *)
ShownInOrder ==
  shown \o Events(list) = [i \in 1..Len(pushed) |-> i]

(* No event is shown by trace_loop() before its sample is heard, unless    *)
(* the device stood still.                                                 *)
NotEarly ==
  [][ TraceLoop /\ ~stalled /\ mode.clock =>
        \A i \in Len(shown) + 1..Len(shown') : pushed[shown'[i]] <= Heard ]_vars

(* An event that waits when the first sample was heard is shown, even when *)
(* the device stands still from then on.                                   *)
Shown ==
  \A i \in 1..MaxEvents :
    (Len(pushed) >= i /\ Heard > 0) ~> Len(shown) >= i
=============================================================================
