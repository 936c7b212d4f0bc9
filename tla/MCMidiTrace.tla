---------------------------- MODULE MCMidiTrace ----------------------------
(***************************************************************************)
(* The trace with a clock, without one, and switched off.                  *)
(***************************************************************************)
EXTENDS MidiTrace

Tracing == [trace_playing |-> TRUE, can_trace |-> TRUE, clock |-> TRUE]
AllModes == {Tracing, [Tracing EXCEPT !.clock = FALSE],
             [Tracing EXCEPT !.trace_playing = FALSE],
             [Tracing EXCEPT !.can_trace = FALSE]}
=============================================================================
