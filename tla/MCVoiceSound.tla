----------------------------- MODULE MCVoiceSound ----------------------------
(***************************************************************************)
(* Samples of every kind: Gravis patches and sound fonts, with and without *)
(* envelopes, looped one way and both ways, cached and resampled before.   *)
(***************************************************************************)
EXTENDS VoiceSound

Offsets(seq) == [k \in 0..5 |-> seq[k + 1]]
Patch == [modes |-> {"envelope", "looping"}, sf2 |-> FALSE, instant |-> FALSE,
          envelope_offset |-> Offsets(<<3, 3, 2, 3, 1, 1>>),
          loop_start |-> 3, loop_end |-> 8, data_length |-> 10, speed |-> 2,
          resampled |-> "no", starts |-> {0}]
Font == [Patch EXCEPT !.sf2 = TRUE, !.instant = TRUE,
                      !.envelope_offset = Offsets(<<4, 3, 2, 0, 0, 0>>)]
SomeSamples ==
  {Patch, Font,
   [Patch EXCEPT !.modes = @ \cup {"pingpong"}, !.starts = {0, 8, 9}],
   [Font EXCEPT !.modes = {"envelope"}, !.instant = FALSE, !.starts = {0, 11}],
   [Patch EXCEPT !.envelope_offset = Offsets(<<0, 0, 0, 0, 0, 0>>)],
   [Patch EXCEPT !.modes = {"looping"}, !.starts = {0, 8, 9}],
   [Patch EXCEPT !.modes = {"looping"}, !.resampled = "cached",
                 !.loop_start = 2, !.data_length = 8],
   [Patch EXCEPT !.modes = {}, !.resampled = "pre"]}
SomeSettings == {<<0, FALSE>>, <<1, TRUE>>, <<5000, FALSE>>}
=============================================================================
