--------------------------- MODULE MCResampleCache ---------------------------
(***************************************************************************)
(* A plain and a looped sample, two notes, and a cache that holds about  *)
(* two copies.                                                             *)
(***************************************************************************)
EXTENDS ResampleCache

CONSTANTS b1, b2, b3, b4
SomeBlocks == {b1, b2, b3, b4}
TwoPools == {"hash_entry", "tmpbuffer"}
BlockSymmetry == Permutations(SomeBlocks)

ThreeSamples == {"plain", "looped", "raw"}
Plain(dl) == [ls |-> 0, le |-> dl, dl |-> dl, loops |-> FALSE, cacheable |-> TRUE,
              note_to_use |-> 0]
Looped(ls, le, dl) == [ls |-> ls, le |-> le, dl |-> dl, loops |-> TRUE, cacheable |-> TRUE,
              note_to_use |-> 0]
\* with the turns of its short loop the last is longer than a splen_t holds
Shapes == [s \in ThreeSamples |->
  CASE s = "plain" -> {Plain(6), [Plain(4) EXCEPT !.note_to_use = 1]}
    [] s = "looped" -> {Looped(0, 7, 7), Looped(0, 3, 26)}
    [] s = "raw" -> {[Plain(4) EXCEPT !.cacheable = FALSE]}]
TwoInstruments == <<<<"plain", "looped">>, <<"looped", "raw">>>>
Drums == [n \in 0..1 |-> IF n = 0 THEN <<"raw">> ELSE <<>>]
Songs == <<3, 1>>
Ratio == [n \in 0..1 |-> n + 2]
=============================================================================
