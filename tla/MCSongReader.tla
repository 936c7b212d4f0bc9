---------------------------- MODULE MCSongReader ----------------------------
(***************************************************************************)
(* Small files for SongReader: FRAC = 8 makes an int32 reach from -32 to   *)
(* 31; two channels to a port and four channels in all.                    *)
(***************************************************************************)
EXTENDS SongReader

On(ch) == Note("on", ch)
Off(ch) == Note("off", ch)
Tempo(t) == Meta("tempo", t)
Sig(n, d) == Meta("sig", [num |-> n, denom |-> d])

\* two tracks, tempo changes, a rest before the first note
Tracks1 == [format |-> 1, tracks |-> 2, divisions |-> 8, preserve |-> TRUE,
            ignore |-> TRUE, trace |-> FALSE, x86 |-> FALSE, quiet |-> {},
            deltas |-> {0, 5},
            events |-> {On(0), Tempo(40)}, size |-> 6]

\* lyrics, a quiet channel, no silence kept, times beyond an int32
OneTrack == [Tracks1 EXCEPT !.format = 0, !.preserve = FALSE, !.trace = TRUE,
               !.quiet = {1}, !.deltas = {5, 20},
               !.events = {On(0), On(1), Meta("text", 0), Tempo(40)}, !.size = 4]

\* songs one behind the other; errors are not ignored
Sequence == [Tracks1 EXCEPT !.format = 2, !.ignore = FALSE, !.deltas = {0, 8},
               !.events = {On(0), Off(0)}, !.size = 6]

\* signatures between and at beats; beats of 4, 2 and 1 ticks
Bars == [Tracks1 EXCEPT !.format = 0, !.divisions = 2, !.deltas = {0, 3},
           !.events = {Off(0), Sig(2, 8), Sig(2, 4)}, !.size = 7]

\* beats of no length; the default tempo is more than 31 to a tick
NoBars == [Bars EXCEPT !.divisions = 1, !.preserve = FALSE, !.x86 = TRUE,
             !.deltas = {0, 5}, !.events = {On(0), Sig(3, 8)}, !.size = 5]

\* a denominator of 256 or more; a file without divisions
Zeros == [Bars EXCEPT !.events = {On(0), Sig(2, 0)}, !.size = 4]
NoTicks == [Zeros EXCEPT !.divisions = 0, !.events = {On(0), Tempo(0), Sig(2, 8)}]

\* four ports for the channels of two
Ports == [OneTrack EXCEPT !.quiet = {}, !.deltas = {0},
            !.events = {On(c) : c \in {0, 2, 3, 4, 6}}, !.size = 5]

Files == {Tracks1, OneTrack, Sequence, Bars, NoBars, Zeros, NoTicks, [NoTicks EXCEPT !.x86 = TRUE], Ports}
=============================================================================
