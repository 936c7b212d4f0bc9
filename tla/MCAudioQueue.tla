---------------------------- MODULE MCAudioQueue ----------------------------
(***************************************************************************)
(* Small play modes for AudioQueue.  SoftTime = 2 and a rate of 2 give two *)
(* buckets of two frames; FillTime = 1 gives a start count of two frames.  *)
(***************************************************************************)
EXTENDS AudioQueue

Device == [stream |-> TRUE, frag |-> 2, qsize |-> 4, rate |-> 2, cap |-> 4,
           roomKnown |-> TRUE, refuses |-> TRUE, discard |-> "empties"]

(* droid_a.c: GETFILLABLE answers a constant, DISCARD leaves the track alone *)
Droid == [Device EXCEPT !.roomKnown = FALSE, !.refuses = FALSE, !.discard = "keeps"]

(* a file or pipe: no trace, no software queue *)
PlainStream == [Device EXCEPT !.stream = FALSE]

(* "Audio buffer is too small": no software queue either *)
SmallDevice == [Device EXCEPT !.qsize = 3]

(* an output without PM_REQ_DISCARD that takes every block *)
Stubborn == [Device EXCEPT !.refuses = FALSE, !.discard = "fails"]

(* half the fragment at half the rate: the same bucket time *)
SlowDevice == [Device EXCEPT !.frag = 1, !.rate = 1]

(* fragments longer than the soft buffer time: no buckets *)
CoarseDevice == [Device EXCEPT !.frag = 2, !.rate = 0]

AllDevices == {Droid, Device, Stubborn, PlainStream, SmallDevice, CoarseDevice}
TwoRates == {Device, SlowDevice}
=============================================================================
