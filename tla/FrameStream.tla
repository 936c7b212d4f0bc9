---------------------------- MODULE FrameStream ----------------------------
(***************************************************************************)
(* What the software audio queue promises its caller: the device receives  *)
(* the frames in the order they were accepted, each of them once; silence  *)
(* is added only after the last accepted frame; a discard drops what was   *)
(* accepted and not yet handed over, and nothing else is ever dropped.     *)
(***************************************************************************)
EXTENDS Integers, Sequences

VARIABLES
  accepted,   \* frames 1..accepted were taken from the caller
  given,      \* frames up to `given` were handed to the device or dropped
  device,     \* what the device received since the last discard
  epoch       \* the last frame accepted before that discard

vars == <<accepted, given, device, epoch>>

Run(first, count) == [i \in 1..count |-> first + i - 1]
Quiet(count) == [i \in 1..count |-> 0]

Init == accepted = 0 /\ given = 0 /\ device = <<>> /\ epoch = 0

Accept ==
  /\ accepted' > accepted
  /\ UNCHANGED <<given, device, epoch>>

(* `size` frames go to the device, the last `pad` of them silence.  They   *)
(* may pass through the queue or come straight from the caller             *)
Transfer ==
  /\ given' >= given /\ accepted' >= accepted /\ given' <= accepted'
  /\ \E pad \in 0..(Len(device') - Len(device)) :
       /\ device' = device \o Run(given + 1, given' - given) \o Quiet(pad)
       /\ pad > 0 => given' = accepted'
  /\ UNCHANGED epoch

Discard ==
  /\ given' = accepted /\ epoch' = accepted
  /\ device' = <<>>
  /\ UNCHANGED accepted

Next == Accept \/ Transfer \/ Discard
Spec == Init /\ [][Next]_vars
=============================================================================
