----------------------------- MODULE ByteStream -----------------------------
(***************************************************************************)
(* What the caller of a URL stream of libarc may rely on, whatever the     *)
(* stream keeps of its source: bytes come from the position that           *)
(* url_tell() tells, in order and once; a seek arrives where it was told   *)
(* to, stops early only where the source has no more to give, and is       *)
(* refused only where the kind of stream allows it.                        *)
(***************************************************************************)
EXTENDS Integers, Sequences, FiniteSetsExt

CONSTANTS
  Calls,      \* the requests: [op, n, whence]
  NoCall,
  Newlines,   \* the bytes that end a line
  Window      \* how far a buffered stream goes back for certain

VARIABLES
  at,         \* the position told
  lost,       \* the byte at position p is number p + lost of the source
  first,      \* the position told when the stream was opened
  far,        \* the furthest position so far
  mode,       \* "window", "kept" (all of it) or "forward" (nothing)
  call,       \* the request, NoCall between them
  out         \* the bytes the last call returned

stream == <<at, lost, first, far, mode, call, out>>

Init ==
  /\ first \in Nat /\ at = first /\ far = first /\ lost = 0
  /\ mode \in {"window", "kept"}
  /\ call = NoCall /\ out = <<>>

Ask ==
  /\ call = NoCall /\ call' \in Calls /\ out' = <<>>
  /\ UNCHANGED <<at, lost, first, far, mode>>

Goes(to) ==
  /\ at' = to /\ far' = Max({far, to})
  /\ UNCHANGED <<lost, first, mode>>

Deliver ==
  LET k == Len(out')
  IN  /\ call.op \in {"read", "getc", "gets"}
      /\ Goes(at') /\ at' = at + k
      /\ k <= call.n
      /\ out' = [i \in 1..k |-> at + lost + i - 1]
      /\ call.op = "gets" => \A i \in 1..(k - 1) : out'[i] \notin Newlines

(* a seek to position `to` *)
Refusable(to) ==
  CASE mode = "window"  -> to < first \/ to < far - Window
    [] mode = "forward" -> TRUE
    [] mode = "kept"    -> FALSE

Arrives(to) ==
  \/ Goes(to)
  \/ to > far /\ at' \in far..to /\ Goes(at')        \* no more to be had
  \/ to < at /\ Refusable(to) /\ Goes(at)

Target ==
  LET to == IF call.whence = "set" THEN call.n ELSE at + call.n
  IN  IF mode = "kept" THEN Max({to, 0}) ELSE to

Seek ==
  /\ call.op = "seek" /\ call.whence # "end"
  /\ Arrives(Target) /\ out' = out

(* From the end: a stream that keeps everything goes to the end itself. *)
SeekEnd ==
  /\ call.op = "seek" /\ call.whence = "end"
  /\ IF mode = "kept" THEN at' >= far /\ Goes(at') ELSE Arrives(at + call.n) \/ Goes(at)
  /\ out' = out

(* A skip ends early where the source or the limit does. *)
Skip ==
  /\ call.op = "skip" /\ at' \in at..(at + call.n) /\ Goes(at') /\ out' = out

Rewind ==
  /\ call.op = "rewind"
  /\ IF mode = "forward" THEN Goes(at) ELSE Arrives(0)
  /\ out' = out

Answer ==
  /\ call # NoCall /\ call' = NoCall
  /\ Deliver \/ Seek \/ SeekEnd \/ Skip \/ Rewind

(* Bytes are passed over before a seek returns. *)
Pass ==
  /\ call # NoCall /\ UNCHANGED <<call, out>>
  /\ call.op = "seek"
  /\ call.whence = "end" \/ (call.whence = "set" /\ mode = "forward")
  /\ at' >= at /\ Goes(at')

(* Requests that change the stream and not its position.  Once nothing is  *)
(* kept, a seek goes forward only; a stream opened anew on the same source *)
(* counts from 0 wherever the source stands.                               *)
Change ==
  /\ call # NoCall /\ call' = NoCall /\ out' = out
  /\ \/ /\ call.op \in {"limit", "detach"}
        /\ UNCHANGED <<at, lost, first, far, mode>>
     \/ /\ call.op = "disable"
        /\ mode' = IF mode = "kept" THEN "forward" ELSE mode
        /\ UNCHANGED <<at, lost, first, far>>
     \/ /\ call.op = "reopen" /\ mode # "window" /\ mode' = "kept"
        /\ at' = 0 /\ far' = 0 /\ first' = 0 /\ lost' >= far + lost

Next == Ask \/ Answer \/ Pass \/ Change

Spec == Init /\ [][Next]_stream
=============================================================================
