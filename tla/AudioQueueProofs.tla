-------------------------- MODULE AudioQueueProofs --------------------------
(***************************************************************************)
(* Proofs about AudioQueue, for every set of play modes whose outputs      *)
(* support PM_REQ_DISCARD (all outputs the Android build contains do).     *)
(***************************************************************************)
EXTENDS AudioQueue, SequenceTheorems, WellFoundedInduction, TLAPS

AllDiscard == \A m \in PlayModes : m.discard # "fails"

-----------------------------------------------------------------------------
(* Sequences *)

(* The free list flush_buckets() builds, with an empty queue, is sound. *)
LEMMA AllBucketsPartitioned ==
  ASSUME NEW k \in Nat
  PROVE  AllBuckets(k) \in Seq(1..k) /\ Partitioned(<<>>, AllBuckets(k), k)
BY DEF AllBuckets, Partitioned, Distinct

(* Returning the head to the free list keeps the two lists sound. *)
LEMMA ReusePartitioned ==
  ASSUME NEW k \in Nat, NEW q \in Seq(1..k), NEW f \in Seq(1..k),
         q # <<>>, Partitioned(q, f, k)
  PROVE  /\ Tail(q) \in Seq(1..k) /\ <<Head(q)>> \o f \in Seq(1..k)
         /\ Partitioned(Tail(q), <<Head(q)>> \o f, k)
<1> DEFINE t == Tail(q)
           g == <<Head(q)>> \o f
<1>1. t \in Seq(1..k) /\ g \in Seq(1..k)
  OBVIOUS
<1>2. Distinct(t)
  BY DEF Partitioned, Distinct
<1>3. Distinct(g)
  BY SMTT(60) DEF Partitioned, Distinct
<1>4. \A i \in 1..Len(t), j \in 1..Len(g) : t[i] # g[j]
  BY DEF Partitioned, Distinct
<1>5. Len(t) + Len(g) = k
  <2>1. Len(q) + Len(f) = k
    BY DEF Partitioned
  <2> QED
    BY <2>1
<1> QED
  BY <1>1, <1>2, <1>3, <1>4, <1>5 DEF Partitioned

(* Appending the first free bucket to the queue keeps them sound. *)
LEMMA AllocatePartitioned ==
  ASSUME NEW k \in Nat, NEW q \in Seq(1..k), NEW f \in Seq(1..k),
         f # <<>>, Partitioned(q, f, k)
  PROVE  /\ Append(q, Head(f)) \in Seq(1..k) /\ Tail(f) \in Seq(1..k)
         /\ Partitioned(Append(q, Head(f)), Tail(f), k)
<1> DEFINE g == Append(q, Head(f))
           t == Tail(f)
<1>1. g \in Seq(1..k) /\ t \in Seq(1..k)
  OBVIOUS
<1>2. Distinct(g)
  <2>1. \A i \in 1..Len(g) : g[i] = IF i <= Len(q) THEN q[i] ELSE f[1]
    OBVIOUS
  <2>2. Len(g) = Len(q) + 1 /\ Len(f) >= 1
    OBVIOUS
  <2>3. SUFFICES ASSUME NEW i \in 1..Len(g), NEW j \in 1..Len(g), g[i] = g[j]
                 PROVE  i = j
    BY DEF Distinct
  <2>4. \A l \in 1..Len(q) : q[l] # f[1]
    BY <2>2 DEF Partitioned
  <2>5. CASE i <= Len(q) /\ j <= Len(q)
    BY <2>1, <2>3, <2>5 DEF Partitioned, Distinct
  <2>6. CASE i <= Len(q) /\ ~(j <= Len(q))
    <3>1. g[i] = q[i] /\ g[j] = f[1]
      BY <2>1, <2>6
    <3>2. i \in 1..Len(q)
      BY <2>6
    <3>3. q[i] = f[1]
      BY <2>3, <3>1, Zenon
    <3> QED
      BY <2>4, <3>2, <3>3, Zenon
  <2>7. CASE ~(i <= Len(q)) /\ j <= Len(q)
    <3>1. g[j] = q[j] /\ g[i] = f[1]
      BY <2>1, <2>7
    <3>2. j \in 1..Len(q)
      BY <2>7
    <3>3. q[j] = f[1]
      BY <2>3, <3>1, Zenon
    <3> QED
      BY <2>4, <3>2, <3>3, Zenon
  <2>8. CASE ~(i <= Len(q)) /\ ~(j <= Len(q))
    BY <2>2, <2>3, <2>8
  <2> QED
    BY <2>5, <2>6, <2>7, <2>8
<1>3. Distinct(t)
  BY DEF Partitioned, Distinct
<1>4. \A i \in 1..Len(g), j \in 1..Len(t) : g[i] # t[j]
  BY DEF Partitioned, Distinct
<1>5. Len(g) + Len(t) = k
  <2>1. Len(q) + Len(f) = k
    BY DEF Partitioned
  <2>2. Len(t) = Len(f) - 1 /\ Len(g) = Len(q) + 1
    OBVIOUS
  <2> QED
    BY SMTT(60), <2>1, <2>2
<1> QED
  BY <1>1, <1>2, <1>3, <1>4, <1>5 DEF Partitioned

LEMMA SeqElement ==
  ASSUME NEW S, NEW s \in Seq(S), NEW j \in 1..Len(s)
  PROVE  s[j] \in S
OBVIOUS

LEMMA FramesType ==
  ASSUME NEW first \in Nat, NEW count \in Nat
  PROVE  Frames(first, count) \in Seq(Nat) /\ Len(Frames(first, count)) = count
BY DEF Frames

LEMMA FillType ==
  ASSUME NEW frame \in Nat, NEW count \in Nat
  PROVE  Fill(frame, count) \in Seq(Nat) /\ Len(Fill(frame, count)) = count
BY DEF Fill

-----------------------------------------------------------------------------
(* The inductive invariant *)

Types ==
  /\ TypeOK
  /\ data \in [1..nbuckets -> Seq(Nat)]
  /\ device \in Seq(Nat)
  /\ src >= 1

(* free is stale, and not used, while there are no buckets *)
Lists ==
  /\ nbuckets > 0 => free \in Seq(1..nbuckets) /\ Partitioned(queue, free, nbuckets)
  /\ nbuckets = 0 => queue = <<>>

(* Flush loops are entered from aq_flush(1) only when DISCARD fails, so    *)
(* a caller that sets the queue up again never waits in them               *)
Loops == {"soft", "softControl", "drain", "setupInSoft", "setupInDrain"}
Control ==
  /\ pc \in Loops => then = "idle"
  /\ pc = "fill" => ret \in {"idle", "add"}
  /\ NothingToDrop

IInv == Types /\ Lists /\ OnlyTailPartial /\ Control

LEMMA KeepLists ==
  ASSUME Lists, OnlyTailPartial, UNCHANGED <<listVars, nbuckets, bucket_size>>
  PROVE  Lists' /\ OnlyTailPartial'
BY DEF Lists, OnlyTailPartial, Partitioned, Distinct, Partial, listVars

(* Handing the head to the device; its data may have been padded before. *)
LEMMA ReuseStep ==
  ASSUME Types, Lists, OnlyTailPartial, queue # <<>>, ReuseHead,
         UNCHANGED <<nbuckets, bucket_size>>,
         \A b \in 1..nbuckets : b # Head(queue) => data'[b] = data[b]
  PROVE  /\ queue' \in Seq(1..nbuckets) /\ free' \in Seq(Nat)
         /\ Lists' /\ OnlyTailPartial'
<1>1. queue \in Seq(1..nbuckets) /\ nbuckets \in Nat /\ nbuckets > 0
  BY DEF Types, TypeOK, Lists
<1>2. free \in Seq(1..nbuckets) /\ Partitioned(queue, free, nbuckets)
  BY <1>1 DEF Lists
<1>3. /\ queue' \in Seq(1..nbuckets) /\ free' \in Seq(1..nbuckets)
      /\ Partitioned(queue', free', nbuckets)
  BY <1>1, <1>2, ReusePartitioned DEF ReuseHead
<1>4. Lists'
  BY <1>1, <1>3 DEF Lists
<1>6. ASSUME NEW i \in 1..Len(queue')
      PROVE  data'[queue'[i]] = data[queue[i + 1]]
  <2>1. i + 1 \in 1..Len(queue) /\ queue'[i] = queue[i + 1]
    BY <1>1 DEF ReuseHead
  <2>0. i + 1 # 1
    BY <1>3
  <2>2. Head(queue) = queue[1] /\ 1 \in 1..Len(queue)
    BY <1>1
  <2>3. queue[i + 1] # queue[1]
    BY <1>2, <2>0, <2>1, <2>2 DEF Partitioned, Distinct
  <2>4. queue[i + 1] \in 1..nbuckets
    BY <1>1, <2>1
  <2> QED
    BY <2>1, <2>2, <2>3, <2>4
<1>7. OnlyTailPartial'
  <2> SUFFICES ASSUME NEW i \in 1..Len(queue')
               PROVE  /\ Len(data'[queue'[i]]) \in 1..bucket_size
                      /\ i < Len(queue') => Len(data'[queue'[i]]) = bucket_size
    BY DEF OnlyTailPartial, Partial
  <2>1. data'[queue'[i]] = data[queue[i + 1]]
    BY <1>6
  <2>2. i + 1 \in 1..Len(queue) /\ (i < Len(queue') => i + 1 < Len(queue))
    BY <1>1 DEF ReuseHead
  <2> QED
    BY <2>1, <2>2 DEF OnlyTailPartial, Partial
<1>8. free' \in Seq(Nat)
  BY <1>1, <1>3
<1> QED
  BY <1>3, <1>4, <1>7, <1>8

(* Emptying the queue. *)
LEMMA FlushStep ==
  ASSUME Types, FlushBuckets, UNCHANGED <<nbuckets, bucket_size>>
  PROVE  /\ queue' \in Seq(1..nbuckets) /\ free' \in Seq(Nat)
         /\ aq_fill_buffer_flag' \in BOOLEAN
         /\ device' \in Seq(Nat) /\ epoch' \in Nat
         /\ Lists' /\ OnlyTailPartial'
<1>1. nbuckets \in Nat /\ src \in Nat /\ src >= 1
  BY DEF Types, TypeOK
<1>2. free' \in Seq(1..nbuckets) /\ Partitioned(queue', free', nbuckets)
  BY <1>1, AllBucketsPartitioned DEF FlushBuckets
<1>3. Lists'
  BY <1>2 DEF Lists, FlushBuckets
<1>4. OnlyTailPartial'
  BY DEF OnlyTailPartial, FlushBuckets
<1> QED
  BY <1>1, <1>2, <1>3, <1>4 DEF FlushBuckets

(* What play_mode->output_data() leaves in the device. *)
LEMMA OutputStep ==
  ASSUME Types, NEW s \in Seq(Nat), Output(s)
  PROVE  device' \in Seq(Nat) /\ filled' \in Nat
<1>1. device \in Seq(Nat) /\ filled \in Nat /\ dev \in Mode
  BY PlayModesAssumption DEF Types, TypeOK
<1>2. dev.cap \in Nat
  BY <1>1 DEF Mode
<1> QED
  BY <1>1, <1>2 DEF Output, Lesser

(* Only full buckets, or padded ones, are sent. *)
LEMMA FullContent ==
  ASSUME Types, NEW b \in 1..nbuckets, ~Partial(b)
  PROVE  Content(b) = data[b] /\ data[b] \in Seq(Nat)
<1>1. data[b] \in Seq(Nat) /\ bucket_size - Len(data[b]) = 0
  BY DEF Types, TypeOK, Partial
<1>2. Fill(Stale, 0) = <<>>
  BY DEF Fill
<1>3. Content(b) = data[b] \o <<>>
  BY <1>1, <1>2 DEF Content
<1>4. \A s \in Seq(Nat) : s \o <<>> = s
  OBVIOUS
<1> QED
  BY <1>1, <1>3, <1>4

LEMMA FillsAllowedType ==
  ASSUME Types
  PROVE  FillsAllowed \in Int
BY PlayModesAssumption DEF Types, TypeOK, FillsAllowed, Fillable, Mode

LEMMA HeadIsBucket ==
  ASSUME Types, queue # <<>>
  PROVE  Head(queue) \in 1..nbuckets
BY DEF Types, TypeOK
-----------------------------------------------------------------------------
(* Steps that leave the lists alone *)

LEMMA UpdateStep == IInv /\ Update => IInv'
<1> SUFFICES ASSUME IInv, Update PROVE IInv'
  OBVIOUS
<1>1. Types'
  BY FillsAllowedType DEF IInv, Types, TypeOK, PCs, Update, cfgVars, listVars,
     bufVars, callVars, devVars
<1>2. Lists' /\ OnlyTailPartial'
  BY KeepLists DEF IInv, Update, cfgVars, listVars
<1>3. Control'
  BY DEF IInv, Control, Loops, NothingToDrop, Update, callVars, listVars
<1> QED
  BY <1>1, <1>2, <1>3 DEF IInv

LEMMA AddDoneStep == IInv /\ AddDone => IInv'
<1> SUFFICES ASSUME IInv, AddDone PROVE IInv'
  OBVIOUS
<1>1. Types'
  BY DEF IInv, Types, TypeOK, PCs, AddDone, cfgVars, listVars,
     bufVars, callVars, devVars
<1>2. Lists' /\ OnlyTailPartial'
  BY KeepLists DEF IInv, AddDone, cfgVars, listVars
<1>3. Control'
  BY DEF IInv, Control, Loops, NothingToDrop, AddDone, callVars, listVars
<1> QED
  BY <1>1, <1>2, <1>3 DEF IInv

LEMMA SoftFlushStep == IInv /\ SoftFlush => IInv'
<1> SUFFICES ASSUME IInv, SoftFlush PROVE IInv'
  OBVIOUS
<1>1. Types'
  BY DEF IInv, Types, TypeOK, PCs, SoftFlush, cfgVars, listVars,
     bufVars, callVars, devVars
<1>2. Lists' /\ OnlyTailPartial'
  BY KeepLists DEF IInv, SoftFlush, cfgVars, listVars
<1>3. Control'
  BY DEF IInv, Control, Loops, NothingToDrop, SoftFlush, callVars, listVars
<1> QED
  BY <1>1, <1>2, <1>3 DEF IInv

LEMMA SoftDoneStep == IInv /\ SoftDone => IInv'
<1> SUFFICES ASSUME IInv, SoftDone PROVE IInv'
  OBVIOUS
<1>1. Types'
  BY DEF IInv, Types, TypeOK, PCs, SoftDone, cfgVars, listVars,
     bufVars, callVars, devVars
<1>2. Lists' /\ OnlyTailPartial'
  BY KeepLists DEF IInv, SoftDone, cfgVars, listVars
<1>3. Control'
  BY DEF IInv, Types, TypeOK, Control, Loops, NothingToDrop, SoftDone, callVars,
     listVars
<1> QED
  BY <1>1, <1>2, <1>3 DEF IInv

LEMMA DevicePlayStep == IInv /\ DevicePlay => IInv'
<1> SUFFICES ASSUME IInv, DevicePlay PROVE IInv'
  OBVIOUS
<1>1. Types'
  BY DEF IInv, Types, TypeOK, PCs, DevicePlay, cfgVars, listVars,
     bufVars, callVars, devVars
<1>2. Lists' /\ OnlyTailPartial'
  BY KeepLists DEF IInv, DevicePlay, cfgVars, listVars
<1>3. Control'
  BY DEF IInv, Control, Loops, NothingToDrop, DevicePlay, callVars, listVars
<1> QED
  BY <1>1, <1>2, <1>3 DEF IInv

LEMMA AddBeginStep ==
  ASSUME IInv, NEW count \in AddCounts, AddBegin(count)
  PROVE  IInv'
<1>0. count \in Nat \ {0}
  BY CountsAssumption
<1>1. Types'
  <2>1. made' \in Nat /\ src' \in Nat /\ src' >= 1 /\ n' \in Nat /\ aq_add_count' \in Nat
    BY <1>0 DEF IInv, Types, TypeOK, AddBegin
  <2>2. aq_fill_buffer_flag' \in BOOLEAN
    <3>1. CASE device_qsize = 0
      BY <3>1 DEF IInv, Types, TypeOK, AddBegin
    <3>2. CASE device_qsize # 0
      <4>1. aq_fill_buffer_flag' = (aq_add_count' <= aq_start_count)
        BY <3>2 DEF AddBegin
      <4> QED
        BY <4>1
    <3> QED
      BY <3>1, <3>2
  <2>3. pc' \in PCs /\ ret' \in {"idle", "add", "drain"} /\ nfills' \in Int
    BY FillsAllowedType DEF IInv, Types, TypeOK, PCs, AddBegin
  <2> QED
    BY <2>1, <2>2, <2>3 DEF IInv, Types, TypeOK, AddBegin, cfgVars, listVars, devVars
<1>2. Lists' /\ OnlyTailPartial'
  BY KeepLists DEF IInv, AddBegin, cfgVars
<1>3. Control'
  BY DEF IInv, Control, Loops, NothingToDrop, AddBegin, listVars
<1> QED
  BY <1>1, <1>2, <1>3 DEF IInv

LEMMA AddDirectStep == IInv /\ AddDirect => IInv'
<1> SUFFICES ASSUME IInv, AddDirect PROVE IInv'
  OBVIOUS
<1>1. Frames(src, n) \in Seq(Nat)
  BY FramesType DEF IInv, Types, TypeOK
<1>2. device' \in Seq(Nat) /\ filled' \in Nat
  BY <1>1, OutputStep DEF AddDirect, IInv, Types, TypeOK
<1>3. Types'
  BY SMTT(60), <1>2 DEF IInv, Types, TypeOK, PCs, AddDirect, AddFails, DropRest, cfgVars, listVars,
     bufVars, callVars, devVars
<1>4. Lists' /\ OnlyTailPartial'
  BY KeepLists DEF IInv, AddDirect, cfgVars
<1>5. Control'
  BY DEF IInv, Control, Loops, NothingToDrop, AddDirect, AddFails, DropRest, listVars, callVars
<1> QED
  BY <1>3, <1>4, <1>5 DEF IInv

LEMMA AddUnbufferedStep == IInv /\ AddUnbuffered => IInv'
<1> SUFFICES ASSUME IInv, AddUnbuffered PROVE IInv'
  OBVIOUS
<1>1. Frames(src, n) \in Seq(Nat)
  BY FramesType DEF IInv, Types, TypeOK
<1>2. device' \in Seq(Nat) /\ filled' \in Nat
  BY <1>1, OutputStep DEF AddUnbuffered, IInv, Types, TypeOK
<1>0. made' \in Nat /\ src' \in Nat /\ src' >= 1 /\ n' \in Nat
  BY DEF IInv, Types, TypeOK, AddUnbuffered
<1>3. Types'
  BY <1>0, <1>2 DEF IInv, Types, TypeOK, AddUnbuffered, cfgVars, listVars,
     callVars
<1>4. Lists' /\ OnlyTailPartial'
  BY KeepLists DEF IInv, AddUnbuffered, cfgVars
<1>5. Control'
  BY DEF IInv, Control, Loops, NothingToDrop, AddUnbuffered, listVars, callVars
<1> QED
  BY <1>3, <1>4, <1>5 DEF IInv

-----------------------------------------------------------------------------
(* Steps that move buckets *)

(* A full head bucket handed over keeps everything typed and sound. *)
LEMMA SendHead ==
  ASSUME IInv, HeadFull, Output(Content(Head(queue))), ReuseHead,
         UNCHANGED <<data, nbuckets, bucket_size>>
  PROVE  /\ queue' \in Seq(1..nbuckets) /\ free' \in Seq(Nat)
         /\ Lists' /\ OnlyTailPartial'
         /\ device' \in Seq(Nat) /\ filled' \in Nat
<1>1. queue # <<>> /\ Head(queue) \in 1..nbuckets /\ ~Partial(Head(queue))
  BY HeadIsBucket DEF IInv, HeadFull
<1>2. Content(Head(queue)) \in Seq(Nat)
  BY <1>1, FullContent DEF IInv
<1>3. device' \in Seq(Nat) /\ filled' \in Nat
  BY <1>2, OutputStep DEF IInv
<1> QED
  BY <1>1, <1>3, ReuseStep DEF IInv

LEMMA FillLoopStep == IInv /\ FillLoop => IInv'
<1> SUFFICES ASSUME IInv, FillLoop PROVE IInv'
  OBVIOUS
<1>1. CASE UNCHANGED <<listVars, device, filled>>
  <2>0. made' \in Nat /\ src' \in Nat /\ src' >= 1 /\ n' \in Nat /\ pc' \in PCs
        /\ nfills' \in Int
    BY SMTT(60), <1>1 DEF IInv, Types, TypeOK, PCs, FillLoop, AddFails, DropRest, bufVars
  <2>1. Types'
    BY <1>1, <2>0 DEF IInv, Types, TypeOK, FillLoop, cfgVars, listVars
  <2>2. Lists' /\ OnlyTailPartial'
    BY <1>1, KeepLists DEF IInv, FillLoop, cfgVars
  <2>3. Control'
    BY <1>1 DEF IInv, Control, Loops, NothingToDrop, FillLoop, AddFails, listVars,
        Types, TypeOK
  <2> QED
    BY <2>1, <2>2, <2>3 DEF IInv
<1>2. CASE /\ nfills > 0 /\ HeadFull
           /\ Output(Content(Head(queue)))
           /\ ReuseHead
           /\ nfills' = nfills - 1
           /\ UNCHANGED <<data, bufVars, pc>>
  <2>1. /\ queue' \in Seq(1..nbuckets) /\ free' \in Seq(Nat)
        /\ Lists' /\ OnlyTailPartial'
        /\ device' \in Seq(Nat) /\ filled' \in Nat
    BY <1>2, SendHead DEF FillLoop, cfgVars
  <2>2. Types'
    BY SMTT(60), <1>2, <2>1 DEF IInv, Types, TypeOK, PCs, FillLoop, cfgVars, listVars,
     bufVars, callVars, devVars
  <2>3. Control'
    BY <1>2 DEF IInv, Control, Loops, NothingToDrop, FillLoop
  <2> QED
    BY <2>1, <2>2, <2>3 DEF IInv
<1> QED
  BY <1>1, <1>2 DEF FillLoop

(* What memcpy() leaves in bucket b, which already held `old`. *)
LEMMA CopyStep ==
  ASSUME Types, NEW b \in 1..nbuckets, NEW old \in Seq(Nat),
         Len(old) < bucket_size, n > 0, Copy(b, old)
  PROVE  /\ data' \in [1..nbuckets -> Seq(Nat)]
         /\ Len(data'[b]) \in 1..bucket_size
         /\ \A c \in 1..nbuckets : c # b => data'[c] = data[c]
         /\ src' \in Nat /\ src' >= 1 /\ n' \in Nat
<1> DEFINE i == Lesser(bucket_size - Len(old), n)
<1>1. i \in Nat /\ i >= 1 /\ i <= n /\ Len(old) + i <= bucket_size
  BY DEF Types, TypeOK, Lesser
<1>2. Frames(src, i) \in Seq(Nat) /\ Len(Frames(src, i)) = i
  BY <1>1, FramesType DEF Types, TypeOK
<1>3. data' = [data EXCEPT ![b] = old \o Frames(src, i)]
  BY DEF Copy
<1>4. old \o Frames(src, i) \in Seq(Nat) /\ Len(old \o Frames(src, i)) = Len(old) + i
  <2>1. \A f \in Seq(Nat) : old \o f \in Seq(Nat) /\ Len(old \o f) = Len(old) + Len(f)
    OBVIOUS
  <2> QED
    BY <1>2, <2>1, Zenon
<1>5. data \in [1..nbuckets -> Seq(Nat)]
  BY DEF Types
<1>6. data'[b] = old \o Frames(src, i)
  BY <1>3, <1>5
<1>7. Len(data'[b]) \in 1..bucket_size
  BY SMTT(60), <1>1, <1>4, <1>6 DEF Types, TypeOK
<1>8. src' \in Nat /\ src' >= 1 /\ n' \in Nat
  <2>1. src' = src + i /\ n' = n - i
    BY DEF Copy
  <2> HIDE DEF i
  <2> QED
    BY <1>1, <2>1 DEF Types, TypeOK
<1>9. data' \in [1..nbuckets -> Seq(Nat)]
  BY <1>3, <1>4, <1>5
<1>10. \A c \in 1..nbuckets : c # b => data'[c] = data[c]
  BY <1>3, <1>5
<1> QED
  BY <1>7, <1>8, <1>9, <1>10

LEMMA AddToTailStep == IInv /\ AddToTail => IInv'
<1> SUFFICES ASSUME IInv, AddToTail PROVE IInv'
  OBVIOUS
<1> DEFINE b == queue[Len(queue)]
<1>1. b \in 1..nbuckets /\ Len(queue) \in 1..Len(queue)
  BY DEF IInv, Types, TypeOK, AddToTail, TailOpen
<1>2. data[b] \in Seq(Nat) /\ Len(data[b]) < bucket_size
  BY SMTT(60), <1>1 DEF IInv, Types, TypeOK, OnlyTailPartial, AddToTail, TailOpen, Partial
<1>3. /\ data' \in [1..nbuckets -> Seq(Nat)]
      /\ Len(data'[b]) \in 1..bucket_size
      /\ \A c \in 1..nbuckets : c # b => data'[c] = data[c]
      /\ src' \in Nat /\ src' >= 1 /\ n' \in Nat
  BY <1>1, <1>2, CopyStep DEF IInv, AddToTail
<1>4. data' \in [1..nbuckets -> Seq(Int)]
  BY <1>3
<1>5. Types'
  BY <1>3, <1>4 DEF IInv, Types, TypeOK, AddToTail, Copy, cfgVars, callVars, devVars
<1>6. Lists'
  BY DEF IInv, Lists, Partitioned, Distinct, AddToTail, cfgVars
<1>7. OnlyTailPartial'
  <2> SUFFICES ASSUME NEW j \in 1..Len(queue)
               PROVE  /\ Len(data'[queue[j]]) \in 1..bucket_size
                      /\ j < Len(queue) => Len(data'[queue[j]]) = bucket_size
    BY DEF OnlyTailPartial, Partial, AddToTail, cfgVars
  <2>1. CASE j = Len(queue)
    BY <1>3, <2>1
  <2>2. CASE j # Len(queue)
    <3>0. queue \in Seq(1..nbuckets)
      BY DEF IInv, Types, TypeOK
    <3>1. queue[j] \in 1..nbuckets
      BY <3>0, SeqElement
    <3>2. j < Len(queue)
      BY <1>1, <2>2
    <3>3. Distinct(queue)
      BY DEF IInv, Lists, Partitioned, AddToTail
    <3>4. queue[j] # b
      BY <1>1, <2>2, <3>3 DEF Distinct
    <3>5. data'[queue[j]] = data[queue[j]]
      BY <1>3, <3>1, <3>4
    <3> QED
      BY <3>2, <3>5 DEF IInv, OnlyTailPartial, Partial
  <2> QED
    BY <2>1, <2>2
<1>8. Control'
  BY DEF IInv, Control, Loops, NothingToDrop, AddToTail, callVars
<1> QED
  BY <1>5, <1>6, <1>7, <1>8 DEF IInv

LEMMA AddToNewStep == IInv /\ AddToNew => IInv'
<1> SUFFICES ASSUME IInv, AddToNew PROVE IInv'
  OBVIOUS
<1> DEFINE b == Head(free)
<1>1. /\ nbuckets \in Nat /\ queue \in Seq(1..nbuckets) /\ free \in Seq(1..nbuckets)
      /\ free # <<>> /\ Partitioned(queue, free, nbuckets)
  BY DEF IInv, Types, TypeOK, Lists, AddToNew
<1>2. b \in 1..nbuckets /\ b = free[1] /\ 1 \in 1..Len(free)
  BY <1>1
<1>3. <<>> \in Seq(Nat) /\ Len(<<>>) < bucket_size
  BY DEF IInv, Types, TypeOK
<1>4. /\ data' \in [1..nbuckets -> Seq(Nat)]
      /\ Len(data'[b]) \in 1..bucket_size
      /\ \A c \in 1..nbuckets : c # b => data'[c] = data[c]
      /\ src' \in Nat /\ src' >= 1 /\ n' \in Nat
  BY <1>2, <1>3, CopyStep DEF IInv, AddToNew
<1>5. /\ queue' \in Seq(1..nbuckets) /\ free' \in Seq(1..nbuckets)
      /\ Partitioned(queue', free', nbuckets)
  BY <1>1, AllocatePartitioned DEF AddToNew
<1>6. data' \in [1..nbuckets -> Seq(Int)] /\ free' \in Seq(Nat)
  BY SMTT(60), <1>1, <1>4, <1>5
<1>7. Types'
  BY <1>4, <1>5, <1>6 DEF IInv, Types, TypeOK, AddToNew, Copy, cfgVars, callVars, devVars
<1>8. Lists'
  BY <1>5 DEF Lists, AddToNew, cfgVars
<1>9. OnlyTailPartial'
  <2> SUFFICES ASSUME NEW j \in 1..Len(queue')
               PROVE  /\ Len(data'[queue'[j]]) \in 1..bucket_size
                      /\ j < Len(queue') => Len(data'[queue'[j]]) = bucket_size
    BY DEF OnlyTailPartial, Partial, AddToNew, cfgVars
  <2>1. Len(queue') = Len(queue) + 1 /\ queue'[Len(queue) + 1] = b
    BY <1>1 DEF AddToNew
  <2>2. CASE j = Len(queue) + 1
    BY <1>4, <2>1, <2>2
  <2>3. CASE j # Len(queue) + 1
    <3>1. j \in 1..Len(queue)
      BY <1>1, <2>1, <2>3
    <3>2. queue'[j] = queue[j] /\ queue[j] \in 1..nbuckets
      BY <1>1, <3>1 DEF AddToNew
    <3>3. queue[j] # b
      BY <1>1, <1>2, <3>1 DEF Partitioned
    <3>4. data'[queue'[j]] = data[queue[j]]
      BY <1>4, <3>2, <3>3
    <3>5. Len(data[queue[j]]) \in 1..bucket_size
      BY <3>1 DEF IInv, OnlyTailPartial
    <3>6. Len(data[queue[j]]) = bucket_size
      <4>1. CASE j = Len(queue)
        BY <1>1, <3>1, <4>1 DEF AddToNew, TailOpen, Partial
      <4>2. CASE j # Len(queue)
        BY <1>1, <3>1, <4>2 DEF IInv, OnlyTailPartial, Partial
      <4> QED
        BY <4>1, <4>2
    <3> QED
      BY <3>4, <3>5, <3>6
  <2> QED
    BY <2>2, <2>3
<1>10. Control'
  BY DEF IInv, Control, Loops, NothingToDrop, AddToNew, callVars
<1> QED
  BY <1>7, <1>8, <1>9, <1>10 DEF IInv

LEMMA QueueFullStep == IInv /\ QueueFull => IInv'
<1> SUFFICES ASSUME IInv, QueueFull PROVE IInv'
  OBVIOUS
<1>1. CASE UNCHANGED <<listVars, device, filled>>
  <2>1. made' \in Nat /\ src' \in Nat /\ src' >= 1 /\ n' \in Nat
    <3>1. CASE UNCHANGED bufVars
      BY <3>1 DEF IInv, Types, TypeOK, bufVars
    <3>2. CASE DropRest
      BY <3>2 DEF IInv, Types, TypeOK, DropRest
    <3> QED
      BY <1>1, <3>1, <3>2 DEF QueueFull, AddFails
  <2>2. pc' \in PCs /\ ret' \in {"idle", "add", "drain"} /\ nfills' \in Int
    BY <1>1, FillsAllowedType DEF IInv, Types, TypeOK, PCs, QueueFull,
        AddFails
  <2>3. Types'
    BY <1>1, <2>1, <2>2 DEF IInv, Types, TypeOK, QueueFull, cfgVars, listVars
  <2>4. Lists' /\ OnlyTailPartial'
    BY <1>1, KeepLists DEF IInv, QueueFull, cfgVars
  <2>5. Control'
    BY <1>1 DEF IInv, Control, Loops, NothingToDrop, QueueFull, AddFails,
        listVars
  <2> QED
    BY <2>3, <2>4, <2>5 DEF IInv
<1>2. CASE /\ HeadFull
           /\ Output(Content(Head(queue)))
           /\ ReuseHead
           /\ aq_fill_buffer_flag' = FALSE
           /\ UNCHANGED <<data, bufVars, pc, ret, nfills>>
  <2>1. /\ queue' \in Seq(1..nbuckets) /\ free' \in Seq(Nat)
        /\ Lists' /\ OnlyTailPartial'
        /\ device' \in Seq(Nat) /\ filled' \in Nat
    BY <1>2, SendHead DEF QueueFull, cfgVars
  <2>2. Types'
    <3>1. UNCHANGED <<cfgVars, aq_add_count, then, epoch>>
      BY DEF QueueFull
    <3>2. UNCHANGED <<made, src, n>>
      BY <1>2 DEF bufVars
    <3>3. aq_fill_buffer_flag' \in BOOLEAN
      BY <1>2
    <3> QED
      BY SMTT(60), <1>2, <2>1, <3>1, <3>2, <3>3 DEF IInv, Types, TypeOK, cfgVars
  <2>3. Control'
    BY <1>2 DEF IInv, Control, Loops, NothingToDrop, QueueFull
  <2> QED
    BY <2>1, <2>2, <2>3 DEF IInv
<1> QED
  BY <1>1, <1>2 DEF QueueFull

LEMMA SoftLoopStep == IInv /\ SoftLoop => IInv'
<1> SUFFICES ASSUME IInv, SoftLoop PROVE IInv'
  OBVIOUS
<1> DEFINE h == Head(queue)
<1>1. h \in 1..nbuckets /\ data \in [1..nbuckets -> Seq(Nat)] /\ queue \in Seq(1..nbuckets)
      /\ h = queue[1] /\ 1 \in 1..Len(queue)
  BY SMTT(60) DEF IInv, Types, TypeOK, SoftLoop
<1>2. Len(data[h]) \in 1..bucket_size /\ data[h] \in Seq(Nat) /\ bucket_size \in Nat
  BY <1>1 DEF IInv, OnlyTailPartial, Types, TypeOK
<1>3. Padded(h) \in Seq(Nat) /\ Len(Padded(h)) = bucket_size
  <2>1. bucket_size - Len(data[h]) \in Nat /\ Silence \in Nat
    BY <1>2 DEF Silence
  <2>2. /\ Fill(Silence, bucket_size - Len(data[h])) \in Seq(Nat)
        /\ Len(Fill(Silence, bucket_size - Len(data[h]))) = bucket_size - Len(data[h])
    BY <2>1, FillType
  <2>3. \A f \in Seq(Nat) : data[h] \o f \in Seq(Nat) /\ Len(data[h] \o f) = Len(data[h]) + Len(f)
    BY <1>2
  <2>4. Padded(h) \in Seq(Nat)
    BY <2>2, <2>3 DEF Padded
  <2>5. Len(Padded(h)) = Len(data[h]) + (bucket_size - Len(data[h]))
    BY <2>2, <2>3, Zenon DEF Padded
  <2> QED
    BY <1>2, <2>4, <2>5
<1>4. data' = [data EXCEPT ![h] = Padded(h)]
  BY DEF SoftLoop
<1>5. /\ data' \in [1..nbuckets -> Seq(Nat)] /\ data'[h] = Padded(h)
      /\ \A c \in 1..nbuckets : c # h => data'[c] = data[c]
  BY <1>1, <1>3, <1>4
<1>6. data' \in [1..nbuckets -> Seq(Int)]
  BY <1>5
<1>7. CASE /\ Output(Padded(h)) /\ ReuseHead /\ pc' = "softControl"
  <2>1. device' \in Seq(Nat) /\ filled' \in Nat
    BY <1>3, <1>7, OutputStep DEF IInv
  <2>2. /\ queue' \in Seq(1..nbuckets) /\ free' \in Seq(Nat)
        /\ Lists' /\ OnlyTailPartial'
    BY <1>5, <1>7, ReuseStep DEF IInv, SoftLoop, cfgVars
  <2>3. Types'
    BY <1>5, <1>6, <1>7, <2>1, <2>2, SMTT(60) DEF IInv, Types, TypeOK, PCs, SoftLoop,
       cfgVars, bufVars, callVars
  <2>4. Control'
    BY <1>7 DEF IInv, Control, Loops, NothingToDrop, SoftLoop, callVars
  <2> QED
    BY <2>2, <2>3, <2>4 DEF IInv
<1>8. CASE /\ pc' = (IF then = "setup" THEN "setup" ELSE "error")
           /\ UNCHANGED <<queue, free, device, filled>>
  <2>1. pc' = "error"
    BY <1>8 DEF IInv, Control, Loops, SoftLoop
  <2>2. Types'
    BY <1>5, <1>6, <1>8, <2>1 DEF IInv, Types, TypeOK, PCs, SoftLoop, cfgVars, bufVars,
       callVars
  <2>3. Lists'
    BY <1>8 DEF IInv, Lists, Partitioned, Distinct, SoftLoop, cfgVars
  <2>4. OnlyTailPartial'
    <3> SUFFICES ASSUME NEW j \in 1..Len(queue)
                 PROVE  /\ Len(data'[queue[j]]) \in 1..bucket_size
                        /\ j < Len(queue) => Len(data'[queue[j]]) = bucket_size
      BY <1>8 DEF OnlyTailPartial, Partial, SoftLoop, cfgVars
    <3>1. CASE queue[j] = h
      BY <1>2, <1>3, <1>5, <3>1
    <3>2. CASE queue[j] # h
      <4>1. queue[j] \in 1..nbuckets
        BY <1>1, SeqElement
      <4>2. data'[queue[j]] = data[queue[j]]
        BY <1>5, <3>2, <4>1
      <4> QED
        BY <4>2 DEF IInv, OnlyTailPartial, Partial
    <3> QED
      BY <3>1, <3>2
  <2>5. Control'
    BY <2>1 DEF Control, Loops, NothingToDrop
  <2> QED
    BY <2>2, <2>3, <2>4, <2>5 DEF IInv
<1> QED
  BY <1>7, <1>8 DEF SoftLoop

-----------------------------------------------------------------------------
(* Flushes and the set-up, with outputs that can discard *)

(* A discard leaves the queue empty wherever the thread goes next. *)
LEMMA DiscardStep ==
  ASSUME IInv, Discard, UNCHANGED <<cfgVars, data, bufVars, nfills>>,
         pc' \in PCs, ret' \in {"idle", "add", "drain"}, then' \in {"idle", "setup"},
         aq_add_count' \in Nat,
         pc' \in Loops => then' = "idle", pc' # "fill"
  PROVE  IInv'
<1>1. /\ queue' \in Seq(1..nbuckets) /\ free' \in Seq(Nat)
      /\ aq_fill_buffer_flag' \in BOOLEAN
      /\ device' \in Seq(Nat) /\ epoch' \in Nat
      /\ Lists' /\ OnlyTailPartial'
  BY FlushStep DEF IInv, Discard, cfgVars
<1>2. filled' \in Nat
  BY DEF Discard, IInv, Types, TypeOK
<1>3. Types'
  BY <1>1, <1>2 DEF IInv, Types, TypeOK, cfgVars, bufVars
<1>4. Control'
  BY DEF Control, NothingToDrop, Discard, FlushBuckets
<1> QED
  BY <1>1, <1>3, <1>4 DEF IInv

LEMMA FlushActionStep ==
  ASSUME IInv, AllDiscard, NEW discard \in BOOLEAN, NEW k \in {"idle", "setup"},
         k = "setup" => discard, Flush(discard, k)
  PROVE  IInv'
<1>0. CanDiscard
  BY DEF AllDiscard, IInv, Types, TypeOK, CanDiscard
<1>1. CASE discard
  <2>1. Discard /\ pc' = k /\ ret' = ret /\ then' = k /\ aq_add_count' = 0
    BY <1>0, <1>1 DEF Flush
  <2>2. UNCHANGED <<cfgVars, data, bufVars, nfills>>
    BY DEF Flush
  <2>3. /\ pc' \in PCs /\ ret' \in {"idle", "add", "drain"} /\ then' \in {"idle", "setup"}
        /\ aq_add_count' \in Nat /\ pc' \notin Loops /\ pc' # "fill"
    BY <2>1 DEF PCs, Loops, IInv, Types, TypeOK
  <2> QED
    BY <2>1, <2>2, <2>3, DiscardStep
<1>2. CASE ~discard
  <2>1. /\ k = "idle" /\ then' = "idle" /\ aq_add_count' = 0
        /\ \/ pc' = "idle" /\ ret' = ret
           \/ pc' = "soft" /\ ret' = "drain"
        /\ UNCHANGED <<aq_fill_buffer_flag, queue, free, devVars>>
    BY <1>2 DEF Flush
  <2>2. Types'
    BY <2>1 DEF IInv, Types, TypeOK, PCs, Flush, cfgVars, bufVars, devVars
  <2>3. Lists' /\ OnlyTailPartial'
    BY <2>1, KeepLists DEF IInv, Flush, cfgVars, listVars
  <2>4. Control'
    BY <2>1 DEF Control, Loops, NothingToDrop
  <2> QED
    BY <2>2, <2>3, <2>4 DEF IInv
<1> QED
  BY <1>1, <1>2

LEMMA SoftControlStep ==
  ASSUME IInv, AllDiscard, SoftControl
  PROVE  IInv'
<1>0. CanDiscard
  BY DEF AllDiscard, IInv, Types, TypeOK, CanDiscard
<1>1. then = "idle" /\ UNCHANGED <<cfgVars, data, bufVars, callVars>>
  BY DEF SoftControl, IInv, Control, Loops
<1>2. CASE /\ pc' = "soft"
           /\ UNCHANGED <<aq_add_count, aq_fill_buffer_flag, queue, free, devVars>>
  <2>1. Types'
    BY <1>1, <1>2 DEF IInv, Types, TypeOK, PCs, cfgVars, bufVars, callVars, devVars
  <2>2. Lists' /\ OnlyTailPartial'
    BY <1>1, <1>2, KeepLists DEF IInv, cfgVars, listVars
  <2>3. Control'
    BY <1>1, <1>2 DEF Control, Loops, NothingToDrop, callVars
  <2> QED
    BY <2>1, <2>2, <2>3 DEF IInv
<1>3. CASE ControlSkip
  <2>1. pc' = "idle" /\ then' = "idle" /\ ret' = ret /\ Discard /\ aq_add_count' = aq_add_count
    BY <1>1, <1>3 DEF ControlSkip, callVars
  <2> QED
    BY <1>1, <2>1, DiscardStep DEF PCs, Loops, IInv, Types, TypeOK, callVars
<1>4. ASSUME NEW next \in {"soft", "setupInSoft"}, ControlFlush(next)
      PROVE  IInv'
  <2>1. pc' = next /\ then' = "idle" /\ ret' = ret /\ Discard /\ aq_add_count' = 0
    BY <1>0, <1>1, <1>4 DEF ControlFlush, callVars
  <2> QED
    BY <1>1, <2>1, DiscardStep DEF PCs, Loops, IInv, Types, TypeOK, callVars
<1> QED
  BY <1>2, <1>3, <1>4 DEF SoftControl

LEMMA DrainControlStep ==
  ASSUME IInv, AllDiscard, DrainControl
  PROVE  IInv'
<1>0. CanDiscard
  BY DEF AllDiscard, IInv, Types, TypeOK, CanDiscard
<1>1. then = "idle" /\ UNCHANGED <<cfgVars, data, bufVars, callVars>>
  BY DEF DrainControl, IInv, Control, Loops
<1>2. CASE ControlSkip
  <2>1. pc' = "idle" /\ then' = "idle" /\ ret' = ret /\ Discard /\ aq_add_count' = aq_add_count
    BY <1>1, <1>2 DEF ControlSkip, callVars
  <2> QED
    BY <1>1, <2>1, DiscardStep DEF PCs, Loops, IInv, Types, TypeOK, callVars
<1>3. ASSUME NEW next \in {"drain", "setupInDrain"}, ControlFlush(next)
      PROVE  IInv'
  <2>1. pc' = next /\ then' = "idle" /\ ret' = ret /\ Discard /\ aq_add_count' = 0
    BY <1>0, <1>1, <1>3 DEF ControlFlush, callVars
  <2> QED
    BY <1>1, <2>1, DiscardStep DEF PCs, Loops, IInv, Types, TypeOK, callVars
<1> QED
  BY <1>2, <1>3 DEF DrainControl

LEMMA DrainDoneStep == IInv /\ DrainDone => IInv'
<1> SUFFICES ASSUME IInv, DrainDone PROVE IInv'
  OBVIOUS
<1>1. /\ queue' \in Seq(1..nbuckets) /\ free' \in Seq(Nat)
      /\ aq_fill_buffer_flag' \in BOOLEAN
      /\ device' \in Seq(Nat) /\ epoch' \in Nat
      /\ Lists' /\ OnlyTailPartial'
  BY FlushStep DEF IInv, DrainDone, cfgVars
<1>2. Types'
  BY <1>1 DEF IInv, Types, TypeOK, PCs, DrainDone, cfgVars, bufVars, callVars
<1>3. Control'
  BY DEF Control, Loops, NothingToDrop, DrainDone, IInv, Types, TypeOK, FlushBuckets,
     callVars
<1> QED
  BY <1>1, <1>2, <1>3 DEF IInv

LEMMA SetupStep ==
  ASSUME IInv, NEW m \in PlayModes, Setup(m)
  PROVE  IInv'
<1>1. /\ m \in Mode /\ m.frag \in Nat \ {0} /\ m.qsize \in Nat /\ m.rate \in Nat
      /\ SoftTime \in Nat /\ FillTime \in Nat
  BY PlayModesAssumption, TimesAssumption DEF Mode
<1>2. BucketsFor(m) \in Nat
  <2>1. SoftTime * m.rate \in Nat
    BY <1>1
  <2> HIDE DEF Mode
  <2> QED
    BY <1>1, <2>1 DEF BucketsFor
<1>3. StartCountFor(m) \in Nat /\ QueueSizeFor(m) \in Nat
  BY <1>1 DEF StartCountFor, QueueSizeFor
<1>4. queue = <<>> /\ (pc \in Loops => then = "idle") /\ then' = then
  BY DEF Setup, IInv, Control, NothingToDrop, callVars
<1>5. queue' = <<>>
  BY <1>4 DEF Setup
<1> DEFINE nb == BucketsFor(m)
<1>6. nbuckets' = nb /\ bucket_size' = m.frag
  BY DEF Setup
<1>7. /\ free' \in Seq(Nat)
      /\ nb > 0 => free' \in Seq(1..nb) /\ Partitioned(queue', free', nb)
      /\ data' \in [1..nb -> Seq(Nat)]
      /\ base' \in [slots: Nat, size: Nat]
  <2>1. CASE /\ base' = [slots |-> nb, size |-> m.frag]
             /\ queue' = <<>> /\ free' = AllBuckets(nb)
             /\ data' = [b \in 1..nb |-> <<>>]
    <3>1. AllBuckets(nb) \in Seq(1..nb) /\ Partitioned(<<>>, AllBuckets(nb), nb)
      BY <1>2, AllBucketsPartitioned
    <3>2. AllBuckets(nb) \in Seq(Nat)
      BY <1>2, <3>1
    <3>3. data' \in [1..nb -> Seq(Nat)]
      BY <2>1
    <3>4. base' \in [slots: Nat, size: Nat]
      BY <1>1, <1>2, <2>1
    <3>5. free' \in Seq(Nat) /\ free' \in Seq(1..nb) /\ Partitioned(queue', free', nb)
      BY <2>1, <3>1, <3>2
    <3> QED
      BY <3>3, <3>4, <3>5
  <2>2. CASE /\ nb = (IF m.stream THEN nbuckets ELSE 0)
             /\ base' = (IF m.stream THEN base ELSE NoStorage)
             /\ data' = (IF m.stream THEN data ELSE [b \in 1..nb |-> <<>>])
             /\ UNCHANGED <<queue, free>>
    <3>1. free' \in Seq(Nat) /\ base' \in [slots: Nat, size: Nat]
      BY <2>2 DEF IInv, Types, TypeOK, NoStorage
    <3>2. data' \in [1..nb -> Seq(Nat)]
      BY <2>2 DEF IInv, Types
    <3>3. ASSUME nb > 0 PROVE free' \in Seq(1..nb) /\ Partitioned(queue', free', nb)
      <4>1. nb = nbuckets /\ nbuckets > 0
        BY <2>2, <3>3
      <4> HIDE DEF nb
      <4> QED
        BY <2>2, <4>1 DEF IInv, Lists
    <3> QED
      BY <3>1, <3>2, <3>3
  <2> QED
    BY <2>1, <2>2 DEF Setup
<1>8. Lists'
  BY <1>5, <1>6, <1>7 DEF Lists
<1>9. OnlyTailPartial'
  BY <1>5 DEF OnlyTailPartial
<1>10. Types'
  <2>1. queue' \in Seq(1..nb) /\ data' \in [1..nb -> Seq(Int)]
    BY <1>5, <1>7
  <2>2. /\ dev' \in PlayModes /\ aq_start_count' \in Nat /\ aq_add_count' \in Nat
        /\ device_qsize' \in Nat /\ bucket_size' \in Nat \ {0}
        /\ nbuckets' \in Nat /\ filled' \in Nat
    BY <1>1, <1>2, <1>3, <1>6 DEF Setup, IInv, Types, TypeOK
  <2>3. aq_fill_buffer_flag' \in BOOLEAN
    BY DEF Setup
  <2>4. pc' \in PCs
    BY DEF Setup, PCs
  <2>5. UNCHANGED <<bufVars, callVars, device, epoch>>
    BY DEF Setup
  <2> HIDE DEF nb
  <2> QED
    BY <1>6, <1>7, <2>1, <2>2, <2>3, <2>4, <2>5 DEF IInv, Types, TypeOK, bufVars, callVars
<1>11. Control'
  <2>1. pc' \in Loops => pc \in Loops
    BY DEF Setup, Loops
  <2>2. pc' # "fill"
    BY DEF Setup
  <2> QED
    BY <1>4, <1>5, <2>1, <2>2 DEF Control, NothingToDrop
<1> QED
  BY <1>8, <1>9, <1>10, <1>11 DEF IInv

-----------------------------------------------------------------------------
LEMMA InitInv == Init => IInv
<1> SUFFICES ASSUME Init PROVE IInv
  OBVIOUS
<1> PICK m \in PlayModes : dev = m /\ bucket_size = m.frag /\ device_qsize = QueueSizeFor(m)
        /\ nbuckets = (IF m.stream THEN BucketsFor(m) ELSE 0)
        /\ base = (IF m.stream THEN [slots |-> BucketsFor(m), size |-> m.frag] ELSE NoStorage)
        /\ aq_start_count = (IF m.stream THEN StartCountFor(m) ELSE 0)
  BY DEF Init
<1>1. /\ m.frag \in Nat \ {0} /\ m.qsize \in Nat /\ m.rate \in Nat
      /\ SoftTime \in Nat /\ FillTime \in Nat
  BY PlayModesAssumption, TimesAssumption DEF Mode
<1>2. BucketsFor(m) \in Nat
  <2>1. SoftTime * m.rate \in Nat
    BY <1>1
  <2> QED
    BY <1>1, <2>1 DEF BucketsFor
<1>3. StartCountFor(m) \in Nat /\ QueueSizeFor(m) \in Nat
  BY <1>1 DEF StartCountFor, QueueSizeFor
<1>4. nbuckets \in Nat /\ aq_start_count \in Nat /\ device_qsize \in Nat
      /\ base \in [slots: Nat, size: Nat] /\ bucket_size \in Nat \ {0}
  BY <1>1, <1>2, <1>3 DEF NoStorage
<1>5. free \in Seq(1..nbuckets) /\ Partitioned(queue, free, nbuckets)
  BY <1>4, AllBucketsPartitioned DEF Init
<1>6. queue = <<>> /\ device = <<>> /\ data = [b \in 1..nbuckets |-> <<>>]
  BY DEF Init
<1>7. /\ queue \in Seq(1..nbuckets) /\ free \in Seq(Nat) /\ device \in Seq(Nat)
      /\ device \in Seq(Int)
      /\ data \in [1..nbuckets -> Seq(Nat)] /\ data \in [1..nbuckets -> Seq(Int)]
  BY <1>4, <1>5, <1>6
<1>8. aq_fill_buffer_flag \in BOOLEAN
  BY DEF Init
<1>9. /\ aq_add_count = 0 /\ made = 0 /\ src = 1 /\ n = 0 /\ pc = "idle" /\ ret = "idle"
      /\ then = "idle" /\ nfills = 0 /\ filled = 0 /\ epoch = 0
  BY DEF Init
<1>10. Types
  BY <1>4, <1>7, <1>8, <1>9 DEF Types, TypeOK, PCs
<1>11. Lists
  BY <1>5, <1>6 DEF Lists
<1>12. OnlyTailPartial
  BY <1>6 DEF OnlyTailPartial
<1>13. Control
  BY <1>9 DEF Control, Loops, NothingToDrop
<1> QED
  BY <1>10, <1>11, <1>12, <1>13 DEF IInv

LEMMA NextInv ==
  ASSUME AllDiscard
  PROVE  IInv /\ [Next]_vars => IInv'
<1> SUFFICES ASSUME IInv, [Next]_vars PROVE IInv'
  OBVIOUS
<1>1. CASE UNCHANGED vars
  <2>1. Types'
    BY <1>1 DEF IInv, Types, TypeOK, PCs, vars, cfgVars, listVars, bufVars, callVars,
       devVars
  <2>2. Lists' /\ OnlyTailPartial'
    BY <1>1, KeepLists DEF IInv, vars, cfgVars
  <2>3. Control'
    BY <1>1 DEF IInv, Control, Loops, NothingToDrop, vars, listVars, callVars
  <2> QED
    BY <2>1, <2>2, <2>3 DEF IInv
<1>2. CASE \E count \in AddCounts : AddBegin(count)
  BY <1>2, AddBeginStep
<1>3. CASE \E discard \in BOOLEAN, k \in {"idle", "setup"} :
              (k = "setup" => discard) /\ Flush(discard, k)
  BY <1>3, FlushActionStep
<1>4. CASE Update \/ SoftFlush \/ DrainControl \/ DrainDone \/ DevicePlay
  BY <1>4, UpdateStep, SoftFlushStep, DrainControlStep, DrainDoneStep, DevicePlayStep
<1>5. CASE Step
  <2>1. CASE AddDirect \/ FillLoop \/ AddDone \/ AddUnbuffered \/ AddToTail \/ AddToNew
    BY <2>1, AddDirectStep, FillLoopStep, AddDoneStep, AddUnbufferedStep, AddToTailStep,
       AddToNewStep
  <2>2. CASE QueueFull \/ SoftLoop \/ SoftDone \/ SoftControl
    BY <2>2, QueueFullStep, SoftLoopStep, SoftDoneStep, SoftControlStep
  <2>3. CASE \E m \in PlayModes : Setup(m)
    BY <2>3, SetupStep
  <2> QED
    BY <1>5, <2>1, <2>2, <2>3 DEF Step
<1> QED
  BY <1>1, <1>2, <1>3, <1>4, <1>5 DEF Next

-----------------------------------------------------------------------------
(* What each place inside aq.c knows of the queue holds whenever it is     *)
(* reached, for outputs that answer PM_REQ_DISCARD.                        *)
THEOREM Inductive ==
  ASSUME AllDiscard
  PROVE  Spec => []IInv
<1>1. Init => IInv
  BY InitInv
<1>2. IInv /\ [Next]_vars => IInv'
  BY NextInv
<1> QED
  BY <1>1, <1>2, PTL DEF Spec

(* Every variable keeps its type, whatever the outputs and the block       *)
(* lengths of compute_data() are.                                          *)
THEOREM TypeCorrect ==
  ASSUME AllDiscard
  PROVE  Spec => []TypeOK
<1>1. IInv => TypeOK
  BY DEF IInv, Types
<1> QED
  BY <1>1, Inductive, PTL

(* No bucket of the software queue is ever lost or used twice.             *)
THEOREM BucketsNeverLost ==
  ASSUME AllDiscard
  PROVE  Spec => []BucketsSound
<1>1. IInv => BucketsSound
  BY DEF IInv, Lists, BucketsSound
<1> QED
  BY <1>1, Inductive, PTL

(* Buckets leave the queue full, except for the last.                      *)
THEOREM BucketsFull ==
  ASSUME AllDiscard
  PROVE  Spec => []OnlyTailPartial
<1>1. IInv => OnlyTailPartial
  BY DEF IInv
<1> QED
  BY <1>1, Inductive, PTL

(* The device never hears what an earlier use left in a bucket: stale      *)
(* bytes are not frames, and only frames reach it.                         *)
THEOREM NeverStale ==
  ASSUME AllDiscard
  PROVE  Spec => []NoStale
<1>1. IInv => NoStale
  <2> SUFFICES ASSUME IInv, NEW i \in 1..Len(device) PROVE device[i] # Stale
    BY DEF NoStale
  <2>1. device[i] \in Nat
    BY SeqElement DEF IInv, Types
  <2> QED
    BY <2>1 DEF Stale
<1> QED
  BY <1>1, Inductive, PTL

(* Neither the end of aq_flush() nor a new set-up drops queued audio.      *)
THEOREM FlushDropsNothing ==
  ASSUME AllDiscard
  PROVE  Spec => []NothingToDrop
<1>1. IInv => NothingToDrop
  BY DEF IInv, Control
<1> QED
  BY <1>1, Inductive, PTL

-----------------------------------------------------------------------------
(* The frames in the buckets *)

(* d holds the frames from d[1] to the one before `next`, and silence      *)
(* behind them; FullOf: without silence                                    *)
Holds(d, next) ==
  /\ d[1] >= 1 /\ next - d[1] \in 1..Len(d)
  /\ \A j \in 1..Len(d) :
       d[j] = IF j <= next - d[1] THEN d[1] + j - 1 ELSE Silence
FullOf(d, next) == Holds(d, next) /\ next - d[1] = Len(d)
Behind(i) == IF i < Len(queue) THEN data[queue[i + 1]][1] ELSE src
(* Only a head that could not be handed over is padded in the queue *)
Unpadded(i) == i > 1 \/ i < Len(queue) \/ pc \notin {"error", "soft"}
Consecutive ==
  \A i \in 1..Len(queue) :
    /\ Behind(i) <= src /\ Holds(data[queue[i]], Behind(i))
    /\ Unpadded(i) => FullOf(data[queue[i]], Behind(i))

(* What the callers have left to hand over, and the outputs without queue *)
Callers ==
  /\ made = src - 1 + n
  /\ n > 0 => pc \in {"direct", "add"} \/ (pc = "fill" /\ ret = "add")
  /\ device_qsize = 0 => queue = <<>> /\ pc # "add" /\ (pc = "fill" => ret = "idle")
  /\ ~dev.stream => device_qsize = 0
  /\ pc = "direct" => device_qsize = 0
  /\ pc \in {"soft", "softControl", "setupInSoft"} => ret # "add"

Ordering == Consecutive /\ Callers

LEMMA QueueFacts ==
  ASSUME IInv
  PROVE  /\ queue \in Seq(1..nbuckets) /\ Len(queue) \in Nat
         /\ src \in Nat /\ src >= 1 /\ bucket_size \in Nat \ {0} /\ n \in Nat
         /\ data \in [1..nbuckets -> Seq(Nat)]
         /\ \A i \in 1..Len(queue) :
              /\ queue[i] \in 1..nbuckets /\ data[queue[i]] \in Seq(Nat)
              /\ Len(data[queue[i]]) \in 1..bucket_size
              /\ data[queue[i]][1] \in Nat
              /\ i < Len(queue) => Len(data[queue[i]]) = bucket_size
<1>1. /\ queue \in Seq(1..nbuckets) /\ Len(queue) \in Nat
      /\ src \in Nat /\ src >= 1 /\ bucket_size \in Nat \ {0} /\ n \in Nat
      /\ data \in [1..nbuckets -> Seq(Nat)]
  BY DEF IInv, Types, TypeOK
<1>2. ASSUME NEW i \in 1..Len(queue)
      PROVE  /\ queue[i] \in 1..nbuckets /\ data[queue[i]] \in Seq(Nat)
             /\ Len(data[queue[i]]) \in 1..bucket_size
             /\ data[queue[i]][1] \in Nat
             /\ i < Len(queue) => Len(data[queue[i]]) = bucket_size
  <2>1. queue[i] \in 1..nbuckets /\ data[queue[i]] \in Seq(Nat)
    BY <1>1, SeqElement
  <2>2. /\ Len(data[queue[i]]) \in 1..bucket_size
        /\ i < Len(queue) => Len(data[queue[i]]) = bucket_size
    BY DEF IInv, OnlyTailPartial, Partial
  <2>3. data[queue[i]][1] \in Nat
    BY <1>1, <2>1, <2>2, SeqElement
  <2> QED
    BY <2>1, <2>2, <2>3
<1> QED
  BY <1>1, <1>2

LEMMA QueueDistinct ==
  ASSUME IInv, NEW i \in 1..Len(queue), NEW j \in 1..Len(queue), i # j
  PROVE  queue[i] # queue[j]
<1>1. nbuckets \in Nat /\ nbuckets > 0
  BY DEF IInv, Lists, Types, TypeOK
<1> QED
  BY <1>1 DEF IInv, Lists, Partitioned, Distinct

LEMMA KeepConsecutive ==
  ASSUME Consecutive, UNCHANGED <<queue, data, src>>,
         queue # <<>> /\ pc \in {"error", "soft"} => pc' \in {"error", "soft"}
  PROVE  Consecutive'
BY DEF Consecutive, Holds, FullOf, Behind, Unpadded

LEMMA EmptyConsecutive ==
  ASSUME queue' = <<>>
  PROVE  Consecutive'
BY DEF Consecutive

LEMMA TailFacts ==
  ASSUME IInv, queue # <<>>, ReuseHead
  PROVE  /\ Len(queue) \in Nat /\ Len(queue) >= 1 /\ Head(queue) = queue[1]
         /\ Len(queue') = Len(queue) - 1
         /\ \A i \in 1..Len(queue) - 1 : queue'[i] = queue[i + 1]
BY QueueFacts DEF ReuseHead

(* The head leaves; a bucket that was padded was the only one. *)
LEMMA ReuseConsecutive ==
  ASSUME IInv, Consecutive, queue # <<>>, ReuseHead, src' = src,
         \A b \in 1..nbuckets : b # Head(queue) => data'[b] = data[b]
  PROVE  Consecutive'
<1> DEFINE l == Len(queue)
<1>1. /\ l \in Nat /\ l >= 1
      /\ Len(queue') = l - 1 /\ Head(queue) = queue[1]
      /\ \A i \in 1..l - 1 : queue'[i] = queue[i + 1]
  BY TailFacts
<1>2. ASSUME NEW i \in 1..l - 1
      PROVE  data'[queue'[i]] = data[queue[i + 1]]
  <2>1. i + 1 \in 1..l /\ 1 \in 1..l /\ i + 1 # 1
    BY <1>1
  <2>2. queue[i + 1] # queue[1]
    BY <2>1, QueueDistinct
  <2>3. queue[i + 1] \in 1..nbuckets
    BY <2>1, QueueFacts
  <2> QED
    BY <1>1, <2>2, <2>3
<1> SUFFICES ASSUME NEW i \in 1..Len(queue')
             PROVE  Behind(i)' <= src' /\ FullOf(data'[queue'[i]], Behind(i)')
  BY DEF Consecutive, FullOf
<1>3. i \in 1..l - 1 /\ i + 1 \in 1..l
  BY <1>1
<1>4. Behind(i)' = Behind(i + 1)
  <2>1. CASE i < l - 1
    <3>1. i + 1 \in 1..l - 1 /\ i + 1 < l
      BY <1>1, <1>3, <2>1
    <3>2. data'[queue'[i + 1]] = data[queue[i + 2]]
      BY <1>2, <3>1
    <3> QED
      BY <1>1, <2>1, <3>1, <3>2 DEF Behind
  <2>2. CASE ~(i < l - 1)
    BY <1>1, <1>3, <2>2 DEF Behind
  <2> QED
    BY <2>1, <2>2
<1>6. Unpadded(i + 1)
  BY <1>1, <1>3 DEF Unpadded
<1>5. Behind(i + 1) <= src /\ FullOf(data[queue[i + 1]], Behind(i + 1))
  BY <1>3, <1>6 DEF Consecutive
<1>7. data'[queue'[i]] = data[queue[i + 1]]
  BY <1>2, <1>3
<1> QED
  BY <1>4, <1>5, <1>7

(* d is `old` followed by i frames from `first` on *)
CopyOf(d, old, i, first) ==
  /\ Len(d) = Len(old) + i
  /\ \A j \in 1..Len(old) + i :
       d[j] = IF j <= Len(old) THEN old[j] ELSE first + j - Len(old) - 1

LEMMA CopyIs ==
  ASSUME NEW old \in Seq(Nat), NEW i \in Nat, NEW first \in Nat
  PROVE  CopyOf(old \o Frames(first, i), old, i, first)
<1> DEFINE f == Frames(first, i)
<1>1. /\ f \in Seq(Nat) /\ Len(f) = i
      /\ \A j \in 1..i : f[j] = first + j - 1
  BY DEF Frames
<1> HIDE DEF f
<1>2. /\ Len(old \o f) = Len(old) + i
      /\ \A j \in 1..Len(old) + i :
           (old \o f)[j] = IF j <= Len(old) THEN old[j] ELSE f[j - Len(old)]
  BY <1>1, ConcatProperties
<1>3. ASSUME NEW j \in 1..Len(old) + i, ~(j <= Len(old))
      PROVE  f[j - Len(old)] = first + j - Len(old) - 1
  <2>1. j - Len(old) \in 1..i
    BY <1>3
  <2> QED
    BY <1>1, <2>1
<1>4. CopyOf(old \o f, old, i, first)
  BY <1>2, <1>3 DEF CopyOf
<1> QED
  BY <1>4 DEF f

(* memcpy() goes on where the bucket and the queue end. *)
LEMMA CopyHolds ==
  ASSUME NEW old, NEW d, NEW i \in Nat, i >= 1, Len(old) \in Nat,
         NEW first \in Nat, first >= 1, CopyOf(d, old, i, first),
         Len(old) > 0 => old[1] \in Nat /\ FullOf(old, first)
  PROVE  /\ d[1] = IF Len(old) = 0 THEN first ELSE old[1]
         /\ FullOf(d, first + i)
<1> DEFINE k == Len(old)
<1>1. k \in Nat /\ 1 \in 1..k + i
  OBVIOUS
<1> HIDE DEF k
<1>2. CASE k = 0
  <2>1. Len(d) = i /\ \A j \in 1..i : d[j] = first + j - 1
    BY <1>1, <1>2 DEF CopyOf, k
  <2>2. d[1] = first
    BY <1>1, <1>2, <2>1
  <2> QED
    BY <1>1, <1>2, <2>1, <2>2 DEF Holds, FullOf, k
<1>3. CASE k > 0
  <2> DEFINE o == old[1]
  <2>0. FullOf(old, first) /\ 1 \in 1..k /\ o \in Nat
    BY <1>1, <1>3 DEF k
  <2>1. o >= 1 /\ first - o = k /\ \A j \in 1..k : old[j] = o + j - 1
    BY <2>0 DEF Holds, FullOf, k
  <2>3. d[1] = o /\ Len(d) = k + i
    BY <1>1, <2>0 DEF CopyOf, k
  <2> HIDE DEF o
  <2>4. ASSUME NEW j \in 1..k + i
        PROVE  d[j] = o + j - 1
    <3>1. CASE j <= k
      <4>1. d[j] = old[j]
        BY <3>1 DEF CopyOf, k
      <4> QED
        BY <1>1, <2>1, <3>1, <4>1
    <3>2. CASE ~(j <= k)
      <4>1. d[j] = first + j - k - 1
        BY <3>2 DEF CopyOf, k
      <4> QED
        BY <1>1, <2>0, <2>1, <4>1
    <3> QED
      BY <3>1, <3>2
  <2>5. first + i - o = k + i
    BY <1>1, <2>0, <2>1
  <2>6. FullOf(d, first + i)
    BY <1>1, <1>3, <2>0, <2>1, <2>3, <2>4, <2>5 DEF Holds, FullOf
  <2> QED
    BY <1>1, <1>3, <2>3, <2>6 DEF k, o
<1> QED
  BY <1>1, <1>2, <1>3

LEMMA TailConsecutive ==
  ASSUME IInv, Ordering, AddToTail
  PROVE  /\ Consecutive'
         /\ src' > src /\ queue' # <<>> /\ data'[queue'[1]][1] = data[queue[1]][1]
<1> DEFINE l == Len(queue)
           b == queue[l]
           i == Lesser(bucket_size - Len(data[b]), n)
<1>1. /\ l \in Nat /\ l >= 1 /\ b \in 1..nbuckets /\ data[b] \in Seq(Nat)
      /\ data \in [1..nbuckets -> Seq(Nat)] /\ data[b] # <<>>
      /\ src \in Nat /\ src >= 1 /\ pc = "add" /\ n \in Nat /\ n > 0
      /\ queue' = queue /\ pc' = pc
  <2>1. queue # <<>> /\ pc = "add" /\ n > 0 /\ queue' = queue /\ pc' = pc
    BY DEF AddToTail, TailOpen
  <2>2. l \in Nat /\ l >= 1
    BY <2>1, QueueFacts
  <2> QED
    BY <2>1, <2>2, QueueFacts
<1>2. i \in Nat /\ i >= 1
  <2>1. Len(data[b]) \in 1..bucket_size /\ Len(data[b]) # bucket_size /\ bucket_size \in Nat
    BY <1>1, QueueFacts DEF AddToTail, TailOpen, Partial
  <2> QED
    BY <1>1, <2>1 DEF Lesser
<1>3. data' = [data EXCEPT ![b] = data[b] \o Frames(src, i)] /\ src' = src + i
  BY DEF AddToTail, Copy
<1>4. FullOf(data[b], src)
  <2>1. Behind(l) = src /\ Unpadded(l)
    BY <1>1 DEF Behind, Unpadded
  <2> QED
    BY <1>1, <2>1 DEF Ordering, Consecutive
<1>5. /\ data'[b] = data[b] \o Frames(src, i)
      /\ \A c \in 1..nbuckets : c # b => data'[c] = data[c]
  BY <1>1, <1>3
<1>6. data'[b][1] = data[b][1] /\ FullOf(data'[b], src')
  <2> DEFINE d == data'[b]
             old == data[b]
  <2>1. Len(old) \in Nat /\ Len(old) > 0 /\ old[1] \in Nat
    BY <1>1, SeqElement
  <2>2. CopyOf(d, old, i, src)
    BY <1>1, <1>2, <1>5, CopyIs
  <2>3. FullOf(old, src)
    BY <1>4
  <2> HIDE DEF i, d, old
  <2>4. d[1] = old[1] /\ FullOf(d, src + i)
    BY <1>1, <1>2, <2>1, <2>2, <2>3, CopyHolds
  <2> QED
    BY <1>3, <2>4 DEF d, old
<1>7. ASSUME NEW j \in 1..l
      PROVE  /\ data'[queue[j]][1] = data[queue[j]][1]
             /\ j < l => data'[queue[j]] = data[queue[j]]
  <2>1. CASE j = l
    BY <1>6, <2>1
  <2>2. CASE j # l
    <3>1. queue[j] # b /\ queue[j] \in 1..nbuckets
      BY <1>1, <2>2, QueueDistinct, QueueFacts
    <3> QED
      BY <1>5, <3>1
  <2> QED
    BY <2>1, <2>2
<1>8. src' > src /\ src' \in Nat
  BY <1>1, <1>2, <1>3
<1> HIDE DEF i, b
<1>9. ASSUME NEW j \in 1..l
      PROVE  Behind(j)' <= src' /\ FullOf(data'[queue[j]], Behind(j)')
  <2>1. CASE j = l
    <3>1. Behind(j)' = src'
      BY <1>1, <2>1 DEF Behind
    <3>2. FullOf(data'[queue[j]], src')
      BY <1>6, <2>1 DEF b
    <3> QED
      BY <1>8, <3>1, <3>2
  <2>2. CASE j # l
    <3>1. j < l /\ j + 1 \in 1..l
      BY <1>1, <2>2
    <3>2. Behind(j)' = Behind(j)
      BY <1>1, <1>7, <3>1 DEF Behind
    <3>3. Behind(j) <= src /\ FullOf(data[queue[j]], Behind(j))
      BY <3>1 DEF Ordering, Consecutive, Unpadded
    <3>4. Behind(j) \in Nat
      BY <3>1, QueueFacts DEF Behind
    <3>5. Behind(j)' <= src'
      BY <1>1, <1>8, <3>2, <3>3, <3>4
    <3>6. FullOf(data'[queue[j]], Behind(j)')
      BY <1>7, <3>1, <3>2, <3>3
    <3> QED
      BY <3>5, <3>6
  <2> QED
    BY <2>1, <2>2
<1>10. Consecutive'
  BY <1>1, <1>9 DEF Consecutive, FullOf
<1>11. queue' # <<>> /\ queue' = queue
  BY <1>1
<1>12. data'[queue'[1]][1] = data[queue[1]][1]
  <2>1. 1 \in 1..l
    BY <1>1
  <2> QED
    BY <1>7, <1>11, <2>1
<1> QED
  BY <1>8, <1>10, <1>11, <1>12

LEMMA NewConsecutive ==
  ASSUME IInv, Ordering, AddToNew
  PROVE  /\ Consecutive'
         /\ src' > src /\ queue' # <<>>
         /\ data'[queue'[1]][1] = IF queue = <<>> THEN src ELSE data[queue[1]][1]
<1> DEFINE l == Len(queue)
           b == Head(free)
           i == Lesser(bucket_size, n)
<1>1. /\ l \in Nat /\ data \in [1..nbuckets -> Seq(Nat)] /\ queue \in Seq(1..nbuckets)
      /\ src \in Nat /\ src >= 1 /\ pc = "add" /\ pc' = pc /\ n \in Nat /\ n > 0
      /\ bucket_size \in Nat \ {0}
  BY QueueFacts DEF AddToNew
<1>2. b \in 1..nbuckets /\ \A j \in 1..l : queue[j] # b
  <2>1. /\ free \in Seq(1..nbuckets) /\ free # <<>> /\ Partitioned(queue, free, nbuckets)
    BY DEF IInv, Types, TypeOK, Lists, AddToNew
  <2>2. b = free[1] /\ 1 \in 1..Len(free)
    BY <2>1
  <2>3. b \in 1..nbuckets
    BY <2>1, <2>2, SeqElement
  <2> QED
    BY <2>1, <2>2, <2>3 DEF Partitioned
<1>3. /\ Len(queue') = l + 1 /\ queue'[l + 1] = b
      /\ \A j \in 1..l : queue'[j] = queue[j]
  BY <1>1, <1>2 DEF AddToNew
<1>4. i \in Nat /\ i >= 1 /\ i = Lesser(bucket_size - Len(<<>>), n)
  BY <1>1 DEF Lesser
<1>5. data' = [data EXCEPT ![b] = <<>> \o Frames(src, i)] /\ src' = src + i
  BY <1>4 DEF AddToNew, Copy
<1>6. /\ data'[b] = <<>> \o Frames(src, i)
      /\ \A c \in 1..nbuckets : c # b => data'[c] = data[c]
  BY <1>1, <1>2, <1>5
<1>7. data'[b][1] = src /\ FullOf(data'[b], src')
  <2> DEFINE d == data'[b]
             old == <<>>
  <2>1. old \in Seq(Nat) /\ Len(old) = 0
    OBVIOUS
  <2>2. CopyOf(d, old, i, src)
    BY <1>1, <1>4, <1>6, <2>1, CopyIs
  <2> HIDE DEF i, d, old
  <2>3. Len(old) > 0 => old[1] \in Nat /\ FullOf(old, src)
    BY <2>1
  <2>5. Len(old) \in Nat /\ i \in Nat /\ i >= 1 /\ src \in Nat /\ src >= 1
    BY <1>1, <1>4, <2>1
  <2>6. /\ d[1] = IF Len(old) = 0 THEN src ELSE old[1]
        /\ FullOf(d, src + i)
    BY <2>2, <2>3, <2>5, CopyHolds
  <2>4. d[1] = src /\ FullOf(d, src + i)
    BY <2>1, <2>6
  <2> QED
    BY <1>5, <2>4 DEF d
<1>8. ASSUME NEW j \in 1..l
      PROVE  data'[queue'[j]] = data[queue[j]]
  <2>1. queue[j] \in 1..nbuckets /\ queue[j] # b
    BY <1>2, QueueFacts
  <2> QED
    BY <1>3, <1>6, <2>1
<1>9. src' > src /\ src' \in Nat
  BY <1>1, <1>4, <1>5
<1>10. ASSUME NEW j \in 1..l + 1
       PROVE  Behind(j)' <= src' /\ FullOf(data'[queue'[j]], Behind(j)')
  <2>1. CASE j = l + 1
    <3>1. Behind(j)' = src'
      BY <1>1, <1>3, <2>1 DEF Behind
    <3>2. FullOf(data'[queue'[j]], src')
      BY <1>3, <1>7, <2>1
    <3> QED
      BY <1>9, <3>1, <3>2
  <2>2. CASE j # l + 1
    <3>1. j \in 1..l /\ j < l + 1
      BY <1>1, <2>2
    <3>2. Behind(j)' = Behind(j)
      <4>1. CASE j < l
        <5>1. j + 1 \in 1..l
          BY <1>1, <3>1, <4>1
        <5>2. data'[queue'[j + 1]] = data[queue[j + 1]]
          BY <1>8, <5>1
        <5> QED
          BY <1>3, <3>1, <4>1, <5>2 DEF Behind
      <4>2. CASE ~(j < l)
        <5>1. j = l
          BY <1>1, <3>1, <4>2
        <5> QED
          BY <1>1, <1>3, <1>7, <5>1 DEF Behind
      <4> QED
        BY <4>1, <4>2
    <3>4. Unpadded(j)
      BY <1>1 DEF Unpadded
    <3>3. Behind(j) <= src /\ FullOf(data[queue[j]], Behind(j))
      BY <3>1, <3>4 DEF Ordering, Consecutive
    <3>5. Behind(j) \in Nat
      <4>1. j < l => j + 1 \in 1..l
        BY <1>1, <3>1
      <4> QED
        BY <1>1, <4>1, QueueFacts DEF Behind
    <3>6. FullOf(data'[queue'[j]], Behind(j)')
      BY <1>8, <3>1, <3>2, <3>3
    <3> QED
      BY <1>1, <1>9, <3>2, <3>3, <3>5, <3>6
  <2> QED
    BY <2>1, <2>2
<1>11. Consecutive'
  BY <1>3, <1>10 DEF Consecutive, FullOf
<1>12. queue' # <<>>
  BY <1>1, <1>3
<1>13. data'[queue'[1]][1] = IF queue = <<>> THEN src ELSE data[queue[1]][1]
  <2>1. CASE queue = <<>>
    BY <1>3, <1>7, <2>1
  <2>2. CASE queue # <<>>
    <3>1. 1 \in 1..l
      BY <1>1, <2>2
    <3> QED
      BY <1>8, <2>2, <3>1
  <2> QED
    BY <2>1, <2>2
<1> QED
  BY <1>9, <1>11, <1>12, <1>13

(* A bucket that aq_soft_flush() fills up with silence holds what it held. *)
LEMMA PaddedHolds ==
  ASSUME NEW d \in Seq(Nat), NEW k \in Nat, Len(d) \in 1..k,
         NEW next \in Nat, Holds(d, next)
  PROVE  LET p == d \o Fill(Silence, k - Len(d))
         IN  /\ Holds(p, next) /\ p[1] = d[1] /\ Len(p) = k
             /\ Len(d) = k => p = d
<1> DEFINE f == Fill(Silence, k - Len(d))
           p == d \o f
<1>1. f \in Seq(Nat) /\ Len(f) = k - Len(d) /\ \A j \in 1..k - Len(d) : f[j] = 0
  BY DEF Fill, Silence
<1>2. Len(d) = k => f = <<>>
  BY DEF Fill
<1> HIDE DEF f
<1>3. /\ Len(p) = k /\ p \in Seq(Nat)
      /\ \A j \in 1..k : p[j] = IF j <= Len(d) THEN d[j] ELSE f[j - Len(d)]
  BY <1>1, ConcatProperties
<1>4. Len(d) = k => p = d
  BY <1>2
<1> HIDE DEF p
<1>5. Len(d) \in Nat /\ Len(d) >= 1 /\ Len(d) <= k /\ d[1] \in Nat
  BY SeqElement
<1>6. p[1] = d[1]
  BY <1>3, <1>5
<1>7. ASSUME NEW j \in 1..k, ~(j <= Len(d))
      PROVE  p[j] = 0
  <2>1. j - Len(d) \in 1..k - Len(d)
    BY <1>5, <1>7
  <2> QED
    BY <1>1, <1>3, <1>7, <2>1
<1>8. Holds(p, next)
  <2>1. /\ d[1] >= 1 /\ next - d[1] \in 1..Len(d)
        /\ \A j \in 1..Len(d) : d[j] = IF j <= next - d[1] THEN d[1] + j - 1 ELSE 0
    BY DEF Holds, Silence
  <2>2. ASSUME NEW j \in 1..k
        PROVE  p[j] = IF j <= next - d[1] THEN d[1] + j - 1 ELSE 0
    <3>1. CASE j <= Len(d)
      <4>1. p[j] = d[j] /\ j \in 1..Len(d)
        BY <1>3, <1>5, <3>1
      <4> QED
        BY <2>1, <4>1
    <3>2. CASE ~(j <= Len(d))
      BY <1>5, <1>7, <2>1, <3>2
    <3> QED
      BY <3>1, <3>2
  <2>3. next - d[1] \in 1..k
    BY <1>5, <2>1
  <2> QED
    BY <1>3, <1>6, <2>1, <2>2, <2>3 DEF Holds, Silence
<1> QED
  BY <1>3, <1>4, <1>6, <1>8 DEF p, f

(* aq_soft_flush() pads the head, which is the last bucket if it is not    *)
(* full, and its transfer fails.                                           *)
LEMMA PadConsecutive ==
  ASSUME IInv, Consecutive, queue # <<>>, pc' = "error",
         data' = [data EXCEPT ![Head(queue)] = Padded(Head(queue))],
         UNCHANGED <<queue, src>>
  PROVE  Consecutive'
<1> DEFINE l == Len(queue)
           h == queue[1]
<1>1. /\ l \in Nat /\ l >= 1 /\ Head(queue) = h /\ h \in 1..nbuckets
      /\ data \in [1..nbuckets -> Seq(Nat)] /\ src \in Nat
      /\ bucket_size \in Nat /\ data[h] \in Seq(Nat)
      /\ Len(data[h]) \in 1..bucket_size
      /\ 1 < l => Len(data[h]) = bucket_size
  <2>1. queue \in Seq(1..nbuckets)
    BY QueueFacts
  <2>2. l \in Nat /\ l >= 1 /\ Head(queue) = h /\ 1 \in 1..l
    BY <2>1
  <2> QED
    BY <2>1, <2>2, QueueFacts
<1>2. Behind(1) \in Nat /\ Holds(data[h], Behind(1)) /\ Behind(1) <= src
  <2>1. 1 < l => 2 \in 1..l /\ data[queue[2]][1] \in Nat
    BY <1>1, QueueFacts
  <2> QED
    BY <1>1, <2>1 DEF Consecutive, Behind
<1>3. /\ Holds(Padded(h), Behind(1)) /\ Padded(h)[1] = data[h][1]
      /\ 1 < l => Padded(h) = data[h]
  <2> HIDE DEF h
  <2> QED
    BY <1>1, <1>2, PaddedHolds DEF Padded
<1>4. data'[h] = Padded(h) /\ \A c \in 1..nbuckets : c # h => data'[c] = data[c]
  BY <1>1
<1>5. ASSUME NEW j \in 1..l, j # 1
      PROVE  data'[queue[j]] = data[queue[j]]
  <2>1. queue[j] # h /\ queue[j] \in 1..nbuckets
    BY <1>1, <1>5, QueueDistinct, QueueFacts
  <2> QED
    BY <1>4, <2>1
<1>6. ASSUME NEW j \in 1..l
      PROVE  Behind(j)' = Behind(j)
  <2>1. j < l => j + 1 \in 1..l /\ j + 1 # 1
    BY <1>1
  <2> QED
    BY <1>5, <2>1 DEF Behind
<1> HIDE DEF h
<1> SUFFICES ASSUME NEW j \in 1..l
             PROVE  /\ Behind(j)' <= src' /\ Holds(data'[queue'[j]], Behind(j)')
                    /\ Unpadded(j)' => FullOf(data'[queue'[j]], Behind(j)')
  BY DEF Consecutive
<1>7. CASE j # 1
  <2>1. Unpadded(j)
    BY <1>1, <1>7 DEF Unpadded
  <2> QED
    BY <1>5, <1>6, <1>7, <2>1 DEF Consecutive
<1>8. CASE j = 1
  <2>1. Behind(1)' = Behind(1) /\ queue'[1] = h
    BY <1>6, <1>8 DEF h
  <2>2. Behind(1)' <= src' /\ Holds(data'[h], Behind(1)')
    BY <1>2, <1>3, <1>4, <2>1
  <2>3. CASE 1 < l
    <3>1. Unpadded(1) /\ data'[h] = data[h]
      BY <1>3, <1>4, <2>3 DEF Unpadded
    <3>2. FullOf(data[h], Behind(1))
      BY <1>1, <3>1 DEF Consecutive, h
    <3> QED
      BY <1>8, <2>1, <2>2, <3>1, <3>2
  <2>4. CASE ~(1 < l)
    <3>1. ~Unpadded(1)'
      BY <1>1, <2>4 DEF Unpadded
    <3> QED
      BY <1>8, <2>1, <2>2, <3>1
  <2> QED
    BY <2>3, <2>4
<1> QED
  BY <1>7, <1>8

(* What is left of the caller's block, in every step. *)
LEMMA CallersNext ==
  ASSUME IInv, AllDiscard, Callers, Next
  PROVE  Callers'
<1>0. /\ made \in Nat /\ src \in Nat /\ n \in Nat /\ pc \in PCs /\ CanDiscard
      /\ bucket_size \in Nat \ {0}
  BY DEF AllDiscard, IInv, Types, TypeOK, CanDiscard
<1>1. ASSUME NEW count \in AddCounts, AddBegin(count)
      PROVE  Callers'
  <2>1. count \in Nat \ {0} /\ n = 0
    BY <1>1, CountsAssumption, <1>0 DEF Callers, AddBegin
  <2> QED
    BY <1>0, <1>1, <2>1 DEF Callers, AddBegin, cfgVars, listVars
<1>2. CASE Update
  BY <1>0, <1>2 DEF Callers, Update, cfgVars, listVars, bufVars
<1>3. ASSUME NEW discard \in BOOLEAN, NEW k \in {"idle", "setup"}, Flush(discard, k)
      PROVE  Callers'
  BY <1>0, <1>3 DEF Callers, Flush, Discard, FlushBuckets, cfgVars, bufVars
<1>4. CASE SoftFlush
  BY <1>0, <1>4 DEF Callers, SoftFlush, cfgVars, listVars, bufVars
<1>5. CASE DrainControl
  BY <1>0, <1>5 DEF Callers, DrainControl, ControlSkip, ControlFlush, Discard,
     FlushBuckets, cfgVars, bufVars, IInv, Types, TypeOK, Control, Loops
<1>6. CASE DrainDone
  BY <1>0, <1>6 DEF Callers, DrainDone, FlushBuckets, cfgVars, bufVars, IInv,
     Control, Loops
<1>7. CASE DevicePlay
  BY <1>0, <1>7 DEF Callers, DevicePlay, cfgVars, listVars, bufVars, callVars
<1>8. CASE AddDirect
  BY <1>0, <1>8 DEF Callers, AddDirect, AddFails, DropRest, cfgVars, listVars, callVars
<1>9. CASE FillLoop
  BY <1>0, <1>9 DEF Callers, FillLoop, AddFails, DropRest, HeadFull, cfgVars,
     listVars, bufVars, IInv, Control
<1>10. CASE AddDone
  BY <1>0, <1>10 DEF Callers, AddDone, cfgVars, listVars, bufVars, callVars
<1>11. CASE AddUnbuffered
  BY <1>0, <1>11 DEF Callers, AddUnbuffered, cfgVars, listVars, callVars
<1>12. CASE AddToTail
  <2>1. Len(data[queue[Len(queue)]]) \in 1..bucket_size
    <3>1. Len(queue) \in 1..Len(queue)
      BY <1>12, QueueFacts DEF AddToTail, TailOpen
    <3> QED
      BY <3>1, QueueFacts
  <2> DEFINE i == Lesser(bucket_size - Len(data[queue[Len(queue)]]), n)
  <2>2. i \in Nat /\ i <= n
    BY <1>0, <2>1 DEF Lesser
  <2>3. src' = src + i /\ n' = n - i /\ made' = made
    BY <1>12 DEF AddToTail, Copy
  <2>4. pc = "add" /\ UNCHANGED <<queue, pc, device_qsize, dev>>
    BY <1>12 DEF AddToTail, cfgVars
  <2> HIDE DEF i
  <2> QED
    BY <1>0, <2>2, <2>3, <2>4 DEF Callers
<1>13. CASE AddToNew
  <2> DEFINE i == Lesser(bucket_size - 0, n)
  <2>2. i \in Nat /\ i <= n
    BY <1>0 DEF Lesser
  <2>3. src' = src + i /\ n' = n - i /\ made' = made
    BY <1>13 DEF AddToNew, Copy
  <2>4. pc = "add" /\ UNCHANGED <<pc, device_qsize, dev>>
    BY <1>13 DEF AddToNew, cfgVars
  <2> HIDE DEF i
  <2> QED
    BY <1>0, <2>2, <2>3, <2>4 DEF Callers
<1>14. CASE QueueFull
  <2>1. pc = "add" /\ device_qsize # 0 /\ UNCHANGED <<dev, device_qsize>>
    BY <1>14 DEF Callers, QueueFull, cfgVars
  <2>2. CASE UNCHANGED bufVars /\ pc' \in {"add", "fill"} /\ ret' \in {ret, "add"}
             /\ (pc' = "fill" => ret' = "add")
    BY <1>0, <2>1, <2>2 DEF Callers, bufVars
  <2>3. CASE AddFails
    BY <1>0, <2>1, <2>3 DEF Callers, AddFails, DropRest
  <2> QED
    BY <1>14, <2>1, <2>2, <2>3 DEF QueueFull
<1>15. CASE SoftLoop
  BY <1>0, <1>15 DEF Callers, SoftLoop, cfgVars, bufVars, callVars
<1>16. CASE SoftDone
  BY <1>0, <1>16 DEF Callers, SoftDone, cfgVars, listVars, bufVars, callVars,
     IInv, Types, TypeOK
<1>17. CASE SoftControl
  BY <1>0, <1>17 DEF Callers, SoftControl, ControlSkip, ControlFlush, Discard,
     FlushBuckets, cfgVars, bufVars, callVars, IInv, Types, TypeOK, Control, Loops
<1>18. ASSUME NEW m \in PlayModes, Setup(m)
       PROVE  Callers'
  <2>1. queue' = <<>> /\ n = 0
    BY <1>0, <1>18 DEF Setup, IInv, Control, NothingToDrop, Callers
  <2>2. /\ dev' = m /\ device_qsize' = QueueSizeFor(m) /\ UNCHANGED bufVars
        /\ pc' \in {"idle", "soft", "drain"} /\ (pc' = "soft" => ret' # "add")
    BY <1>0, <1>18 DEF Setup, Callers, callVars
  <2> QED
    BY <1>0, <2>1, <2>2 DEF Callers, QueueSizeFor, bufVars
<1> QED
  BY <1>1, <1>2, <1>3, <1>4, <1>5, <1>6, <1>7, <1>8, <1>9, <1>10, <1>11, <1>12,
     <1>13, <1>14, <1>15, <1>16, <1>17, <1>18 DEF Next, Step

LEMMA ConsecutiveNext ==
  ASSUME IInv, AllDiscard, Ordering, Next
  PROVE  Consecutive'
<1>0. /\ pc \in PCs /\ CanDiscard /\ src \in Nat /\ made \in Nat /\ n \in Nat
      /\ Consecutive /\ Callers
  BY DEF AllDiscard, IInv, Types, TypeOK, CanDiscard, Ordering
<1>1. ASSUME NEW count \in AddCounts, AddBegin(count)
      PROVE  Consecutive'
  <2>1. pc = "idle" /\ src' = src /\ UNCHANGED <<queue, data>>
    BY <1>0, <1>1 DEF Callers, AddBegin, listVars
  <2> QED
    BY <1>0, <2>1, KeepConsecutive
<1>2. CASE Update
  BY <1>0, <1>2, KeepConsecutive DEF Update, listVars, bufVars
<1>3. ASSUME NEW discard \in BOOLEAN, NEW k \in {"idle", "setup"}, Flush(discard, k)
      PROVE  Consecutive'
  <2>1. CASE discard
    BY <1>0, <1>3, <2>1, EmptyConsecutive DEF Flush, Discard, FlushBuckets
  <2>2. CASE ~discard
    <3>1. /\ UNCHANGED <<queue, data, src>>
          /\ ~dev.stream \/ pc' = "soft"
      BY <1>3, <2>2 DEF Flush, bufVars
    <3>2. ~dev.stream => queue = <<>>
      BY <1>0 DEF Callers
    <3> QED
      BY <1>0, <3>1, <3>2, KeepConsecutive
  <2> QED
    BY <2>1, <2>2
<1>4. CASE SoftFlush
  BY <1>0, <1>4, KeepConsecutive DEF SoftFlush, listVars, bufVars
<1>5. CASE DrainControl
  BY <1>0, <1>5, EmptyConsecutive DEF DrainControl, ControlSkip, ControlFlush,
     Discard, FlushBuckets
<1>6. CASE DrainDone
  BY <1>6, EmptyConsecutive DEF DrainDone, FlushBuckets
<1>7. CASE DevicePlay
  BY <1>0, <1>7, KeepConsecutive DEF DevicePlay, listVars, bufVars
<1>8. CASE AddDirect
  <2>1. queue' = <<>>
    BY <1>0, <1>8 DEF Callers, AddDirect, listVars
  <2> QED
    BY <2>1, EmptyConsecutive
<1>9. CASE FillLoop
  <2>1. CASE /\ HeadFull /\ ReuseHead /\ UNCHANGED <<data, bufVars>>
    BY <1>0, <2>1, ReuseConsecutive DEF HeadFull, bufVars
  <2>2. CASE UNCHANGED <<listVars, src>>
    BY <1>0, <1>9, <2>2, KeepConsecutive DEF FillLoop, listVars
  <2> QED
    BY <1>9, <2>1, <2>2 DEF FillLoop, AddFails, DropRest, bufVars
<1>10. CASE AddDone
  BY <1>0, <1>10, KeepConsecutive DEF AddDone, listVars, bufVars
<1>11. CASE AddUnbuffered
  <2>1. queue' = <<>>
    BY <1>11 DEF AddUnbuffered, listVars, IInv, Lists
  <2> QED
    BY <2>1, EmptyConsecutive
<1>12. CASE AddToTail
  BY <1>12, TailConsecutive
<1>13. CASE AddToNew
  BY <1>13, NewConsecutive
<1>14. CASE QueueFull
  <2>1. CASE /\ HeadFull /\ ReuseHead /\ UNCHANGED <<data, bufVars>>
    BY <1>0, <2>1, ReuseConsecutive DEF HeadFull, bufVars
  <2>2. CASE UNCHANGED <<listVars, src>>
    BY <1>0, <1>14, <2>2, KeepConsecutive DEF QueueFull, listVars
  <2> QED
    BY <1>14, <2>1, <2>2 DEF QueueFull, AddFails, DropRest, bufVars
<1>15. CASE SoftLoop
  <2>1. /\ queue # <<>> /\ src' = src /\ then = "idle"
        /\ data' = [data EXCEPT ![Head(queue)] = Padded(Head(queue))]
    BY <1>15 DEF SoftLoop, bufVars, IInv, Control, Loops
  <2>2. CASE ReuseHead
    <3>1. \A b \in 1..nbuckets : b # Head(queue) => data'[b] = data[b]
      BY <2>1 DEF IInv, Types
    <3> QED
      BY <1>0, <2>1, <2>2, <3>1, ReuseConsecutive
  <2>3. CASE pc' = "error" /\ queue' = queue
    BY <1>0, <2>1, <2>3, PadConsecutive
  <2> QED
    BY <1>15, <2>1, <2>2, <2>3 DEF SoftLoop
<1>16. CASE SoftDone
  BY <1>16, EmptyConsecutive DEF SoftDone, listVars
<1>17. CASE SoftControl
  <2>1. CASE queue' = <<>>
    BY <2>1, EmptyConsecutive
  <2>2. CASE pc' = "soft" /\ UNCHANGED queue
    BY <1>0, <1>17, <2>2, KeepConsecutive DEF SoftControl, bufVars
  <2> QED
    BY <1>0, <1>17, <2>1, <2>2 DEF SoftControl, ControlSkip, ControlFlush, Discard,
       FlushBuckets
<1>18. ASSUME NEW m \in PlayModes, Setup(m)
       PROVE  Consecutive'
  <2>1. queue' = <<>>
    BY <1>18 DEF Setup, IInv, Control, NothingToDrop
  <2> QED
    BY <2>1, EmptyConsecutive
<1> QED
  BY <1>1, <1>2, <1>3, <1>4, <1>5, <1>6, <1>7, <1>8, <1>9, <1>10, <1>11, <1>12,
     <1>13, <1>14, <1>15, <1>16, <1>17, <1>18 DEF Next, Step

-----------------------------------------------------------------------------
(* The stream of frames *)

(* The frame the queue begins with is the one the device waits for. *)
LEMMA GivenRange ==
  ASSUME IInv, Consecutive
  PROVE  /\ Given \in Nat /\ Given <= src - 1
         /\ Given = IF queue = <<>> THEN src - 1 ELSE data[queue[1]][1] - 1
<1>1. CASE queue = <<>>
  BY <1>1, QueueFacts DEF Given
<1>2. CASE queue # <<>>
  <2>1. Head(queue) = queue[1] /\ 1 \in 1..Len(queue)
    BY <1>2, QueueFacts
  <2>2. Given = data[queue[1]][1] - 1
    BY <1>2, <2>1 DEF Given
  <2>3. Behind(1) <= src /\ Holds(data[queue[1]], Behind(1))
    BY <2>1 DEF Consecutive
  <2>4. src \in Nat /\ data[queue[1]][1] \in Nat /\ Len(data[queue[1]]) \in Nat
    BY <2>1, QueueFacts
  <2>5. Behind(1) \in Nat
    <3>1. 1 < Len(queue) => 2 \in 1..Len(queue)
      BY <2>1
    <3> QED
      BY <2>4, <3>1, QueueFacts DEF Behind
  <2>6. data[queue[1]][1] >= 1 /\ data[queue[1]][1] <= Behind(1) - 1
    BY <2>3, <2>4, <2>5 DEF Holds
  <2> QED
    BY <1>2, <2>2, <2>3, <2>4, <2>5, <2>6
<1> QED
  BY <1>1, <1>2

(* A bucket is a run of frames and the silence behind it. *)
LEMMA HoldsRun ==
  ASSUME NEW d \in Seq(Nat), NEW next \in Nat, d[1] \in Nat, Holds(d, next)
  PROVE  d = Stream!Run(d[1], next - d[1]) \o Stream!Quiet(Len(d) - (next - d[1]))
<1> DEFINE k == next - d[1]
           r == Stream!Run(d[1], k)
           q == Stream!Quiet(Len(d) - k)
<1>1. k \in 1..Len(d) /\ Len(d) \in Nat
      /\ \A j \in 1..Len(d) : d[j] = IF j <= k THEN d[1] + j - 1 ELSE 0
  BY DEF Holds, Silence
<1> HIDE DEF k
<1>2. r \in Seq(Nat) /\ Len(r) = k /\ \A j \in 1..k : r[j] = d[1] + j - 1
  BY <1>1 DEF Stream!Run
<1>3. q \in Seq(Nat) /\ Len(q) = Len(d) - k /\ \A j \in 1..Len(d) - k : q[j] = 0
  BY <1>1 DEF Stream!Quiet
<1> HIDE DEF r, q
<1>4. /\ r \o q \in Seq(Nat) /\ Len(r \o q) = Len(d)
      /\ \A j \in 1..Len(d) : (r \o q)[j] = IF j <= k THEN r[j] ELSE q[j - k]
  <2>1. Len(r) + Len(q) = Len(d)
    BY <1>1, <1>2, <1>3
  <2>2. /\ r \o q \in Seq(Nat) /\ Len(r \o q) = Len(r) + Len(q)
        /\ \A j \in 1..Len(r) + Len(q) :
             (r \o q)[j] = IF j <= Len(r) THEN r[j] ELSE q[j - Len(r)]
    BY <1>2, <1>3, ConcatProperties
  <2> QED
    BY <1>2, <2>1, <2>2
<1> DEFINE s == r \o q
<1> HIDE DEF s
<1>5. ASSUME NEW j \in 1..Len(d)
      PROVE  d[j] = s[j]
  <2>1. CASE j <= k
    BY <1>1, <1>2, <1>4, <2>1 DEF s
  <2>2. CASE ~(j <= k)
    <3>1. j - k \in 1..Len(d) - k
      BY <1>1, <2>2
    <3> QED
      BY <1>1, <1>3, <1>4, <2>2, <3>1 DEF s
  <2> QED
    BY <2>1, <2>2
<1>6. d = s
  BY <1>4, <1>5, SeqEqual DEF s
<1> QED
  BY <1>6 DEF s, r, q, k

(* The head, with its silence, is the next of the stream: silence comes    *)
(* only when nothing is left behind it.                                    *)
HeadSent(s) ==
  /\ queue # <<>> /\ ReuseHead /\ UNCHANGED <<src, epoch>>
  /\ s[1] = data[queue[1]][1] /\ Holds(s, Behind(1))
  /\ 1 < Len(queue) => FullOf(s, Behind(1))
  /\ device' = device \o s
  /\ \A b \in 1..nbuckets : b # Head(queue) => data'[b] = data[b]

LEMMA HeadTransfer ==
  ASSUME IInv, Consecutive, NEW s \in Seq(Nat), HeadSent(s)
  PROVE  Stream!Transfer
<1>0. /\ queue # <<>> /\ s[1] = data[queue[1]][1] /\ Holds(s, Behind(1))
      /\ ReuseHead /\ UNCHANGED <<src, epoch>>
  BY DEF HeadSent
<1>1. /\ 1 \in 1..Len(queue) /\ Len(queue) \in Nat /\ src \in Nat
      /\ queue \in Seq(1..nbuckets)
  BY <1>0, QueueFacts
<1>2. /\ s[1] \in Nat /\ Given = s[1] - 1
      /\ 1 < Len(queue) => 2 \in 1..Len(queue) /\ data[queue[2]][1] \in Nat
  <2>1. Given = data[queue[1]][1] - 1
    BY <1>0, GivenRange
  <2>2. data[queue[1]][1] \in Nat
    BY <1>1, QueueFacts
  <2>3. 1 < Len(queue) => 2 \in 1..Len(queue)
    BY <1>1
  <2> QED
    BY <1>0, <2>1, <2>2, <2>3, QueueFacts
<1>3. PICK next \in Nat :
        next = Behind(1) /\ (~(1 < Len(queue)) => next = src) /\ next <= src
  BY <1>1, <1>2 DEF Behind, Consecutive
<1>4. Given' = next - 1
  <2>1. CASE 1 < Len(queue)
    <3>1. queue' # <<>> /\ queue'[1] = queue[2]
      <4>1. 1 \in 1..Len(queue) - 1
        BY <1>1, <2>1
      <4>2. Len(queue') = Len(queue) - 1 /\ queue'[1] = queue[1 + 1]
        BY <1>0, <4>1, TailFacts
      <4> QED
        BY <1>1, <2>1, <4>2
    <3>2. queue[2] # queue[1] /\ queue[2] \in 1..nbuckets /\ Head(queue) = queue[1]
      BY <1>1, <1>2, <2>1, QueueDistinct, QueueFacts
    <3>3. data'[queue'[1]][1] = next
      BY <1>3, <2>1, <3>1, <3>2 DEF Behind, HeadSent
    <3>4. Given' = data'[queue'[1]][1] - 1
      <4>1. Head(queue') = queue'[1]
        BY <1>0, <1>1, <3>1 DEF ReuseHead
      <4> QED
        BY <3>1, <4>1 DEF Given
    <3> QED
      BY <3>3, <3>4
  <2>2. CASE ~(1 < Len(queue))
    <3>1. queue' = <<>>
      BY <1>0, <1>1, <2>2 DEF ReuseHead
    <3>2. Given' = src' - 1 /\ src' = src
      BY <1>0, <3>1 DEF Given
    <3> QED
      BY <1>3, <2>2, <3>2
  <2> QED
    BY <2>1, <2>2
<1>5. PICK first, size, pad \in Nat :
        /\ first = s[1] /\ size = Len(s) /\ next > first
        /\ pad = size - (next - first) /\ pad <= size
  <2>1. next - s[1] \in 1..Len(s) /\ Len(s) \in Nat
    BY <1>0, <1>3 DEF Holds
  <2> QED
    BY <1>2, <2>1
<1> DEFINE run == Stream!Run(Given + 1, Given' - Given)
<1>6. Given = first - 1 /\ Given + 1 = first
      /\ Given' - Given = next - first /\ next - first \in Nat
  <2>1. Given = first - 1
    BY <1>2, <1>5
  <2>2. next > first /\ Given' = next - 1
    BY <1>4, <1>5
  <2> QED
    BY <2>1, <2>2
<1>7. run = Stream!Run(first, next - first) /\ run \in Seq(Nat)
  <2>1. run = Stream!Run(first, next - first)
    BY <1>6
  <2> DEFINE k == next - first
  <2>2. k \in Nat
    BY <1>6
  <2> HIDE DEF k
  <2>3. Stream!Run(first, k) \in Seq(Nat)
    BY <2>2 DEF Stream!Run
  <2> QED
    BY <2>1, <2>3 DEF k
<1>8. Stream!Quiet(pad) \in Seq(Nat)
  BY DEF Stream!Quiet
<1>9. s = run \o Stream!Quiet(pad)
  <2>1. Holds(s, next)
    BY <1>0, <1>3
  <2> HIDE DEF run
  <2> QED
    BY <1>2, <1>5, <1>7, <2>1, HoldsRun
<1>10. device \in Seq(Nat)
  BY DEF IInv, Types
<1>11. device' = device \o run \o Stream!Quiet(pad)
  <2> HIDE DEF run
  <2>1. device' = device \o (run \o Stream!Quiet(pad))
    BY <1>9 DEF HeadSent
  <2>2. run \in Seq(Nat)
    BY <1>7
  <2> DEFINE silence == Stream!Quiet(pad)
  <2>3. silence \in Seq(Nat)
    BY <1>8
  <2> HIDE DEF silence
  <2>4. device' = device \o (run \o silence)
    BY <2>1 DEF silence
  <2>5. device' = device \o run \o silence
    <3>1. device \o (run \o silence) = device \o run \o silence
      BY <1>10, <2>2, <2>3
    <3> QED
      BY <2>4, <3>1
  <2> QED
    BY <2>5 DEF silence
<1>12. Len(device') - Len(device) = size
  <2>1. device' = device \o s
    BY DEF HeadSent
  <2>2. Len(device') = Len(device) + Len(s) /\ Len(device) \in Nat
    BY <1>10, <2>1, ConcatProperties
  <2> QED
    BY <1>5, <2>2
<1>13. pad > 0 => next = src
  <2>1. CASE 1 < Len(queue)
    <3>1. next - s[1] = Len(s)
      BY <1>3, <2>1 DEF FullOf, HeadSent
    <3> QED
      BY <1>5, <3>1
  <2> QED
    BY <1>3, <2>1
<1>14. Given' >= Given /\ Given' <= src' - 1 /\ (pad > 0 => Given' = src' - 1)
  <2>1. src' = src /\ src \in Nat
    BY <1>0, <1>1
  <2>2. Given = first - 1 /\ Given' = next - 1 /\ first < next /\ next <= src
    BY <1>3, <1>4, <1>5, <1>6
  <2> QED
    BY <1>13, <2>1, <2>2
<1>15. pad \in 0..(Len(device') - Len(device))
  BY <1>5, <1>12
<1>16. epoch' = epoch /\ src' - 1 >= src - 1
  BY <1>0, <1>1
<1> QED
  BY <1>11, <1>14, <1>15, <1>16 DEF Stream!Transfer

(* A block that bypasses the queue is the next of the stream. *)
LEMMA DirectTransfer ==
  ASSUME IInv, queue = <<>>, queue' = <<>>, n \in Nat, n > 0,
         device' = device \o Frames(src, n), src' = src + n, epoch' = epoch
  PROVE  Stream!Transfer
<1>1. device \in Seq(Nat) /\ src \in Nat /\ src >= 1
  BY DEF IInv, Types, TypeOK
<1>2. Given = src - 1 /\ Given' = src + n - 1
  BY <1>1 DEF Given
<1>3. Stream!Run(Given + 1, Given' - Given) = Frames(src, n)
  <2>1. Given + 1 = src /\ Given' - Given = n
    BY <1>1, <1>2
  <2> QED
    BY <2>1 DEF Stream!Run, Frames
<1>4. Frames(src, n) \in Seq(Nat) /\ Stream!Quiet(0) = <<>>
  BY <1>1, FramesType DEF Stream!Quiet
<1>5. device' \in Seq(Nat) /\ Len(device') - Len(device) \in Nat
  <2>1. Len(device') = Len(device) + Len(Frames(src, n)) /\ device' \in Seq(Nat)
    BY <1>1, <1>4, ConcatProperties
  <2> QED
    BY <1>1, <1>4, <2>1
<1>6. device' = device \o Stream!Run(Given + 1, Given' - Given) \o Stream!Quiet(0)
  <2>1. device' = device \o Frames(src, n) \o <<>>
    BY <1>5, ConcatEmptySeq
  <2> QED
    BY <1>3, <1>4, <2>1
<1>7. 0 \in 0..(Len(device') - Len(device))
  BY <1>5
<1>8. Given' >= Given /\ src' - 1 >= src - 1 /\ Given' <= src' - 1
  BY <1>1, <1>2
<1> QED
  BY <1>6, <1>7, <1>8 DEF Stream!Transfer

LEMMA StreamDiscard ==
  ASSUME IInv, FlushBuckets, src' = src
  PROVE  Stream!Discard
BY DEF Stream!Discard, FlushBuckets, Given, IInv, Types, TypeOK

LEMMA StreamStutter ==
  ASSUME UNCHANGED <<queue, data, src, device, epoch>>
  PROVE  UNCHANGED Stream!vars
BY DEF Stream!vars, Given

LEMMA InitStream == Init => Ordering /\ Stream!Init
<1> SUFFICES ASSUME Init PROVE Ordering /\ Stream!Init
  OBVIOUS
<1>1. /\ queue = <<>> /\ made = 0 /\ src = 1 /\ n = 0 /\ pc = "idle"
      /\ device = <<>> /\ epoch = 0
      /\ ~dev.stream => device_qsize = 0
  BY DEF Init, QueueSizeFor
<1> QED
  BY <1>1 DEF Ordering, Consecutive, Callers, Stream!Init, Given

(* Every step of aq.c is a step of FrameStream or none. *)
LEMMA StreamNext ==
  ASSUME IInv, AllDiscard, Ordering, Next
  PROVE  Stream!Next \/ UNCHANGED Stream!vars
<1>0. CanDiscard /\ Consecutive /\ Callers /\ pc \in PCs
  BY DEF AllDiscard, IInv, Types, TypeOK, CanDiscard, Ordering
<1>1. CASE UNCHANGED <<queue, data, src, device, epoch>>
  BY <1>1, StreamStutter
<1>2. CASE FlushBuckets /\ src' = src
  BY <1>2, StreamDiscard DEF Stream!Next
<1>3. CASE /\ HeadFull /\ Output(Content(Head(queue))) /\ ReuseHead
           /\ UNCHANGED <<data, src, epoch>>
  <2>1. /\ queue # <<>> /\ 1 \in 1..Len(queue) /\ Head(queue) = queue[1]
        /\ ~Partial(Head(queue)) /\ queue[1] \in 1..nbuckets
    BY <1>3, QueueFacts DEF HeadFull
  <2>2. Content(queue[1]) = data[queue[1]] /\ data[queue[1]] \in Seq(Nat)
    BY <2>1, FullContent DEF IInv
  <2>3. /\ Holds(data[queue[1]], Behind(1))
        /\ 1 < Len(queue) => FullOf(data[queue[1]], Behind(1))
    BY <1>0, <2>1 DEF Consecutive, Unpadded
  <2>4. HeadSent(data[queue[1]])
    BY <1>3, <2>1, <2>2, <2>3 DEF HeadSent, Output
  <2> QED
    BY <1>0, <2>2, <2>4, HeadTransfer DEF Stream!Next
<1>4. CASE AddToTail \/ AddToNew
  <2>1. src' > src /\ queue' # <<>> /\ UNCHANGED <<device, epoch>>
        /\ data'[queue'[1]][1] = IF queue = <<>> THEN src ELSE data[queue[1]][1]
    BY <1>4, TailConsecutive, NewConsecutive DEF AddToTail, AddToNew, TailOpen, devVars
  <2>2. src \in Nat /\ src' \in Nat /\ queue' \in Seq(1..nbuckets')
    <3>1. IInv'
      BY <1>4, AddToTailStep, AddToNewStep
    <3> QED
      BY <3>1 DEF IInv, Types, TypeOK
  <2>3. Given' = data'[queue'[1]][1] - 1
    <3>1. Head(queue') = queue'[1]
      BY <2>1, <2>2
    <3> QED
      BY <2>1, <3>1 DEF Given
  <2>4. Given' = Given
    BY <1>0, <2>1, <2>3, GivenRange
  <2>5. Stream!Accept
    <3>1. src' > src
      BY <2>1
    <3>2. src \in Nat /\ src' \in Nat
      BY <2>2
    <3>3. src' - 1 > src - 1
      <4>1. \A a, b \in Nat : a > b => a - 1 > b - 1
        OBVIOUS
      <4> QED
        BY <3>1, <3>2, <4>1
    <3> QED
      BY <2>1, <2>4, <3>3 DEF Stream!Accept
  <2> QED
    BY <2>5 DEF Stream!Next
<1>5. CASE SoftLoop
  <2> DEFINE h == Head(queue)
             s == Padded(h)
  <2>1. /\ queue # <<>> /\ data' = [data EXCEPT ![h] = s] /\ src' = src /\ epoch' = epoch
    BY <1>5 DEF SoftLoop, bufVars
  <2>2. /\ Len(queue) \in Nat /\ 1 \in 1..Len(queue) /\ h = queue[1] /\ h \in 1..nbuckets
        /\ data[h] \in Seq(Nat) /\ data \in [1..nbuckets -> Seq(Nat)]
        /\ Len(data[h]) \in 1..bucket_size
        /\ 1 < Len(queue) => Len(data[h]) = bucket_size
        /\ bucket_size \in Nat
    BY <2>1, QueueFacts
  <2>3. Holds(data[h], Behind(1)) /\ (1 < Len(queue) => FullOf(data[h], Behind(1)))
    BY <1>0, <2>2 DEF Consecutive, Unpadded
  <2>4. Behind(1) \in Nat
    <3>1. 1 < Len(queue) => 2 \in 1..Len(queue)
      BY <2>2
    <3> QED
      BY <3>1, QueueFacts DEF Behind
  <2> HIDE DEF h
  <2>5. /\ Holds(s, Behind(1)) /\ s[1] = data[h][1] /\ Len(s) = bucket_size
        /\ Len(data[h]) = bucket_size => s = data[h]
    BY <2>2, <2>3, <2>4, PaddedHolds DEF Padded
  <2>6. s \in Seq(Nat)
    <3>1. bucket_size - Len(data[h]) \in Nat
      BY <2>2
    <3>2. Fill(Silence, bucket_size - Len(data[h])) \in Seq(Nat)
      BY <3>1, FillType DEF Silence
    <3> QED
      BY <2>2, <3>2, ConcatProperties DEF Padded
  <2> HIDE DEF s
  <2>7. data'[h] = s /\ \A b \in 1..nbuckets : b # h => data'[b] = data[b]
    BY <2>1, <2>2
  <2>8. CASE Output(s) /\ ReuseHead
    <3>1. 1 < Len(queue) => FullOf(s, Behind(1))
      BY <2>2, <2>3, <2>5
    <3>2. \A b \in 1..nbuckets : b # Head(queue) => data'[b] = data[b]
      BY <2>7 DEF h
    <3>3. HeadSent(s)
      BY <2>1, <2>2, <2>5, <2>8, <3>1, <3>2 DEF HeadSent, Output
    <3> QED
      BY <1>0, <2>6, <3>3, HeadTransfer DEF Stream!Next
  <2>9. CASE UNCHANGED <<queue, device>>
    <3>1. Given' = data'[h][1] - 1 /\ Given = data[h][1] - 1
      BY <2>1, <2>9 DEF Given, h
    <3> QED
      BY <2>1, <2>5, <2>7, <2>9, <3>1 DEF Stream!vars
  <2> QED
    BY <1>5, <2>8, <2>9 DEF SoftLoop, s, h
<1>6. CASE AddDirect
  <2>1. queue = <<>> /\ queue' = <<>> /\ epoch' = epoch /\ UNCHANGED data
    BY <1>0, <1>6 DEF AddDirect, Callers, listVars
  <2>2. CASE Output(Frames(src, n)) /\ src' = src + n /\ n > 0
    BY <2>1, <2>2, DirectTransfer DEF Output, Stream!Next, IInv, Types, TypeOK
  <2>3. CASE Output(Frames(src, n)) /\ src' = src + n /\ ~(n > 0)
    <3>1. n = 0 /\ src \in Nat /\ device \in Seq(Nat)
      BY <2>3 DEF IInv, Types, TypeOK
    <3>2. Frames(src, n) = <<>>
      BY <3>1 DEF Frames
    <3> QED
      BY <2>1, <2>3, <3>1, <3>2, StreamStutter DEF Output
  <2>4. CASE src' = src /\ device' = device
    BY <2>1, <2>4, StreamStutter DEF AddDirect, listVars
  <2> QED
    BY <1>6, <2>2, <2>3, <2>4 DEF AddDirect, AddFails, DropRest
<1>7. CASE AddUnbuffered
  <2>1. queue = <<>> /\ queue' = <<>> /\ epoch' = epoch /\ UNCHANGED data /\ n > 0
    BY <1>7 DEF AddUnbuffered, IInv, Lists, listVars
  <2>2. CASE Output(Frames(src, n)) /\ src' = src + n
    BY <2>1, <2>2, DirectTransfer DEF Output, Stream!Next, IInv, Types, TypeOK
  <2>4. CASE src' = src /\ device' = device
    BY <2>1, <2>4, StreamStutter DEF listVars
  <2> QED
    BY <1>7, <2>2, <2>4 DEF AddUnbuffered
<1>8. ASSUME NEW count \in AddCounts, AddBegin(count)
      PROVE  UNCHANGED <<queue, data, src, device, epoch>>
  BY <1>0, <1>8 DEF Callers, AddBegin, listVars, devVars, IInv, Types, TypeOK
<1>9. ASSUME NEW discard \in BOOLEAN, NEW k \in {"idle", "setup"}, Flush(discard, k)
      PROVE  \/ FlushBuckets /\ src' = src
             \/ UNCHANGED <<queue, data, src, device, epoch>>
  BY <1>9 DEF Flush, Discard, bufVars, devVars
<1>10. CASE Update \/ SoftFlush \/ DevicePlay \/ AddDone \/ SoftDone
  BY <1>1, <1>10 DEF Update, SoftFlush, DevicePlay, AddDone, SoftDone, listVars,
     bufVars, devVars
<1>11. CASE DrainControl \/ DrainDone
  BY <1>0, <1>2, <1>11 DEF DrainControl, DrainDone, ControlSkip, ControlFlush, Discard,
     bufVars
<1>12. CASE SoftControl
  BY <1>0, <1>1, <1>2, <1>12 DEF SoftControl, ControlSkip, ControlFlush, Discard,
     bufVars, devVars
<1>13. CASE FillLoop
  BY <1>1, <1>3, <1>13 DEF FillLoop, AddFails, DropRest, listVars, bufVars
<1>14. CASE QueueFull
  BY <1>1, <1>3, <1>14 DEF QueueFull, AddFails, DropRest, listVars, bufVars
<1>15. ASSUME NEW m \in PlayModes, Setup(m)
       PROVE  Stream!Next \/ UNCHANGED Stream!vars
  <2>1. queue = <<>> /\ queue' = <<>> /\ UNCHANGED <<src, device, epoch>>
    BY <1>15 DEF Setup, IInv, Control, NothingToDrop, bufVars
  <2> QED
    BY <2>1 DEF Stream!vars, Given
<1> QED
  BY <1>1, <1>2, <1>4, <1>5, <1>6, <1>7, <1>8, <1>9, <1>10, <1>11, <1>12, <1>13,
     <1>14, <1>15 DEF Next, Step

LEMMA StreamIdle ==
  ASSUME IInv, Ordering, UNCHANGED vars
  PROVE  Ordering' /\ UNCHANGED Stream!vars
<1>1. UNCHANGED <<queue, data, src, device, epoch, pc, ret, made, n, device_qsize, dev>>
  BY DEF vars, cfgVars, listVars, bufVars, callVars, devVars
<1>2. Consecutive'
  BY <1>1, KeepConsecutive DEF Ordering
<1>3. Callers'
  BY <1>1 DEF Ordering, Callers
<1> QED
  BY <1>1, <1>2, <1>3, StreamStutter DEF Ordering

LEMMA OrderingStep ==
  ASSUME IInv, AllDiscard, Ordering, [Next]_vars
  PROVE  IInv' /\ Ordering' /\ [Stream!Next]_(Stream!vars)
<1>1. CASE Next
  <2>1. Ordering => Consecutive /\ Callers
    BY DEF Ordering
  <2> QED
    BY <1>1, <2>1, NextInv, CallersNext, ConsecutiveNext, StreamNext DEF Ordering
<1>2. CASE UNCHANGED vars
  BY <1>2, NextInv, StreamIdle
<1> QED
  BY <1>1, <1>2

(* aq.c is the stream it promises to compute_data(), whatever the outputs, *)
(* their sizes, failures and changes while playing: frames reach the       *)
(* device in the order aq_add() took them, each once, silence only at an   *)
(* end, and only a discard drops any.                                      *)
THEOREM StreamImplemented ==
  ASSUME AllDiscard
  PROVE  Spec => ImplementsStream
<1>1. Init => IInv /\ Ordering /\ Stream!Init
  BY InitInv, InitStream
<1>2. IInv /\ Ordering /\ [Next]_vars => IInv' /\ Ordering' /\ [Stream!Next]_(Stream!vars)
  BY OrderingStep
<1> QED
  BY <1>1, <1>2, PTL DEF Spec, ImplementsStream, Stream!Spec

-----------------------------------------------------------------------------
(* Every frame once, in order *)

(* Every nonempty set of natural numbers has a least element. *)
LEMMA LeastNatural ==
  ASSUME NEW T \in SUBSET Nat, T # {}
  PROVE  \E i \in T : \A j \in T : i <= j
<1>1. PICK i \in T : \A j \in T : <<j, i>> \notin OpToRel(<, Nat)
  BY NatLessThanWellFounded, WFMin
<1>2. \A j \in T : ~(j < i)
  BY <1>1 DEF OpToRel
<1> QED
  BY <1>2

(* What the device heard since the last discard. *)
Heard(d, e, g) == e <= g /\ Audible(d) = e + 1..g /\ Ascending(d)

(* Ascending, on Len instead of DOMAIN. *)
LEMMA SequenceFrames ==
  ASSUME NEW d \in Seq(Nat)
  PROVE  /\ \A f : f \in Audible(d) <=> \E i \in 1..Len(d) : f = d[i] /\ f # 0
         /\ Ascending(d) <=> \A i, j \in 1..Len(d) :
                               i < j /\ d[i] # 0 /\ d[j] # 0 => d[i] < d[j]
<1>1. DOMAIN d = 1..Len(d)
  OBVIOUS
<1>2. \A f : f \in Audible(d) <=> \E i \in 1..Len(d) : f = d[i] /\ f # 0
  BY <1>1 DEF Audible, Silence
<1>3. Ascending(d) <=> \A i, j \in 1..Len(d) :
                         i < j /\ d[i] # 0 /\ d[j] # 0 => d[i] < d[j]
  BY <1>1 DEF Ascending, Silence
<1> QED
  BY <1>2, <1>3

(* The next frames of the stream, with silence behind them, keep the order. *)
LEMMA HeardMore ==
  ASSUME NEW d \in Seq(Nat), NEW e \in Nat, NEW g \in Nat, NEW k \in Nat,
         NEW pad \in Nat, Heard(d, e, g)
  PROVE  Heard(d \o Stream!Run(g + 1, k) \o Stream!Quiet(pad), e, g + k)
<1> DEFINE r == Stream!Run(g + 1, k)
           q == Stream!Quiet(pad)
           x == d \o r \o q
           l == Len(d)
<1>1. r \in Seq(Nat) /\ Len(r) = k /\ \A i \in 1..k : r[i] = g + i
  BY DEF Stream!Run
<1>2. q \in Seq(Nat) /\ Len(q) = pad /\ \A i \in 1..pad : q[i] = 0
  BY DEF Stream!Quiet
<1>3. l \in Nat
  OBVIOUS
<1> HIDE DEF r, q
<1>4. /\ d \o r \in Seq(Nat) /\ Len(d \o r) = l + k
      /\ \A i \in 1..l + k : (d \o r)[i] = IF i <= l THEN d[i] ELSE r[i - l]
  BY <1>1, ConcatProperties
<1> DEFINE y == d \o r
<1> HIDE DEF y
<1>5. /\ y \o q \in Seq(Nat) /\ Len(y \o q) = l + k + pad
      /\ \A i \in 1..l + k + pad :
           (y \o q)[i] = IF i <= l + k THEN y[i] ELSE q[i - (l + k)]
  <2>1. y \in Seq(Nat) /\ Len(y) = l + k
    BY <1>4 DEF y
  <2> HIDE DEF l
  <2>2. /\ y \o q \in Seq(Nat) /\ Len(y \o q) = Len(y) + Len(q)
        /\ \A i \in 1..Len(y) + Len(q) :
             (y \o q)[i] = IF i <= Len(y) THEN y[i] ELSE q[i - Len(y)]
    BY <1>2, <2>1, ConcatProperties
  <2> QED
    BY <1>2, <2>1, <2>2
<1>6. x = y \o q
  BY DEF y
<1> HIDE DEF x, l
<1>7. x \in Seq(Nat) /\ Len(x) = l + k + pad
  BY <1>5, <1>6
<1>8. ASSUME NEW i \in 1..l PROVE x[i] = d[i]
  BY <1>3, <1>4, <1>5, <1>6, <1>8 DEF y
<1>9. ASSUME NEW i \in l + 1..l + k PROVE x[i] = g + i - l
  <2>1. i - l \in 1..k /\ i \in 1..l + k /\ i \in 1..l + k + pad /\ ~(i <= l)
    BY <1>3, <1>9
  <2>2. x[i] = y[i] /\ y[i] = r[i - l]
    BY <1>4, <1>5, <1>6, <2>1 DEF y
  <2> QED
    BY <1>1, <1>3, <2>1, <2>2
<1>10. ASSUME NEW i \in l + k + 1..l + k + pad PROVE x[i] = 0
  <2>1. i - (l + k) \in 1..pad /\ i \in 1..l + k + pad /\ ~(i <= l + k)
    BY <1>3, <1>10
  <2> QED
    BY <1>2, <1>5, <1>6, <2>1
<1> HIDE DEF y
<1>11. /\ \A f : f \in Audible(d) <=> \E i \in 1..l : f = d[i] /\ f # 0
       /\ \A i, j \in 1..l : i < j /\ d[i] # 0 /\ d[j] # 0 => d[i] < d[j]
  BY SequenceFrames DEF l, Heard
<1>12. e <= g /\ Audible(d) = e + 1..g
  BY DEF Heard
<1>13. Audible(x) = e + 1..g + k
  <2>1. ASSUME NEW f \in Audible(x) PROVE f \in e + 1..g + k
    <3>1. PICK i \in 1..l + k + pad : f = x[i] /\ f # 0
      BY <1>7, SequenceFrames
    <3>2. CASE i \in 1..l
      <4>1. f \in Audible(d)
        BY <1>8, <1>11, <3>1, <3>2
      <4> QED
        BY <1>12, <4>1
    <3>3. CASE i \in l + 1..l + k
      BY <1>3, <1>9, <1>12, <3>1, <3>3
    <3>4. i \in 1..l \/ i \in l + 1..l + k
      BY <1>3, <1>10, <3>1
    <3> QED
      BY <3>2, <3>3, <3>4
  <2>2. ASSUME NEW f \in e + 1..g + k PROVE f \in Audible(x)
    <3>1. CASE f <= g
      <4>1. f \in Audible(d)
        BY <1>12, <3>1
      <4>2. PICK i \in 1..l : f = d[i] /\ f # 0
        BY <1>11, <4>1
      <4>3. i \in 1..l + k + pad /\ x[i] = f
        BY <1>3, <1>8, <4>2
      <4> QED
        BY <1>7, <4>2, <4>3, SequenceFrames
    <3>2. CASE ~(f <= g)
      <4>1. l + (f - g) \in l + 1..l + k /\ f # 0
        BY <1>3, <3>2
      <4>2. x[l + (f - g)] = f /\ l + (f - g) \in 1..l + k + pad
        BY <1>3, <1>9, <4>1
      <4> QED
        BY <1>7, <4>1, <4>2, SequenceFrames
    <3> QED
      BY <3>1, <3>2
  <2> QED
    BY <2>1, <2>2
<1>14. Ascending(x)
  <2>1. ASSUME NEW i \in 1..l + k + pad, NEW j \in 1..l + k + pad,
               i < j, x[i] # 0, x[j] # 0
        PROVE  x[i] < x[j]
    <3>1. j \in 1..l + k /\ i \in 1..l + k
      BY <1>3, <1>10, <2>1
    <3>2. CASE j \in 1..l
      <4>1. i \in 1..l
        BY <1>3, <2>1, <3>2
      <4> QED
        BY <1>8, <1>11, <2>1, <3>2, <4>1
    <3>3. CASE j \in l + 1..l + k /\ i \in 1..l
      <4>1. d[i] \in Audible(d) /\ x[i] = d[i]
        BY <1>8, <1>11, <2>1, <3>3
      <4>2. x[j] = g + j - l
        BY <1>9, <3>3
      <4> QED
        BY <1>3, <1>12, <3>3, <4>1, <4>2
    <3>4. CASE j \in l + 1..l + k /\ i \in l + 1..l + k
      BY <1>3, <1>9, <2>1, <3>4
    <3> QED
      BY <1>3, <3>1, <3>2, <3>3, <3>4
  <2> QED
    BY <1>7, <2>1, SequenceFrames
<1>15. e <= g + k
  BY <1>12
<1> QED
  BY <1>13, <1>14, <1>15 DEF Heard, x, r, q

LEMMA HeardNext ==
  ASSUME IInv, Consecutive, Heard(device, epoch, Given), Given' \in Nat,
         Stream!Next \/ UNCHANGED Stream!vars
  PROVE  Heard(device', epoch', Given')
<1>1. /\ device \in Seq(Nat) /\ epoch \in Nat /\ Given \in Nat /\ Given' \in Nat
      /\ src \in Nat /\ src >= 1
  <2>1. Given \in Nat
    BY GivenRange
  <2> QED
    BY <2>1 DEF IInv, Types, TypeOK
<1>2. CASE Stream!Accept \/ UNCHANGED Stream!vars
  BY <1>2 DEF Stream!Accept, Stream!vars
<1>3. CASE Stream!Discard
  <2>1. device' = <<>> /\ epoch' = src - 1 /\ Given' = src - 1 /\ src - 1 \in Nat
    BY <1>1, <1>3 DEF Stream!Discard
  <2>2. Audible(<<>>) = {} /\ Ascending(<<>>)
    BY DEF Audible, Ascending
  <2>3. \A m \in Nat : m <= m /\ m + 1..m = {}
    OBVIOUS
  <2> QED
    BY <2>1, <2>2, <2>3 DEF Heard
<1>4. CASE Stream!Transfer
  <2>1. PICK pad \in 0..(Len(device') - Len(device)) :
          device' = device \o Stream!Run(Given + 1, Given' - Given) \o Stream!Quiet(pad)
    BY <1>4 DEF Stream!Transfer
  <2>2. pad \in Nat
    BY <2>1 DEF IInv, Types
  <2>3. PICK g, k \in Nat : Given = g /\ Given' - Given = k /\ Given' = g + k
    <3>1. Given' >= Given
      BY <1>4 DEF Stream!Transfer
    <3>2. \A a, b \in Nat : b >= a => b - a \in Nat /\ b = a + (b - a)
      OBVIOUS
    <3> QED
      BY <1>1, <3>1, <3>2
  <2>4. Heard(device \o Stream!Run(g + 1, k) \o Stream!Quiet(pad), epoch, g + k)
    BY <1>1, <2>2, <2>3, HeardMore
  <2>5. epoch' = epoch
    BY <1>4 DEF Stream!Transfer
  <2> QED
    BY <2>1, <2>3, <2>4, <2>5
<1> QED
  BY <1>2, <1>3, <1>4 DEF Stream!Next

(* A bucket holds the frames from its first to the one before the next. *)
First(i) == data[queue[i]][1]

LEMMA BucketFrames ==
  ASSUME IInv, Consecutive, NEW i \in 1..Len(queue)
  PROVE  /\ First(i) \in Nat /\ Behind(i) \in Nat /\ First(i) >= 1
         /\ First(i) < Behind(i) /\ Behind(i) <= src
         /\ Audible(data[queue[i]]) = First(i)..Behind(i) - 1
         /\ Ascending(data[queue[i]])
<1> DEFINE d == data[queue[i]]
<1>1. d \in Seq(Nat) /\ Len(d) \in Nat /\ First(i) \in Nat /\ src \in Nat
      /\ Len(queue) \in Nat
  BY QueueFacts DEF First
<1>2. Behind(i) \in Nat
  <2>1. i < Len(queue) => i + 1 \in 1..Len(queue)
    BY <1>1
  <2> QED
    BY <1>1, <2>1, QueueFacts DEF Behind
<1>3. Behind(i) <= src /\ Holds(d, Behind(i))
  BY DEF Consecutive
<1> HIDE DEF d
<1>4. PICK f, m \in Nat : /\ f = First(i) /\ m = Behind(i) - f /\ f >= 1 /\ m >= 1
                          /\ m <= Len(d) /\ f + m = Behind(i)
  <2>1. First(i) >= 1 /\ Behind(i) - First(i) \in 1..Len(d)
    BY <1>3 DEF Holds, First, d
  <2> QED
    BY <1>1, <1>2, <2>1
<1>5. \A j \in 1..Len(d) : d[j] = IF j <= m THEN f + j - 1 ELSE 0
  BY <1>3, <1>4 DEF Holds, First, d, Silence
<1>6. Audible(d) = f..f + m - 1
  <2>1. ASSUME NEW x \in Audible(d) PROVE x \in f..f + m - 1
    <3>1. PICK j \in 1..Len(d) : x = d[j] /\ x # 0
      BY <1>1, SequenceFrames
    <3>2. j <= m /\ x = f + j - 1 /\ j \in Nat /\ j >= 1
      BY <1>1, <1>5, <3>1
    <3> QED
      BY <3>2
  <2>2. ASSUME NEW x \in f..f + m - 1 PROVE x \in Audible(d)
    <3>0. f \in Nat /\ m \in Nat /\ f >= 1 /\ m <= Len(d)
      BY <1>4
    <3>1. x - f + 1 \in 1..Len(d) /\ x - f + 1 <= m /\ x # 0
      BY <1>1, <3>0
    <3>2. d[x - f + 1] = x
      BY <1>5, <3>1
    <3> QED
      BY <1>1, <3>1, <3>2, SequenceFrames
  <2> QED
    BY <2>1, <2>2
<1>7. Ascending(d)
  <2>1. ASSUME NEW j \in 1..Len(d), NEW k \in 1..Len(d), j < k, d[j] # 0, d[k] # 0
        PROVE  d[j] < d[k]
    BY <1>1, <1>5, <2>1
  <2> QED
    BY <1>1, <2>1, SequenceFrames
<1>8. f < Behind(i) /\ f + m - 1 = Behind(i) - 1
  BY <1>4
<1> QED
  BY <1>1, <1>2, <1>3, <1>4, <1>6, <1>7, <1>8 DEF d

(* The buckets follow each other. *)
LEMMA BucketsFollow ==
  ASSUME IInv, Consecutive, NEW i \in 1..Len(queue), NEW j \in 1..Len(queue), j < i
  PROVE  Behind(j) <= First(i)
<1> DEFINE T == {m \in 1..Len(queue) : j < m /\ ~(Behind(j) <= First(m))}
<1>1. SUFFICES ASSUME T # {} PROVE FALSE
  OBVIOUS
<1>2. Len(queue) \in Nat
  BY QueueFacts
<1>3. PICK m \in T : \A k \in T : m <= k
  <2>1. T \in SUBSET Nat
    BY <1>2
  <2> QED
    BY <1>1, <2>1, LeastNatural
<1>4. m \in 1..Len(queue) /\ m - 1 \in 1..Len(queue) /\ m - 1 < Len(queue) /\ m - 1 >= j
      /\ m - 1 + 1 = m
  BY <1>2, <1>3
<1>5. Behind(m - 1) = First(m)
  BY <1>4 DEF Behind, First
<1>6. CASE m - 1 = j
  <2>1. Behind(j) \in Nat /\ Behind(j) = First(m)
    BY <1>5, <1>6, BucketFrames
  <2> QED
    BY <1>3, <2>1
<1>7. CASE m - 1 # j
  <2>1. m - 1 \notin T
    BY <1>3, <1>4
  <2>2. Behind(j) <= First(m - 1)
    BY <1>4, <1>7, <2>1
  <2>3. First(m - 1) < Behind(m - 1) /\ First(m - 1) \in Nat /\ First(m) \in Nat
        /\ Behind(j) \in Nat
    BY <1>4, BucketFrames
  <2> QED
    BY <1>3, <1>5, <2>2, <2>3
<1> QED
  BY <1>6, <1>7

LEMMA QueuedFrames ==
  ASSUME IInv, Consecutive
  PROVE  Queued = Given + 1..src - 1
<1>1. /\ Len(queue) \in Nat /\ src \in Nat /\ Given \in Nat
      /\ DOMAIN queue = 1..Len(queue) /\ queue \in Seq(1..nbuckets)
  BY QueueFacts, GivenRange
<1>2. CASE queue = <<>>
  <2>1. Queued = {} /\ Given = src - 1
    BY <1>2 DEF Queued, Given
  <2>2. \A m \in Nat : m + 1..m = {}
    OBVIOUS
  <2> QED
    BY <1>1, <2>1, <2>2
<1>3. CASE queue # <<>>
  <2>1. 1 \in 1..Len(queue) /\ Len(queue) \in 1..Len(queue)
    BY <1>1, <1>3
  <2>2. First(1) = Given + 1 /\ Behind(Len(queue)) = src
    <3>1. First(1) \in Nat
      BY <2>1, BucketFrames
    <3>2. Given = First(1) - 1
      BY <1>3, GivenRange DEF First
    <3> QED
      BY <2>1, <3>1, <3>2 DEF Behind
  <2>3. ASSUME NEW f \in Queued PROVE f \in Given + 1..src - 1
    <3>1. PICK i \in 1..Len(queue) : f \in Audible(data[queue[i]])
      BY <1>1 DEF Queued
    <3>2. f \in First(i)..Behind(i) - 1 /\ First(i) \in Nat /\ Behind(i) \in Nat
          /\ Behind(i) <= src
      BY <3>1, BucketFrames
    <3>3. First(1) <= First(i)
      <4>1. CASE i = 1
        BY <3>2, <4>1
      <4>2. CASE i # 1
        <5>1. Behind(1) <= First(i)
          BY <2>1, <4>2, BucketsFollow
        <5>2. First(1) < Behind(1) /\ First(1) \in Nat /\ Behind(1) \in Nat
          BY <2>1, BucketFrames
        <5> QED
          BY <3>2, <5>1, <5>2
      <4> QED
        BY <4>1, <4>2
    <3> QED
      BY <1>1, <2>2, <3>2, <3>3
  <2>4. ASSUME NEW f \in Given + 1..src - 1 PROVE f \in Queued
    <3> DEFINE T == {i \in 1..Len(queue) : f < Behind(i)}
    <3>1. Len(queue) \in T
      BY <1>1, <2>1, <2>2
    <3>2. PICK i \in T : \A k \in T : i <= k
      <4>1. T \in SUBSET Nat
        BY <1>1
      <4> QED
        BY <3>1, <4>1, LeastNatural
    <3>3. First(i) <= f
      <4>1. CASE i = 1
        BY <1>1, <2>2, <4>1
      <4>2. CASE i # 1
        <5>1. i - 1 \in 1..Len(queue) /\ i - 1 < Len(queue) /\ i - 1 + 1 = i /\ ~(i <= i - 1)
          BY <1>1, <4>2
        <5>2. ~(f < Behind(i - 1)) /\ Behind(i - 1) = First(i)
          BY <3>2, <5>1 DEF Behind, First
        <5>3. First(i) \in Nat /\ f \in Nat
          BY <1>1, BucketFrames
        <5> QED
          BY <5>2, <5>3
      <4> QED
        BY <4>1, <4>2
    <3>4. f \in First(i)..Behind(i) - 1
      <4>1. First(i) \in Nat /\ Behind(i) \in Nat /\ f < Behind(i) /\ f \in Nat
        BY <1>1, <3>2, BucketFrames
      <4> QED
        BY <3>3, <4>1
    <3>5. f \in Audible(data[queue[i]])
      BY <3>4, BucketFrames
    <3> QED
      BY <1>1, <3>5 DEF Queued
  <2> QED
    BY <2>3, <2>4
<1> QED
  BY <1>2, <1>3

LEMMA InOrder ==
  ASSUME IInv, Consecutive, Heard(device, epoch, Given)
  PROVE  FramesInOrder
<1>1. /\ Given \in Nat /\ Given <= src - 1 /\ src \in Nat /\ epoch \in Nat
      /\ epoch <= Given /\ Audible(device) = epoch + 1..Given /\ Ascending(device)
      /\ Queued = Given + 1..src - 1
      /\ DOMAIN queue = 1..Len(queue)
  BY GivenRange, QueuedFrames, QueueFacts DEF Heard, IInv, Types, TypeOK
<1>2. Audible(device) \cup Queued = epoch + 1..src - 1
  BY <1>1
<1>3. Precede(Audible(device), Queued)
  BY <1>1 DEF Precede
<1>4. ASSUME NEW i \in 1..Len(queue)
      PROVE  /\ Ascending(data[queue[i]])
             /\ \A j \in 1..i - 1 :
                  Precede(Audible(data[queue[j]]), Audible(data[queue[i]]))
  <2>1. Ascending(data[queue[i]])
    BY BucketFrames
  <2>2. ASSUME NEW j \in 1..i - 1
        PROVE  Precede(Audible(data[queue[j]]), Audible(data[queue[i]]))
    <3>1. j \in 1..Len(queue) /\ j < i
      BY QueueFacts
    <3>2. Behind(j) <= First(i)
      BY <3>1, BucketsFollow
    <3>3. /\ Audible(data[queue[i]]) = First(i)..Behind(i) - 1
          /\ Audible(data[queue[j]]) = First(j)..Behind(j) - 1
          /\ First(i) \in Nat /\ Behind(i) \in Nat /\ First(j) \in Nat /\ Behind(j) \in Nat
      BY <3>1, BucketFrames
    <3> QED
      BY <3>2, <3>3 DEF Precede
  <2> QED
    BY <2>1, <2>2
<1> QED
  BY <1>1, <1>2, <1>3, <1>4 DEF FramesInOrder

(* Between aq_add() and the device no frame is lost, repeated or out of    *)
(* order: at every moment what the device heard since the last discard and *)
(* what waits in the buckets are the frames made since then, in order.     *)
THEOREM FramesNeverReordered ==
  ASSUME AllDiscard
  PROVE  Spec => []FramesInOrder
<1> DEFINE Order == IInv /\ Ordering
           H == Heard(device, epoch, Given)
<1>1. Init => Order /\ H
  <2> SUFFICES ASSUME Init PROVE H
    BY InitInv, InitStream
  <2>1. device = <<>> /\ epoch = 0 /\ Given = 0
    BY InitStream DEF Stream!Init
  <2> QED
    BY <2>1 DEF Heard, Audible, Ascending
<1>2. Order /\ [Next]_vars => Order'
  BY OrderingStep
<1>3. Order => Given \in Nat
  BY GivenRange DEF Ordering
<1>4. Order /\ H /\ [Next]_vars /\ (Given \in Nat)' => H'
  <2> SUFFICES ASSUME Order, H, [Next]_vars, Given' \in Nat PROVE H'
    OBVIOUS
  <2>1. Stream!Next \/ UNCHANGED Stream!vars
    BY OrderingStep
  <2> QED
    BY <2>1, HeardNext DEF Ordering
<1>5. Order /\ H => FramesInOrder
  BY InOrder DEF Ordering
<1> QED
  BY <1>1, <1>2, <1>3, <1>4, <1>5, PTL DEF Spec

=============================================================================
