----------------------------- MODULE AudioQueue -----------------------------
(***************************************************************************)
(* The software audio queue of timidity/aq.c: compute_data() hands blocks  *)
(* of sample frames to aq_add(), which copies them into fixed-size         *)
(* buckets; full buckets are transferred to play_mode->output_data().      *)
(*                                                                         *)
(* One frame (Bps bytes) is the unit of every size.  Frames are numbered   *)
(* in the order compute_data() produced them, 0 is the silence with which  *)
(* aq_soft_flush() pads a bucket, Stale is a byte of an earlier use of the *)
(* bucket.  A bucket is a number in 1..nbuckets; the list from `head` to   *)
(* `tail` is the sequence `queue`, allocated_bucket_list is `free`.        *)
(*                                                                         *)
(* A step ends at each call that may block or change the queue from        *)
(* outside: output_data(), trace_loop() and check_apply_control().  The    *)
(* device plays between any two steps.  The play counters and the clock    *)
(* behind aq_samples() and aq_filled() are left out.                       *)
(***************************************************************************)
EXTENDS Integers, Sequences

CONSTANTS
  PlayModes,     \* the values play_mode may take, as answered by acntl()
  SoftTime,      \* soft_buff_time of timidity_init_aq_buff()
  FillTime,      \* fill_start_time of timidity_init_aq_buff()
  TracePlaying,  \* the values of ctl->trace_playing
  AddCounts,     \* the block lengths compute_data() passes to aq_add()
  MaxFrames      \* bound: frames produced in a behaviour

Mode == [stream: BOOLEAN,        \* IS_STREAM_TRACE
         frag: Nat \ {0},        \* PM_REQ_GETFRAGSIZ
         qsize: Nat,             \* PM_REQ_GETQSIZ
         rate: Nat,              \* play_mode->rate
         cap: Nat \ {0},         \* frames the device holds
         roomKnown: BOOLEAN,     \* PM_REQ_GETFILLABLE tells the free room
         refuses: BOOLEAN,       \* output_data() may fail (droid_a.c: never)
         discard: {"fails", "empties", "keeps"}] \* PM_REQ_DISCARD: not
                                 \* supported, drops what the device holds,
                                 \* or leaves it to be played (droid_a.c)

ASSUME PlayModesAssumption == PlayModes \subseteq Mode
ASSUME TimesAssumption == SoftTime \in Nat /\ FillTime \in Nat
ASSUME TraceAssumption == TracePlaying \subseteq BOOLEAN
ASSUME CountsAssumption == AddCounts \subseteq Nat \ {0}
ASSUME BoundAssumption == MaxFrames \in Nat

VARIABLES
  dev,                  \* *play_mode
  bucket_size, device_qsize, nbuckets,
  base,                 \* base_buckets: slots allocated and bytes per slot
  aq_start_count, aq_add_count, aq_fill_buffer_flag,
  queue,                \* buckets from head to tail
  free,                 \* allocated_bucket_list
  data,                 \* data[b]: the len frames stored in bucket b
  made,                 \* frames produced so far
  src, n,               \* (buff, nbytes) of aq_add(): next frame, frames left
  pc,                   \* where the audio thread is
  ret,                  \* where aq_fill_nonblocking()/aq_soft_flush() return
  then,                 \* what the caller of aq_flush() does next
  nfills,               \* nfills - i of aq_fill_nonblocking()
  filled,               \* frames in the device, not yet played
  device,               \* history: frames handed to the device since `epoch`
  epoch                 \* history: last frame made before the last discard

cfgVars == <<dev, bucket_size, device_qsize, nbuckets, base, aq_start_count>>
listVars == <<queue, free, data>>
bufVars == <<made, src, n>>
callVars == <<ret, then, nfills>>
devVars == <<filled, device, epoch>>
vars == <<cfgVars, aq_add_count, aq_fill_buffer_flag, listVars, bufVars, pc,
          callVars, devVars>>

Silence == 0
Stale == -1

Lesser(a, b) == IF a <= b THEN a ELSE b
Frames(first, count) == [i \in 1..count |-> first + i - 1]
Fill(frame, count) == [i \in 1..count |-> frame]

BucketsFor(m) == (SoftTime * m.rate) \div m.frag
StartCountFor(m) == IF BucketsFor(m) = 0 THEN 0 ELSE FillTime * m.rate
QueueSizeFor(m) == IF m.stream /\ 2 * m.frag <= m.qsize THEN m.qsize ELSE 0

AllBuckets(k) == [i \in 1..k |-> k + 1 - i]
NoStorage == [slots |-> 0, size |-> 0]

Partial(b) == Len(data[b]) # bucket_size
HeadFull == queue # <<>> /\ ~Partial(Head(queue))

(* aq_fillable(): what the device says, or device_qsize - aq_filled() *)
Fillable == IF ~dev.stream THEN 0
            ELSE IF dev.roomKnown THEN dev.cap - filled ELSE dev.qsize

(* nfills at the top of aq_fill_nonblocking() *)
FillsAllowed == IF HeadFull /\ dev.stream THEN Fillable \div bucket_size ELSE 0

Init ==
  \E m \in PlayModes :
    /\ dev = m
    /\ bucket_size = m.frag
    /\ device_qsize = QueueSizeFor(m)
    /\ nbuckets = IF m.stream THEN BucketsFor(m) ELSE 0
    /\ base = IF m.stream THEN [slots |-> BucketsFor(m), size |-> m.frag]
                          ELSE NoStorage
    /\ aq_start_count = IF m.stream THEN StartCountFor(m) ELSE 0
    /\ aq_add_count = 0
    /\ aq_fill_buffer_flag = (aq_start_count > 0)
    /\ queue = <<>>
    /\ free = AllBuckets(nbuckets)
    /\ data = [b \in 1..nbuckets |-> <<>>]
    /\ made = 0 /\ src = 1 /\ n = 0
    /\ pc = "idle" /\ ret = "idle" /\ then = "idle" /\ nfills = 0
    /\ filled = 0 /\ device = <<>> /\ epoch = 0

-----------------------------------------------------------------------------
(* play_mode->output_data(): blocks while the device is full *)
Room(k) == filled = 0 \/ filled + k <= dev.cap
Output(frames) ==
  /\ Room(Len(frames))
  /\ device' = device \o frames
  /\ filled' = Lesser(dev.cap, filled + Len(frames))

(* the bucket_size bytes aq_output_data() reads, whatever the bucket's len *)
Content(b) == data[b] \o Fill(Stale, bucket_size - Len(data[b]))

HeadLost == queue' = Tail(queue) /\ free' = free                    \* mutant
(* head = head->next; reuse_audio_bucket(tmp) *)
ReuseHead ==
  /\ queue' = Tail(queue)
  /\ free' = <<Head(queue)>> \o free

FlushKeepsHead ==                                                  \* mutant
  /\ queue' = queue /\ free' = free
  /\ aq_fill_buffer_flag' = (aq_start_count > 0)
  /\ device' = <<>>
  /\ epoch' = src - 1
(* flush_buckets() *)
FlushBuckets ==
  /\ queue' = <<>>
  /\ free' = AllBuckets(nbuckets)
  /\ aq_fill_buffer_flag' = (aq_start_count > 0)
  /\ device' = <<>>
  /\ epoch' = src - 1

(* PM_REQ_DISCARD, answered with success, and flush_buckets() *)
CanDiscard == dev.discard # "fails"
Discard ==
  /\ FlushBuckets
  /\ filled' = IF dev.discard = "empties" THEN 0 ELSE filled

(* the caller gives up the rest of its block when aq_add() returns -1 *)
DropRest == made' = src - 1 /\ n' = 0 /\ src' = src
AddFails == dev.refuses /\ DropRest /\ pc' = "error"

-----------------------------------------------------------------------------
(* aq_add() up to the first transfer *)
AddBegin(count) ==
  /\ pc = "idle"
  /\ made + count <= MaxFrames /\ aq_add_count + count <= MaxFrames   \* bound
  /\ aq_add_count' = aq_add_count + count
  /\ made' = made + count /\ src' = made + 1 /\ n' = count
  /\ \/ /\ device_qsize = 0
        /\ pc' = "direct"
        /\ UNCHANGED <<aq_fill_buffer_flag, nfills, ret>>
     \/ /\ device_qsize # 0
        /\ aq_fill_buffer_flag' = (aq_add_count' <= aq_start_count)
        /\ pc' = IF aq_fill_buffer_flag' THEN "add" ELSE "fill"
        /\ nfills' = IF aq_fill_buffer_flag' THEN nfills ELSE FillsAllowed
        /\ ret' = IF aq_fill_buffer_flag' THEN ret ELSE "add"
  /\ UNCHANGED <<cfgVars, listVars, then, devVars>>

(* aq_add(NULL, 0) from load_missing_instruments() and friends *)
Update ==
  /\ pc = "idle" /\ ~aq_fill_buffer_flag
  /\ pc' = "fill" /\ ret' = "idle" /\ nfills' = FillsAllowed
  /\ UNCHANGED <<cfgVars, aq_add_count, aq_fill_buffer_flag, listVars, bufVars,
                 then, devVars>>

(* device_qsize == 0: the block goes straight to the device *)
AddDirect ==
  /\ pc = "direct"
  /\ \/ /\ Output(Frames(src, n))
        /\ pc' = "idle" /\ src' = src + n /\ n' = 0 /\ made' = made
     \/ /\ AddFails
        /\ UNCHANGED <<device, filled>>
  /\ UNCHANGED <<cfgVars, aq_add_count, aq_fill_buffer_flag, listVars, callVars,
                 epoch>>

(* one round of the loop of aq_fill_nonblocking() *)
FillLoop ==
  /\ pc = "fill"
  /\ \/ /\ nfills <= 0 \/ ~HeadFull
        /\ pc' = ret
        /\ UNCHANGED <<listVars, bufVars, nfills, device, filled>>
     \/ /\ nfills > 0 /\ HeadFull
        /\ Output(Content(Head(queue)))
        /\ ReuseHead
        /\ nfills' = nfills - 1
        /\ UNCHANGED <<data, bufVars, pc>>
     \/ /\ nfills > 0 /\ HeadFull
        /\ \/ ret = "add" /\ AddFails
           \/ ret # "add" /\ dev.refuses /\ UNCHANGED bufVars /\ pc' = ret
        /\ UNCHANGED <<listVars, nfills, device, filled>>
  /\ UNCHANGED <<cfgVars, aq_add_count, aq_fill_buffer_flag, ret, then, epoch>>

(* the caller's block is used up: aq_add() returns 0 *)
AddDone ==
  /\ pc = "add" /\ n = 0
  /\ pc' = "idle"
  /\ UNCHANGED <<cfgVars, aq_add_count, aq_fill_buffer_flag, listVars, bufVars,
                 callVars, devVars>>

(* add_play_bucket() without buckets: output_data()'s result is ignored *)
AddUnbuffered ==
  /\ pc = "add" /\ n > 0 /\ nbuckets = 0
  /\ \/ Output(Frames(src, n)) /\ src' = src + n /\ made' = made
     \/ dev.refuses /\ made' = src - 1 /\ UNCHANGED <<src, device, filled>>
  /\ n' = 0
  /\ UNCHANGED <<cfgVars, aq_add_count, aq_fill_buffer_flag, listVars, pc,
                 callVars, epoch>>

CopySameAgain(b, old) ==                                           \* mutant
  LET i == Lesser(bucket_size - Len(old), n)
  IN  /\ data' = [data EXCEPT ![b] = old \o Frames(src, i)]
      /\ src' = src /\ n' = n - i /\ made' = made
(* memcpy() of what fits into bucket b *)
Copy(b, old) ==
  LET i == Lesser(bucket_size - Len(old), n)
  IN  /\ data' = [data EXCEPT ![b] = old \o Frames(src, i)]
      /\ src' = src + i /\ n' = n - i /\ made' = made

TailNeverOpen == FALSE                                             \* mutant
TailOpen == queue # <<>> /\ Partial(queue[Len(queue)])

(* add_play_bucket() tops up the tail bucket *)
AddToTail ==
  /\ pc = "add" /\ n > 0 /\ nbuckets > 0
  /\ TailOpen
  /\ Copy(queue[Len(queue)], data[queue[Len(queue)]])
  /\ UNCHANGED <<cfgVars, aq_add_count, aq_fill_buffer_flag, queue, free, pc,
                 callVars, devVars>>

(* add_play_bucket() takes a bucket with next_allocated_bucket(), len = 0 *)
AddToNew ==
  /\ pc = "add" /\ n > 0 /\ nbuckets > 0
  /\ ~TailOpen /\ free # <<>>
  /\ queue' = Append(queue, Head(free))
  /\ free' = Tail(free)
  /\ Copy(Head(free), <<>>)
  /\ UNCHANGED <<cfgVars, aq_add_count, aq_fill_buffer_flag, pc, callVars,
                 devVars>>

(* add_play_bucket() returned short: the queue is full.  Without trace one *)
(* bucket is written out (were the head not full, the loop would spin and  *)
(* the model deadlock); with trace the loop asks how much the device takes *)
(* without blocking                                                        *)
QueueFull ==
  /\ pc = "add" /\ n > 0 /\ nbuckets > 0
  /\ ~TailOpen /\ free = <<>>
  /\ \/ /\ FALSE \in TracePlaying /\ HeadFull
        /\ \/ /\ Output(Content(Head(queue)))
              /\ ReuseHead
              /\ aq_fill_buffer_flag' = FALSE
              /\ UNCHANGED <<data, bufVars, pc>>
           \/ /\ AddFails
              /\ UNCHANGED <<aq_fill_buffer_flag, listVars, device, filled>>
        /\ UNCHANGED <<ret, nfills>>
     \/ /\ TRUE \in TracePlaying
        /\ pc' = "fill" /\ ret' = "add" /\ nfills' = FillsAllowed
        /\ aq_fill_buffer_flag' = FALSE
        /\ UNCHANGED <<listVars, bufVars, device, filled>>
  /\ UNCHANGED <<cfgVars, aq_add_count, then, epoch>>

-----------------------------------------------------------------------------
(* aq_flush(discard); k is what its caller does next: "setup" in           *)
(* playmidi_output_changed() and playmidi_change_rate()                    *)
Flush(discard, k) ==
  /\ pc \in {"idle", "error"}
  /\ aq_add_count' = 0
  /\ then' = k
  /\ \/ /\ discard /\ CanDiscard
        /\ Discard
        /\ pc' = k /\ ret' = ret
     \/ /\ ~(discard /\ CanDiscard) /\ ~dev.stream
        /\ pc' = k /\ ret' = ret
        /\ UNCHANGED <<aq_fill_buffer_flag, queue, free, devVars>>
     \/ /\ ~(discard /\ CanDiscard) /\ dev.stream
        /\ pc' = "soft" /\ ret' = "drain"
        /\ UNCHANGED <<aq_fill_buffer_flag, queue, free, devVars>>
  /\ UNCHANGED <<cfgVars, data, bufVars, nfills>>

(* midi_play_end() without trace: trace_flush(); aq_soft_flush() *)
SoftFlush ==
  /\ pc = "idle"
  /\ pc' = "soft" /\ ret' = "idle" /\ then' = "idle"
  /\ UNCHANGED <<cfgVars, aq_add_count, aq_fill_buffer_flag, listVars, bufVars,
                 nfills, devVars>>

(* one round of aq_soft_flush(): pad with silence, transfer the head *)
Padded(b) == data[b] \o Fill(Silence, bucket_size - Len(data[b]))
SoftLoop ==
  /\ pc = "soft" /\ queue # <<>>
  /\ data' = [data EXCEPT ![Head(queue)] = Padded(Head(queue))]
  /\ \/ /\ Output(Padded(Head(queue)))
        /\ ReuseHead
        /\ pc' = "softControl"
     \/ /\ dev.refuses
        /\ pc' = IF then = "setup" THEN "setup" ELSE "error"
        /\ UNCHANGED <<queue, free, device, filled>>
  /\ UNCHANGED <<cfgVars, aq_add_count, aq_fill_buffer_flag, bufVars, callVars,
                 epoch>>

SoftDonePartial ==                                                 \* mutant
  /\ pc = "soft" /\ ~HeadFull
  /\ pc' = ret
  /\ UNCHANGED <<cfgVars, aq_add_count, aq_fill_buffer_flag, listVars, bufVars,
                 callVars, devVars>>
SoftDoneAgain ==                                                   \* mutant
  /\ pc = "soft" /\ queue = <<>>
  /\ pc' = "soft"
  /\ UNCHANGED <<cfgVars, aq_add_count, aq_fill_buffer_flag, listVars, bufVars,
                 callVars, devVars>>
SoftDone ==
  /\ pc = "soft" /\ queue = <<>>
  /\ pc' = ret
  /\ UNCHANGED <<cfgVars, aq_add_count, aq_fill_buffer_flag, listVars, bufVars,
                 callVars, devVars>>

(* check_apply_control() inside the two flush loops.  Its effects on the   *)
(* queue: a skip request discards everything and ends the flush;           *)
(* RC_SYNC_RESTART runs aq_flush(1) and the loop goes on; a new rate or    *)
(* output runs aq_flush(1) and sets the queue up again inside the loop.    *)
(* Without PM_REQ_DISCARD the nested aq_flush(1) is the same loop again,   *)
(* done when the queue is empty.                                           *)
ControlSkip ==
  /\ Discard
  /\ pc' = IF ret = "drain" THEN then ELSE "idle"
  /\ UNCHANGED aq_add_count
ControlFlush(next) ==
  /\ IF CanDiscard THEN Discard
     ELSE /\ queue = <<>>
          /\ UNCHANGED <<aq_fill_buffer_flag, queue, free, devVars>>
  /\ aq_add_count' = 0
  /\ pc' = next

SoftControl ==
  /\ pc = "softControl"
  /\ \/ /\ pc' = "soft"
        /\ UNCHANGED <<aq_add_count, aq_fill_buffer_flag, queue, free, devVars>>
     \/ ControlSkip
     \/ ControlFlush("soft")
     \/ ControlFlush("setupInSoft")
  /\ UNCHANGED <<cfgVars, data, bufVars, callVars>>

(* the waiting loop of aq_flush() reads controls in every round ... *)
DrainControl ==
  /\ pc = "drain"
  /\ ControlSkip \/ ControlFlush("drain") \/ ControlFlush("setupInDrain")
  /\ UNCHANGED <<cfgVars, data, bufVars, callVars>>

(* ... until it is empty or the time-out of the loop passes *)
DrainDone ==
  /\ pc = "drain"
  /\ FlushBuckets
  /\ pc' = then
  /\ UNCHANGED <<cfgVars, aq_add_count, data, bufVars, callVars, filled>>

(* aq_setup(); aq_set_soft_queue(-1, -1) with the play mode m *)
Setup(m) ==
  LET kept == IF m.stream THEN nbuckets ELSE 0
      nb == BucketsFor(m)
  IN  /\ pc \in {"setup", "setupInSoft", "setupInDrain"}
      /\ dev' = m
      /\ bucket_size' = m.frag
      /\ device_qsize' = QueueSizeFor(m)
      /\ aq_add_count' = 0
      /\ aq_start_count' = StartCountFor(m)
      /\ aq_fill_buffer_flag' = (aq_start_count' > 0)
      /\ nbuckets' = nb
      /\ \/ /\ nb # kept     \* alloc_soft_queue()
            /\ base' = [slots |-> nb, size |-> m.frag]
            /\ queue' = <<>> /\ free' = AllBuckets(nb)
            /\ data' = [b \in 1..nb |-> <<>>]
         \/ /\ nb = kept
            /\ base' = IF m.stream THEN base ELSE NoStorage
            /\ data' = IF m.stream THEN data ELSE [b \in 1..nb |-> <<>>]
            /\ UNCHANGED <<queue, free>>
      /\ pc' = CASE pc = "setup" -> "idle"
                 [] pc = "setupInSoft" -> "soft"
                 [] pc = "setupInDrain" -> "drain"
      /\ filled' = IF m = dev THEN filled ELSE 0
      /\ UNCHANGED <<bufVars, callVars, device, epoch>>

(* the device plays a frame *)
DevicePlay ==
  /\ filled > 0
  /\ filled' = filled - 1
  /\ UNCHANGED <<cfgVars, aq_add_count, aq_fill_buffer_flag, listVars, bufVars,
                 pc, callVars, device, epoch>>

-----------------------------------------------------------------------------
Step ==
  \/ AddDirect \/ FillLoop \/ AddDone \/ AddUnbuffered \/ AddToTail \/ AddToNew
  \/ QueueFull \/ SoftLoop \/ SoftDone \/ SoftControl
  \/ \E m \in PlayModes : Setup(m)

Next ==
  \/ \E count \in AddCounts : AddBegin(count)
  \/ Update
  \/ \E discard \in BOOLEAN, k \in {"idle", "setup"} :
       (k = "setup" => discard) /\ Flush(discard, k)
  \/ SoftFlush
  \/ DrainControl
  \/ DrainDone
  \/ Step
  \/ DevicePlay

Spec == Init /\ [][Next]_vars

(* The audio thread runs on and the device keeps playing.  The deadline    *)
(* of the waiting loop is fixed before it starts and tested in each round, *)
(* so requests that arrive meanwhile cannot keep the loop alive.           *)
Fairness == WF_vars(Step) /\ SF_vars(DrainDone) /\ WF_vars(DevicePlay)
FairSpec == Spec /\ Fairness

-----------------------------------------------------------------------------
PCs == {"idle", "error", "direct", "fill", "add", "soft", "softControl",
        "drain", "setup", "setupInSoft", "setupInDrain"}

(* Type invariant. *)
TypeOK ==
  /\ dev \in PlayModes
  /\ bucket_size \in Nat \ {0} /\ device_qsize \in Nat /\ nbuckets \in Nat
  /\ base \in [slots: Nat, size: Nat]
  /\ aq_start_count \in Nat /\ aq_add_count \in Nat
  /\ aq_fill_buffer_flag \in BOOLEAN
  /\ queue \in Seq(1..nbuckets) /\ free \in Seq(Nat)
  /\ data \in [1..nbuckets -> Seq(Int)]
  /\ made \in Nat /\ src \in Nat /\ n \in Nat
  /\ pc \in PCs /\ ret \in {"idle", "add", "drain"} /\ then \in {"idle", "setup"}
  /\ nfills \in Int /\ filled \in Nat
  /\ device \in Seq(Int) /\ epoch \in Nat

(* No bucket is lost or in two places: while the queue has storage, every  *)
(* bucket is either between head and tail or on allocated_bucket_list,     *)
(* once.  add_play_bucket() relies on it: an empty queue finds a bucket.   *)
Distinct(s) == \A i, j \in 1..Len(s) : s[i] = s[j] => i = j
Partitioned(q, f, k) ==
  /\ Distinct(q) /\ Distinct(f)
  /\ \A i \in 1..Len(q), j \in 1..Len(f) : q[i] # f[j]
  /\ Len(q) + Len(f) = k
BucketsSound == nbuckets > 0 => Partitioned(queue, free, nbuckets)

(* Only the tail may be partly filled, and no queued bucket is empty:      *)
(* aq_fill_one() and aq_fill_nonblocking() send bucket_size bytes of the   *)
(* head whatever its len is.                                               *)
OnlyTailPartial ==
  \A i \in 1..Len(queue) :
    /\ Len(data[queue[i]]) \in 1..bucket_size
    /\ i < Len(queue) => ~Partial(queue[i])

(* The device never receives bytes of an earlier use of a bucket. *)
NoStale == \A i \in 1..Len(device) : device[i] # Stale

(* The frames between head and tail, followed by the rest of the caller's  *)
(* block, are the next frames in order, without a gap or a repetition: the *)
(* bucket boundaries, the short returns of add_play_bucket() and the       *)
(* pointer `buff` of aq_add() agree at every interruption.                 *)
Audible(s) == {s[i] : i \in DOMAIN s} \ {Silence}
Ascending(s) ==
  \A i, j \in DOMAIN s :
    i < j /\ s[i] # Silence /\ s[j] # Silence => s[i] < s[j]
Queued == UNION {Audible(data[queue[i]]) : i \in DOMAIN queue}
Precede(fs, gs) == \A f \in fs, g \in gs : f < g
FramesInOrder ==
  /\ Audible(device) \cup Queued = epoch + 1..src - 1
  /\ Precede(Audible(device), Queued)
  /\ Ascending(device)
  /\ \A i \in DOMAIN queue :
       /\ Ascending(data[queue[i]])
       /\ \A j \in 1..i - 1 :
            Precede(Audible(data[queue[j]]), Audible(data[queue[i]]))

(* aq_flush() waits for the device only after the whole queue went there,  *)
(* and the queue is set up again only when nothing is left in it: neither  *)
(* flush_buckets() at the end nor alloc_soft_queue() drops audio.          *)
NothingToDrop ==
  pc \in {"drain", "setup", "setupInSoft", "setupInDrain"} => queue = <<>>

(* The storage alloc_soft_queue() allocated holds nbuckets buckets of the  *)
(* bucket size in use ("(re-)initializes audio buckets").                  *)
StorageFits ==
  device_qsize > 0 /\ nbuckets > 0 =>
    base.slots = nbuckets /\ base.size >= bucket_size

(* aq_add() and the flushes return: a full queue, a blocking device and    *)
(* control requests never keep the audio thread in aq.c for ever.          *)
CallsReturn == pc \notin {"idle", "error"} ~> pc \in {"idle", "error"}

(* aq.c implements the stream of frames that FrameStream promises. *)
Given == IF queue = <<>> THEN src - 1 ELSE data[Head(queue)][1] - 1
Stream == INSTANCE FrameStream WITH accepted <- src - 1, given <- Given
ImplementsStream == Stream!Spec
=============================================================================
