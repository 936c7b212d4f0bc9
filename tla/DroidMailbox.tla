---------------------------- MODULE DroidMailbox ----------------------------
(***************************************************************************)
(* The two integers through which the Java side sends control requests to  *)
(* the player thread: controlTimidity() of helper/helper.c writes them,    *)
(* ctl_read() of interface/droid_c.c takes and clears them, and nothing    *)
(* orders the two threads.  Each access to memory is a step, and accesses  *)
(* to different integers may happen in either order, as compiler and       *)
(* processor are free to have them.                                        *)
(*                                                                         *)
(* A request is identified by the number of its call; what the model keeps *)
(* of it is whether it is RC_JUMP, whose argument is scaled to samples.    *)
(***************************************************************************)
EXTENDS Integers, Sequences, FiniteSets

CONSTANTS
  Threads,    \* Java threads
  Uses        \* the ways the mailbox is used, see Use

Use == [callers: SUBSET Threads,
        asks: BOOLEAN,           \* they wait for timidityReady() first
        calls: Nat]              \* bound: calls of controlTimidity()
ASSUME UsesAssumption == Uses \subseteq Use

VARIABLES
  use,          \* a member of Uses
  calls,        \* calls of controlTimidity() so far
  droid_rc, droid_arg,
  caller,       \* caller[t]: the call of t and the accesses it has to make
  reader,       \* ctl_read(): loads and stores to make, and what it loaded
  posted,       \* history: requests in the order of their stores to droid_rc
  executed      \* history: what ctl_read() returned

memVars == <<droid_rc, droid_arg>>
mail_vars == <<use, calls, memVars, caller, reader, posted, executed>>

RC_NONE == [id |-> 0, jump |-> FALSE]
NoArg == [of |-> 0, scaled |-> 0]
Both == {"rc", "arg"}
NoCall == [rc |-> RC_NONE, stores |-> {}, pc |-> "done"]
Polling == [loads |-> Both, clears |-> {}, rc |-> RC_NONE, arg |-> NoArg]

MailInit ==
  /\ use \in Uses
  /\ calls = 0
  /\ droid_rc = RC_NONE /\ droid_arg = NoArg
  /\ caller = [t \in Threads |-> NoCall]
  /\ reader = Polling
  /\ posted = <<>> /\ executed = <<>>

-----------------------------------------------------------------------------
(* controlTimidity() *)

CallAnyTime(t, jump) ==                                            \* mutant
  /\ t \in use.callers /\ caller[t].pc = "done"
  /\ calls < use.calls                                             \* bound
  /\ calls' = calls + 1
  /\ caller' = [caller EXCEPT ![t] = [rc |-> [id |-> calls', jump |-> jump],
                                      stores |-> Both, pc |-> "store"]]
  /\ UNCHANGED <<use, memVars, reader, posted, executed>>
(* the call, after timidityReady() answered yes if the caller asks *)
Call(t, jump) ==
  /\ t \in use.callers /\ caller[t].pc = "done"
  /\ use.asks => droid_rc = RC_NONE
  /\ calls < use.calls                                             \* bound
  /\ calls' = calls + 1
  /\ caller' = [caller EXCEPT ![t] = [rc |-> [id |-> calls', jump |-> jump],
                                      stores |-> Both, pc |-> "store"]]
  /\ UNCHANGED <<use, memVars, reader, posted, executed>>

Raw(rc) == [of |-> rc.id, scaled |-> 0]
Stored(t, what) ==
  caller' = [caller EXCEPT ![t].stores = @ \ {what},
                           ![t].pc = IF caller[t].stores = {what} THEN "test" ELSE @]

StoreRc(t) ==
  /\ "rc" \in caller[t].stores
  /\ droid_rc' = caller[t].rc
  /\ posted' = Append(posted, caller[t].rc)
  /\ Stored(t, "rc")
  /\ UNCHANGED <<use, calls, droid_arg, reader, executed>>
StoreArg(t) ==
  /\ "arg" \in caller[t].stores
  /\ droid_arg' = Raw(caller[t].rc)
  /\ Stored(t, "arg")
  /\ UNCHANGED <<use, calls, droid_rc, reader, posted, executed>>

(* is dr_rc RC_JUMP?  It is read again *)
Test(t) ==
  /\ caller[t].pc = "test"
  /\ caller' = [caller EXCEPT ![t].pc = IF droid_rc.jump THEN "scale" ELSE "done"]
  /\ UNCHANGED <<use, calls, memVars, reader, posted, executed>>

(* dr_arg is multiplied: what was stored or what is there now *)
Scaled(arg) == IF arg = NoArg THEN arg ELSE [arg EXCEPT !.scaled = @ + 1]
Scale(t) ==
  /\ caller[t].pc = "scale"
  /\ droid_arg' \in {Scaled(droid_arg), Scaled(Raw(caller[t].rc))}
  /\ caller' = [caller EXCEPT ![t].pc = "done"]
  /\ UNCHANGED <<use, calls, droid_rc, reader, posted, executed>>

-----------------------------------------------------------------------------
(* ctl_read() *)

LoadRc ==
  /\ "rc" \in reader.loads
  /\ reader' = IF droid_rc = RC_NONE THEN Polling        \* return RC_NONE
               ELSE [reader EXCEPT !.loads = @ \ {"rc"}, !.rc = droid_rc]
  /\ UNCHANGED <<use, calls, memVars, caller, posted, executed>>
LoadArg ==
  /\ "arg" \in reader.loads
  /\ reader' = [reader EXCEPT !.loads = @ \ {"arg"}, !.arg = droid_arg]
  /\ UNCHANGED <<use, calls, memVars, caller, posted, executed>>

ReturnUncleared ==                                                 \* mutant
  /\ reader.loads = {} /\ reader.clears = {}
  /\ executed' = Append(executed, [rc |-> reader.rc, arg |-> reader.arg])
  /\ reader' = [reader EXCEPT !.clears = {"arg"}]
  /\ UNCHANGED <<use, calls, memVars, caller, posted>>
(* the request is taken: the caller of ctl_read() will carry it out *)
Return ==
  /\ reader.loads = {} /\ reader.clears = {}
  /\ executed' = Append(executed, [rc |-> reader.rc, arg |-> reader.arg])
  /\ reader' = [reader EXCEPT !.clears = Both]
  /\ UNCHANGED <<use, calls, memVars, caller, posted>>

Cleared(what) ==
  reader' = IF reader.clears = {what} THEN Polling
            ELSE [reader EXCEPT !.clears = @ \ {what}]
ClearRc ==
  /\ "rc" \in reader.clears
  /\ droid_rc' = RC_NONE
  /\ Cleared("rc")
  /\ UNCHANGED <<use, calls, droid_arg, caller, posted, executed>>
ClearArg ==
  /\ "arg" \in reader.clears
  /\ droid_arg' = NoArg
  /\ Cleared("arg")
  /\ UNCHANGED <<use, calls, droid_rc, caller, posted, executed>>

-----------------------------------------------------------------------------
Sender(t) == StoreRc(t) \/ StoreArg(t) \/ Test(t) \/ Scale(t)
Reader == LoadRc \/ LoadArg \/ Return \/ ClearRc \/ ClearArg

MailNext ==
  \/ \E t \in Threads, jump \in BOOLEAN : Call(t, jump)
  \/ \E t \in Threads : Sender(t)
  \/ Reader

MailSpec == MailInit /\ [][MailNext]_mail_vars

(* A call that was begun goes on; the player polls for ever. *)
FairMailSpec ==
  /\ MailSpec
  /\ \A t \in Threads : WF_mail_vars(Sender(t))
  /\ WF_mail_vars(LoadRc) /\ WF_mail_vars(LoadArg)
  /\ WF_mail_vars(Return \/ ClearRc \/ ClearArg)

-----------------------------------------------------------------------------
(* However many threads send and whatever they overwrite, a request is     *)
(* carried out once at most, and in the order in which they reached the    *)
(* mailbox.                                                                *)
OnceInOrder ==
  \E at \in [1..Len(executed) -> 1..Len(posted)] :
    /\ \A i \in 1..Len(executed) : posted[at[i]] = executed[i].rc
    /\ \A i, j \in 1..Len(executed) : i < j => at[i] < at[j]

(* One thread that waits for timidityReady() before each request: *)
OneCaller == use.asks /\ \E t \in Threads : use.callers = {t}

(* ... none of its requests is overwritten or cleared unread.  Arguments   *)
(* do get lost (helper.c:441, droid_c.c:266): a request may be carried out *)
(* with that of the one before or with the 0 that clears it, though never  *)
(* with one that is older;                                                 *)
NothingLost ==
  OneCaller =>
    /\ \A i \in 1..Len(posted) :
         \/ \E j \in 1..Len(executed) : executed[j].rc = posted[i]
         \/ droid_rc = posted[i] \/ reader.rc = posted[i]
    /\ \A i \in 1..Len(executed) :
         executed[i].arg.of \in {0, executed[i].rc.id - 1, executed[i].rc.id}

(* ... and each of them is carried out in the end. *)
Served ==
  \A n \in {u.calls : u \in Uses} :
    (OneCaller /\ Len(posted) >= n) ~> Len(executed) >= n
=============================================================================
