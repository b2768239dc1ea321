----------------------------- MODULE Telemetry -----------------------------
(***************************************************************************)
(* The batch of hk_telemetry.py, the application the deployment was tested *)
(* with: process_batch decodes packets in a pool of threads; all of them   *)
(* use the histories of the channels and the counters of anomalies, which  *)
(* are global, without a lock.  A history is a deque, made by the first    *)
(* thread that misses it, or by several, of which the last one's is kept;  *)
(* it complains if it was appended to while statistics.mean or stdev went  *)
(* through it.  A counter is read and written in two steps.                *)
(*                                                                         *)
(* A packet is a record: its time, what becomes of it ("hk", "science",    *)
(* "corrupt" if a checksum is wrong, "malformed" if decoding raises an     *)
(* exception), and the channels of its values.  Values are left out: any   *)
(* of them may be an anomaly.                                              *)
(***************************************************************************)
EXTENDS Integers, SequencesExt, FiniteSetsExt

CONSTANTS
  Threads,  \* of the pool
  Channel,
  Nobody,
  Enough    \* values of a history from which on statistics are made

ASSUME TelemetryAssumption == Nobody \notin Threads /\ Enough \in Nat

Packet ==
  [time : Nat, kind : {"hk", "science", "corrupt", "malformed"}, channels : Seq(Channel)]

VARIABLES
  batch,    \* the packets
  taken,    \* how many the pool has begun
  future,   \* what became of each: "pending", "ok", "none" or "raised"
  thread,   \* per thread: its position, packet, number of the value, what it has read,
            \* and the deque it uses, named by the thread that has made it
  history,  \* per channel: the deque in _ch_hist, or Nobody
  appends,  \* per channel and deque: appends to it
  counter,  \* per channel: _anom_cnt
  found,    \* history: anomalies found per channel
  main,     \* process_batch and pipeline: "collect", "raise", "send", "returned" or "failed"
  collected,
  report    \* the packets reported, in order

batchVars == <<batch, taken, future, thread, history, appends, counter, found, main, collected, report>>

Idle == [at |-> "idle", packet |-> 0, value |-> 0, read |-> 0, deque |-> Nobody]

BatchInit(b) ==
  /\ batch = b /\ taken = 0 /\ future = [i \in 1..Len(b) |-> "pending"]
  /\ thread = [t \in Threads |-> Idle]
  /\ history = [c \in Channel |-> Nobody]
  /\ appends = [c \in Channel |-> [t \in Threads |-> 0]]
  /\ counter = [c \in Channel |-> 0] /\ found = counter
  /\ main = "collect" /\ collected = {} /\ report = <<>>

-----------------------------------------------------------------------------
(* A thread of the pool: _dispatch, decode_hk and _wer_update. *)

PacketOf(t) == batch[thread[t].packet]
channel(t) == PacketOf(t).channels[thread[t].value]
length(t) == appends[channel(t)][thread[t].deque]

Move(t, s) == thread' = [thread EXCEPT ![t] = s]
Goto(t, at, read) == Move(t, [thread[t] EXCEPT !.at = at, !.read = read])
Done(t, result) == future' = [future EXCEPT ![thread[t].packet] = result]

Take(t) ==
  /\ thread[t].at = "idle" /\ taken < Len(batch)
  /\ taken' = taken + 1
  /\ Move(t, [Idle EXCEPT !.at = "check", !.packet = taken + 1])
  /\ UNCHANGED <<batch, future, history, appends, counter, found, main, collected, report>>

Raise(t) == Done(t, "raised") /\ Move(t, Idle)

(* A science frame gives no packet, *)
Science(t) ==
  /\ thread[t].at = "check" /\ PacketOf(t).kind = "science"
  /\ Done(t, "none") /\ Move(t, Idle)
  /\ UNCHANGED <<batch, taken, history, appends, counter, found, main, collected, report>>

(* and neither does a packet whose checksum is wrong. *)
Check(t) ==
  /\ thread[t].at = "check" /\ PacketOf(t).kind # "science"
  /\ CASE PacketOf(t).kind = "malformed" -> Raise(t)
       [] PacketOf(t).kind = "hk" -> Goto(t, "next", 0) /\ UNCHANGED future
       [] OTHER -> Done(t, "none") /\ Move(t, Idle)
  /\ UNCHANGED <<batch, taken, history, appends, counter, found, main, collected, report>>

NextValue(t) ==
  /\ thread[t].at = "next"
  /\ IF thread[t].value = Len(PacketOf(t).channels)
       THEN Done(t, "ok") /\ Move(t, Idle)
       ELSE /\ Move(t, [thread[t] EXCEPT !.value = @ + 1, !.at = "look"])
            /\ UNCHANGED future
  /\ UNCHANGED <<batch, taken, history, appends, counter, found, main, collected, report>>

(* The defaultdict gives the deque of the channel; *)
Look(t) ==
  /\ thread[t].at = "look"
  /\ IF history[channel(t)] = Nobody THEN Goto(t, "make", 0)
     ELSE Move(t, [thread[t] EXCEPT !.at = "length", !.deque = history[channel(t)]])
  /\ UNCHANGED <<batch, taken, future, history, appends, counter, found, main, collected, report>>

(* if there is none, it makes one, in Python, and then puts it in its place, *)
(* even if another thread has done so meanwhile.                             *)
MakeHistory(t) ==
  /\ thread[t].at = "make"
  /\ history' = [history EXCEPT ![channel(t)] = t]
  /\ Move(t, [thread[t] EXCEPT !.at = "length", !.deque = t])
  /\ UNCHANGED <<batch, taken, future, appends, counter, found, main, collected, report>>

(* With few values there are no statistics; else mean begins. *)
Length(t) ==
  /\ thread[t].at = "length"
  /\ Goto(t, IF length(t) < Enough THEN "append" ELSE "mean", length(t))
  /\ UNCHANGED <<batch, taken, future, history, appends, counter, found, main, collected, report>>

(* The end of mean and of stdev, if nobody has appended meanwhile. *)
Statistics(t, at, next) ==
  /\ thread[t].at = at
  /\ IF length(t) = thread[t].read
       THEN Goto(t, next, 0) /\ UNCHANGED future
       ELSE Raise(t)
  /\ UNCHANGED <<batch, taken, history, appends, counter, found, main, collected, report>>

StartStdev(t) ==
  /\ thread[t].at = "mean done"
  /\ Goto(t, "stdev", length(t))
  /\ UNCHANGED <<batch, taken, future, history, appends, counter, found, main, collected, report>>

(* A plausible bug: all channels have one history. *)
AppendValue_Common(t) ==
  /\ thread[t].at = "append"
  /\ appends' = [c \in Channel |-> [d \in Threads |->
                  appends[c][d] + (IF d = history[c] THEN 1 ELSE 0)]]
  /\ \E next \in {"next", "count"} : Goto(t, next, 0)
  /\ UNCHANGED <<batch, taken, future, history, counter, found, main, collected, report>>

(* The value is an anomaly or not. *)
AppendValue(t) ==
  /\ thread[t].at = "append"
  /\ appends' = [appends EXCEPT ![channel(t)][thread[t].deque] = @ + 1]
  /\ \E next \in {"next", "count"} : Goto(t, next, 0)
  /\ UNCHANGED <<batch, taken, future, history, counter, found, main, collected, report>>

CountRead(t) ==
  /\ thread[t].at = "count"
  /\ Goto(t, "write", counter[channel(t)])
  /\ found' = [found EXCEPT ![channel(t)] = @ + 1]
  /\ UNCHANGED <<batch, taken, future, history, appends, counter, main, collected, report>>

(* A plausible bug: the counter is that of the channel's place in the packet. *)
CountWrite_ByPlace(t) ==
  /\ thread[t].at = "write"
  /\ counter' = [counter EXCEPT ![PacketOf(t).channels[1]] = thread[t].read + 1]
  /\ Goto(t, "next", 0)
  /\ UNCHANGED <<batch, taken, future, history, appends, found, main, collected, report>>

CountWrite(t) ==
  /\ thread[t].at = "write"
  /\ counter' = [counter EXCEPT ![channel(t)] = thread[t].read + 1]
  /\ Goto(t, "next", 0)
  /\ UNCHANGED <<batch, taken, future, history, appends, found, main, collected, report>>

Decode(t) ==
  \/ Take(t) \/ Science(t) \/ Check(t) \/ NextValue(t)
  \/ Look(t) \/ MakeHistory(t) \/ Length(t)
  \/ Statistics(t, "mean", "mean done") \/ StartStdev(t) \/ Statistics(t, "stdev", "append")
  \/ AppendValue(t) \/ CountRead(t) \/ CountWrite(t)

-----------------------------------------------------------------------------
(* The main thread: process_batch and pipeline. *)

(* A plausible bug: an exception is taken for a packet that gives none. *)
Collect_Swallows ==
  /\ main = "collect"
  /\ \E i \in 1..Len(batch) \ collected :
       /\ future[i] # "pending"
       /\ collected' = collected \union {i}
       /\ UNCHANGED main
  /\ UNCHANGED <<batch, taken, future, thread, history, appends, counter, found, report>>

(* as_completed: any that is done; result() raises what the task has raised. *)
Collect ==
  /\ main = "collect"
  /\ \E i \in 1..Len(batch) \ collected :
       /\ future[i] # "pending"
       /\ collected' = collected \union {i}
       /\ main' = IF future[i] = "raised" THEN "raise" ELSE main
  /\ UNCHANGED <<batch, taken, future, thread, history, appends, counter, found, report>>

Quiet == taken = Len(batch) /\ \A t \in Threads : thread[t].at = "idle"
ByTime(s) == \A i, j \in 1..Len(s) : i < j => batch[s[i]].time <= batch[s[j]].time

(* The packets are sorted by time; those of one time are in any order. *)
Finish ==
  /\ main = "collect" /\ collected = 1..Len(batch)
  /\ main' = "send"
  /\ \E s \in SetToSeqs({i \in collected : future[i] = "ok"}) : ByTime(s) /\ report' = s
  /\ UNCHANGED <<batch, taken, future, thread, history, appends, counter, found, collected>>

(* The pool is shut down only when all packets are done. *)
Fail ==
  /\ main = "raise" /\ Quiet
  /\ main' = "failed"
  /\ UNCHANGED <<batch, taken, future, thread, history, appends, counter, found, collected, report>>

(* _send: a ground station that cannot be reached is only logged. *)
Send ==
  /\ main = "send"
  /\ main' = "returned"
  /\ UNCHANGED <<batch, taken, future, thread, history, appends, counter, found, collected, report>>

BatchStep == Collect \/ Finish \/ Fail \/ Send \/ \E t \in Threads : Decode(t)

-----------------------------------------------------------------------------
(* Properties *)

(* A packet other than i has values of the channel. *)
Shared(c, i) == \E j \in 1..Len(batch) \ {i} : batch[j].kind = "hk" /\ c \in ToSet(batch[j].channels)

(* A report has every good packet of the batch exactly once, by time: the    *)
(* batch is reported whole, or not at all.                                   *)
ReportWhole ==
  main \in {"send", "returned"} =>
    /\ ToSet(report) = {i \in 1..Len(batch) : batch[i].kind = "hk"}
    /\ IsInjective(report) /\ ByTime(report)

(* A packet that is not malformed raises an exception only if another one    *)
(* has a value of one of its channels, of which there are enough: batches    *)
(* of disjoint channels do not fail, whatever the schedule.                  *)
RaisesOnlyShared ==
  \A i \in 1..Len(batch) :
    future[i] = "raised" =>
      \/ batch[i].kind = "malformed"
      \/ \E c \in ToSet(batch[i].channels) : Shared(c, i) /\ \E t \in Threads : appends[c][t] > Enough

(* No anomaly is counted twice, and those of a channel that one packet has   *)
(* are all counted; of others some may be lost, but not all.                 *)
CountsBounded ==
  \A c \in Channel :
    /\ counter[c] <= found[c]
    /\ Quiet => /\ found[c] > 0 => counter[c] > 0
                /\ (\A i \in 1..Len(batch) : ~(batch[i].kind = "hk" /\ c \in ToSet(batch[i].channels)) \/ ~Shared(c, i))
                     => counter[c] = found[c]
=============================================================================
