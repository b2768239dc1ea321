--------------------------- MODULE WrapperProofs ---------------------------
(***************************************************************************)
(* Proofs about the wrapper process: the gate alone (Agent), for any       *)
(* number of signals and whether or not the process is pid 1; the batch of *)
(* telemetry (Telemetry), for any packets, threads and channels; the       *)
(* search for imports (Imports), for any graph of modules and any depth;   *)
(* and the whole of Wrapper, with whatever is written to run.json, and     *)
(* when.                                                                   *)
(*                                                                         *)
(* For the batch there is one lemma per action that says what it does to   *)
(* the threads (...Effect), and one per part of the invariant (Next...).   *)
(***************************************************************************)
EXTENDS Wrapper, FiniteSetTheorems, WellFoundedInduction, TLAPS

-----------------------------------------------------------------------------
(* The gate: Agent alone. *)

(* _h is installed exactly while main() is in the loop, or about to leave it. *)
HandlerScope == handler = "gate" <=> pc \in Waiting \union {"uninstall"}

(* What the process knows of a signal, a signal has told it. *)
Caught ==
  /\ tripped => (handler = "gate" /\ sent > 0)
  /\ done => sent > 0
  /\ pc = "woken" => tripped

(* Past the loop, a process under sync has been signalled. *)
Passed == (sync /\ pc \in After \union {"app"}) => sent > 0

(* There is one process: before it is executed nothing has been started. *)
Unborn == pc = Absent => starts = 0

GateInv == TypeOK /\ HandlerScope /\ Caught /\ Passed /\ Unborn /\ GateHolds

-----------------------------------------------------------------------------
(* The invariant holds of the initial state: nothing has been signalled.   *)
LEMMA InitGate == Init => GateInv
<1> SUFFICES ASSUME Init PROVE GateInv
  OBVIOUS
<1> USE DEF Init, PCs, Absent, Before, Waiting, After
<1>1. TypeOK
  <2>1. sent \in 0..MaxSignals
    BY AgentAssumption
  <2>2. {tripped, done, token, sync, cmd} \subseteq BOOLEAN
    OBVIOUS
  <2> QED
    BY <2>1, <2>2 DEF TypeOK
<1>2. HandlerScope /\ Unborn
  BY DEF HandlerScope, Unborn
<1>3. Caught /\ Passed /\ GateHolds
  BY DEF Caught, Passed, GateHolds
<1> QED
  BY <1>1, <1>2, <1>3 DEF GateInv

(* Each action of the process, and each signal, preserves the invariant. *)
LEMMA NextGate == GateInv /\ [Next]_vars => GateInv'
<1> SUFFICES ASSUME GateInv, [Next]_vars PROVE GateInv'
  OBVIOUS
<1>0. MaxSignals \in Nat
  BY AgentAssumption
<1> USE <1>0
    DEF GateInv, TypeOK, HandlerScope, Caught, Passed, Unborn, GateHolds,
        PCs, Absent, Before, Waiting, After
<1>1. ASSUME NEW s \in BOOLEAN, NEW c \in BOOLEAN, Exec(s, c) PROVE GateInv'
  <2>1. sent' \in 0..MaxSignals
    BY <1>1 DEF Exec
  <2>2. {tripped, done, token, sync, cmd}' \subseteq BOOLEAN
    BY <1>1 DEF Exec
  <2>3. TypeOK'
    BY <1>1, <2>1, <2>2 DEF Exec
  <2>4. (HandlerScope /\ Caught /\ Passed /\ Unborn /\ GateHolds)'
    BY <1>1 DEF Exec
  <2> QED
    BY <2>3, <2>4
<1>2. CASE Crash
  BY <1>2 DEF Crash
<1>3. CASE Exit
  BY <1>3 DEF Exit
<1>4. CASE Import
  BY <1>4 DEF Import
<1>5. CASE CreateToken
  BY <1>5 DEF CreateToken
<1>6. CASE WriteToken
  BY <1>6 DEF WriteToken
<1>7. CASE Install
  BY <1>7 DEF Install
<1>8. CASE TestDone
  BY <1>8 DEF TestDone
<1>9. CASE RunHandler
  BY <1>9 DEF RunHandler
<1>10. CASE EnterPause
  BY <1>10 DEF EnterPause
<1>11. CASE Wake
  BY <1>11 DEF Wake
<1>12. CASE Uninstall
  BY <1>12 DEF Uninstall
<1>13. CASE Unlink
  BY <1>13 DEF Unlink
<1>14. CASE StartApp
  BY <1>14 DEF StartApp
<1>15. CASE sent < MaxSignals /\ Signal
  <2>1. sent' \in 0..MaxSignals /\ sent' > 0
    BY <1>15 DEF Signal
  <2>2. {tripped, done, token, sync, cmd}' \subseteq BOOLEAN
    BY <1>15 DEF Signal
  <2>3. TypeOK'
    BY <1>15, <2>1, <2>2 DEF Signal, Live
  <2>4. (HandlerScope /\ Caught /\ Passed /\ Unborn /\ GateHolds)'
    BY <1>15, <2>1 DEF Signal, Live
  <2> QED
    BY <2>3, <2>4
<1>16. CASE UNCHANGED vars
  BY <1>16 DEF vars
<1> QED
  BY <1>1, <1>2, <1>3, <1>4, <1>5, <1>6, <1>7, <1>8, <1>9, <1>10, <1>11,
     <1>12, <1>13, <1>14, <1>15, <1>16
  DEF Next, Step

(* Every reachable state is described by the invariant. *)
THEOREM Invariance == Spec => []GateInv
BY InitGate, NextGate, PTL DEF Spec

(* Every variable keeps its type, and nobody is signalled past the bound.   *)
THEOREM TypeCorrect == Spec => []TypeOK
<1>1. GateInv => TypeOK
  BY DEF GateInv
<1> QED
  BY Invariance, <1>1, PTL

(* Whatever the interleaving of signals and bytecodes, a process under sync  *)
(* does not start the application unsignalled.                              *)
THEOREM GateSafety == Spec => []GateHolds
<1>1. GateInv => GateHolds
  BY DEF GateInv
<1> QED
  BY Invariance, <1>1, PTL

-----------------------------------------------------------------------------
(* The telemetry batch. *)

OnValue ==
  {"look", "make", "length", "mean", "mean done", "stdev", "append", "count", "write"}

Seat ==
  [at : {"idle", "check", "next"} \union OnValue, packet : Nat, value : Nat, read : Nat,
   deque : Threads \union {Nobody}]

(* The types of the batch's variables. *)
BatchKinds ==
  /\ batch \in Seq(Packet) /\ taken \in 0..Len(batch)
  /\ future \in [1..Len(batch) -> {"pending", "ok", "none", "raised"}]
  /\ thread \in [Threads -> Seat]
  /\ history \in [Channel -> Threads \union {Nobody}]
  /\ appends \in [Channel -> [Threads -> Nat]]
  /\ counter \in [Channel -> Nat] /\ found \in [Channel -> Nat]
  /\ main \in {"collect", "raise", "send", "returned", "failed"}
  /\ collected \subseteq 1..Len(batch)

(* A thread that is not idle has a packet of its own, which is not done yet. *)
Seated ==
  /\ \A t \in Threads :
       thread[t].at # "idle" =>
         thread[t].packet \in 1..taken /\ future[thread[t].packet] = "pending"
  /\ \A t, u \in Threads :
       thread[t].at # "idle" /\ thread[u].at # "idle" /\ thread[t].packet = thread[u].packet
         => t = u
  /\ \A i \in taken + 1..Len(batch) : future[i] = "pending"

(* It has a value only of a packet that is decoded, and then a deque. *)
Inside(t) ==
  /\ thread[t].at = "check" => thread[t].value = 0
  /\ thread[t].at \in {"next"} \union OnValue =>
       PacketOf(t).kind = "hk" /\ thread[t].value \in 0..Len(PacketOf(t).channels)
  /\ thread[t].at \in OnValue => thread[t].value >= 1
  /\ thread[t].at \in OnValue \ {"look", "make", "count", "write"} => thread[t].deque \in Threads

Placed == Seated /\ \A t \in Threads : Inside(t)

(* What becomes of a packet goes with its kind, and the main thread has seen *)
(* what became of each that it has collected.                                *)
Decided ==
  /\ \A i \in 1..Len(batch) :
       (future[i] = "ok" => batch[i].kind = "hk") /\ (future[i] = "none" => batch[i].kind # "hk")
  /\ \A i \in collected : future[i] # "pending"
  /\ main \in {"collect", "send", "returned"} => \A i \in collected : future[i] # "raised"
  /\ main \in {"send", "returned"} => collected = 1..Len(batch)

(* The deque that a thread goes through has grown only if a packet other     *)
(* than the thread's has appended to it.                                     *)
Undisturbed(t) ==
  /\ thread[t].at \in {"mean", "mean done", "stdev"} => length(t) >= Enough
  /\ thread[t].at \in {"mean", "stdev"} =>
       /\ Enough <= thread[t].read /\ thread[t].read <= length(t)
       /\ thread[t].read # length(t) => Shared(channel(t), thread[t].packet)

Disturbed == \A t \in Threads : Undisturbed(t)

Counting(t, c) == thread[t].at = "write" /\ channel(t) = c

(* No packet shares the channel with another one. *)
Unshared(c) ==
  \A i \in 1..Len(batch) :
    ~(batch[i].kind = "hk" /\ c \in ToSet(batch[i].channels)) \/ ~Shared(c, i)

(* A thread between the two steps on a counter knows what the counter will   *)
(* be; a counter that nobody shares is behind by that thread's anomaly only. *)
Tally(c) ==
  /\ \A t \in Threads : Counting(t, c) => thread[t].read < found[c]
  /\ counter[c] <= found[c]
  /\ found[c] > 0 => counter[c] > 0 \/ \E t \in Threads : Counting(t, c)
  /\ Unshared(c) =>
       /\ \A t \in Threads :
            Counting(t, c) => thread[t].read = counter[c] /\ found[c] = counter[c] + 1
       /\ (\A t \in Threads : ~Counting(t, c)) => counter[c] = found[c]

Tallied == \A c \in Channel : Tally(c)

BatchInv ==
  /\ BatchKinds /\ Placed /\ Decided /\ ReportWhole
  /\ Disturbed /\ RaisesOnlyShared /\ Tallied

(* The channel of a thread that is at a value is one of its packet. *)
LEMMA AtValue ==
  ASSUME BatchKinds, Placed, NEW t \in Threads, thread[t].at \in OnValue
  PROVE  /\ PacketOf(t) \in Packet /\ PacketOf(t).kind = "hk"
         /\ thread[t].packet \in 1..Len(batch)
         /\ channel(t) \in Channel /\ channel(t) \in ToSet(PacketOf(t).channels)
<1>1. thread[t].at # "idle" /\ thread[t].at \in {"next"} \union OnValue
  BY DEF OnValue
<1>2. thread[t].packet \in 1..taken /\ PacketOf(t).kind = "hk"
  BY <1>1 DEF Placed, Seated, Inside
<1>3. thread[t].packet \in 1..Len(batch)
  BY <1>2 DEF BatchKinds
<1>4. thread[t].value \in 0..Len(PacketOf(t).channels) /\ thread[t].value >= 1
  BY <1>1 DEF Placed, Seated, Inside
<1>5. PacketOf(t) \in Packet
  BY <1>3 DEF BatchKinds, PacketOf
<1>6. PacketOf(t).channels \in Seq(Channel)
  BY <1>5 DEF Packet
<1>7. thread[t].value \in 1..Len(PacketOf(t).channels)
  BY <1>4, <1>6
<1>8. channel(t) \in Channel
  BY <1>6, <1>7 DEF channel
<1>9. channel(t) \in ToSet(PacketOf(t).channels)
  BY <1>6, <1>7 DEF channel, ToSet
<1> QED
  BY <1>2, <1>3, <1>5, <1>8, <1>9

(* A step of a thread moves no other one. *)
Others(t) == \A u \in Threads \ {t} : thread'[u] = thread[u]

(* Where a thread moves to, *)
LEMMA Moved ==
  ASSUME thread \in [Threads -> Seat], NEW t \in Threads, NEW s \in Seat, Move(t, s)
  PROVE  thread' \in [Threads -> Seat] /\ thread'[t] = s /\ Others(t)
BY DEF Move, Others

(* when it stays with its value, *)
LEMMA Went ==
  ASSUME thread \in [Threads -> Seat], NEW t \in Threads,
         NEW at \in {"next"} \union OnValue, NEW read \in Nat, Goto(t, at, read)
  PROVE  /\ thread' \in [Threads -> Seat] /\ Others(t)
         /\ thread'[t].at = at /\ thread'[t].read = read
         /\ thread'[t].packet = thread[t].packet /\ thread'[t].value = thread[t].value
         /\ thread'[t].deque = thread[t].deque
<1> DEFINE s == [thread[t] EXCEPT !.at = at, !.read = read]
<1>1. thread[t] \in Seat
  OBVIOUS
<1>2. s \in Seat /\ s.at = at /\ s.read = read /\ s.packet = thread[t].packet
        /\ s.value = thread[t].value /\ s.deque = thread[t].deque
  BY <1>1 DEF Seat
<1> HIDE DEF s
<1>3. Move(t, s)
  BY DEF Goto, s
<1> QED
  BY <1>2, <1>3, Moved

(* and when it has done with its packet. *)
LEMMA Rested ==
  ASSUME thread \in [Threads -> Seat], NEW t \in Threads, Move(t, Idle)
  PROVE  thread' \in [Threads -> Seat] /\ Others(t) /\ thread'[t].at = "idle"
<1>1. Idle \in Seat /\ Idle.at = "idle"
  BY DEF Idle, Seat
<1> QED
  BY <1>1, Moved

(* What a thread does, in terms of where it is before and after. *)
Taken(t) ==
  /\ thread[t].at = "idle" /\ thread'[t].at = "check"
  /\ taken' = taken + 1 /\ taken < Len(batch)
  /\ thread'[t].packet = taken' /\ thread'[t].value = 0
  /\ UNCHANGED <<future, history, appends, counter, found>>

Ended(t, r) ==
  /\ thread[t].at \in {"check", "next", "mean", "stdev"} /\ thread'[t].at = "idle"
  /\ future' = [future EXCEPT ![thread[t].packet] = r]
  /\ UNCHANGED <<taken, history, appends, counter, found>>

Stayed(t) ==
  /\ thread[t].at # "idle" /\ thread'[t].at \in {"next"} \union OnValue
  /\ thread'[t].packet = thread[t].packet
  /\ UNCHANGED <<taken, future>>

(* A packet is taken, *)
LEMMA TakeEffect ==
  ASSUME BatchKinds, NEW t \in Threads, Take(t)
  PROVE  thread' \in [Threads -> Seat] /\ Others(t) /\ Taken(t)
<1> DEFINE s == [Idle EXCEPT !.at = "check", !.packet = taken + 1]
<1>0. taken \in Nat /\ taken + 1 \in Nat
  BY DEF BatchKinds
<1>1. s \in Seat /\ s.at = "check" /\ s.packet = taken + 1 /\ s.value = 0
  BY <1>0 DEF Idle, Seat, OnValue
<1> HIDE DEF s
<1>2. Move(t, s) /\ thread \in [Threads -> Seat]
  BY DEF Take, s, BatchKinds
<1> QED
  BY <1>1, <1>2, Moved DEF Take, Taken

(* its values are gone through, *)
LEMMA NextValueEffect ==
  ASSUME BatchKinds, NEW t \in Threads, NextValue(t)
  PROVE  /\ thread' \in [Threads -> Seat] /\ Others(t)
         /\ \/ Ended(t, "ok") /\ thread[t].at = "next"
            \/ /\ Stayed(t) /\ thread[t].at = "next" /\ thread'[t].at = "look"
               /\ thread[t].value # Len(PacketOf(t).channels)
               /\ thread'[t].value = thread[t].value + 1
               /\ UNCHANGED <<history, appends, counter, found>>
<1>0. thread \in [Threads -> Seat] /\ thread[t].at = "next"
  BY DEF NextValue, BatchKinds
<1>1. CASE thread[t].value = Len(PacketOf(t).channels)
  BY <1>0, <1>1, Rested DEF NextValue, Done, Ended
<1>2. CASE thread[t].value # Len(PacketOf(t).channels)
  <2> DEFINE s == [thread[t] EXCEPT !.value = @ + 1, !.at = "look"]
  <2>1. thread[t] \in Seat /\ thread[t].value + 1 \in Nat
    BY <1>0 DEF Seat
  <2>2. s \in Seat /\ s.at = "look" /\ s.packet = thread[t].packet /\ s.value = thread[t].value + 1
    BY <2>1 DEF Seat, OnValue
  <2> HIDE DEF s
  <2>3. Move(t, s) /\ UNCHANGED future
    BY <1>2 DEF NextValue, s
  <2> QED
    BY <1>0, <1>2, <2>2, <2>3, Moved DEF NextValue, Stayed, OnValue
<1> QED
  BY <1>1, <1>2

(* the deque of a value is looked up, *)
LEMMA LookEffect ==
  ASSUME BatchKinds, Placed, NEW t \in Threads, Look(t)
  PROVE  /\ thread' \in [Threads -> Seat] /\ Others(t) /\ Stayed(t)
         /\ thread[t].at = "look" /\ thread'[t].value = thread[t].value
         /\ \/ thread'[t].at = "make"
            \/ thread'[t].at = "length" /\ thread'[t].deque \in Threads
         /\ UNCHANGED <<history, appends, counter, found>>
<1>0. thread \in [Threads -> Seat] /\ thread[t].at = "look" /\ channel(t) \in Channel
  BY AtValue DEF Look, BatchKinds, OnValue
<1>1. CASE history[channel(t)] = Nobody
  <2>1. Goto(t, "make", 0)
    BY <1>1 DEF Look
  <2> QED
    BY <1>0, <2>1, Went DEF Look, Stayed, OnValue
<1>2. CASE history[channel(t)] # Nobody
  <2> DEFINE s == [thread[t] EXCEPT !.at = "length", !.deque = history[channel(t)]]
  <2>1. thread[t] \in Seat /\ history[channel(t)] \in Threads
    BY <1>0, <1>2 DEF BatchKinds
  <2>2. s \in Seat /\ s.at = "length" /\ s.packet = thread[t].packet
          /\ s.value = thread[t].value /\ s.deque \in Threads
    BY <2>1 DEF Seat, OnValue
  <2> HIDE DEF s
  <2>3. Move(t, s)
    BY <1>2 DEF Look, s
  <2> QED
    BY <1>0, <2>2, <2>3, Moved DEF Look, Stayed, OnValue
<1> QED
  BY <1>1, <1>2

(* or made, *)
LEMMA MakeHistoryEffect ==
  ASSUME BatchKinds, NEW t \in Threads, MakeHistory(t)
  PROVE  /\ thread' \in [Threads -> Seat] /\ Others(t) /\ Stayed(t)
         /\ thread[t].at = "make" /\ thread'[t].value = thread[t].value
         /\ thread'[t].at = "length" /\ thread'[t].deque \in Threads
         /\ UNCHANGED <<appends, counter, found>>
<1> DEFINE s == [thread[t] EXCEPT !.at = "length", !.deque = t]
<1>1. thread \in [Threads -> Seat] /\ thread[t] \in Seat
  BY DEF BatchKinds
<1>2. s \in Seat /\ s.at = "length" /\ s.packet = thread[t].packet
        /\ s.value = thread[t].value /\ s.deque \in Threads
  BY <1>1 DEF Seat, OnValue
<1> HIDE DEF s
<1>3. Move(t, s) /\ thread[t].at = "make"
  BY DEF MakeHistory, s
<1> QED
  BY <1>1, <1>2, <1>3, Moved DEF MakeHistory, Stayed, OnValue

(* A thread that goes on with its value keeps its deque. *)
Same(t) == thread'[t].value = thread[t].value /\ thread'[t].deque = thread[t].deque

(* A packet that is not decoded gives none, or an exception, *)
LEMMA ScienceEffect ==
  ASSUME BatchKinds, NEW t \in Threads, Science(t)
  PROVE  /\ thread' \in [Threads -> Seat] /\ Others(t)
         /\ thread[t].at = "check" /\ Ended(t, "none") /\ PacketOf(t).kind # "hk"
<1>1. thread \in [Threads -> Seat]
  BY DEF BatchKinds
<1> QED
  BY <1>1, Rested DEF Science, Done, Ended

LEMMA CheckEffect ==
  ASSUME BatchKinds, NEW t \in Threads, Check(t)
  PROVE  /\ thread' \in [Threads -> Seat] /\ Others(t) /\ thread[t].at = "check"
         /\ \/ Ended(t, "raised") /\ PacketOf(t).kind = "malformed"
            \/ Ended(t, "none") /\ PacketOf(t).kind # "hk"
            \/ /\ Stayed(t) /\ Same(t) /\ thread'[t].at = "next" /\ PacketOf(t).kind = "hk"
               /\ UNCHANGED <<history, appends, counter, found>>
<1>0. thread \in [Threads -> Seat] /\ thread[t].at = "check"
  BY DEF BatchKinds, Check
<1>1. CASE PacketOf(t).kind = "malformed"
  <2>1. Done(t, "raised") /\ Move(t, Idle)
    BY <1>1 DEF Check, Raise
  <2> QED
    BY <1>0, <1>1, <2>1, Rested DEF Check, Done, Ended
<1>2. CASE PacketOf(t).kind = "hk"
  <2>1. Goto(t, "next", 0) /\ UNCHANGED future
    BY <1>2 DEF Check
  <2> QED
    BY <1>0, <1>2, <2>1, Went DEF Check, Stayed, Same
<1>3. CASE PacketOf(t).kind # "malformed" /\ PacketOf(t).kind # "hk"
  <2>1. Done(t, "none") /\ Move(t, Idle)
    BY <1>3 DEF Check
  <2> QED
    BY <1>0, <1>3, <2>1, Rested DEF Check, Done, Ended
<1> QED
  BY <1>1, <1>2, <1>3

(* The length of a deque is a number. *)
LEMMA Lengths ==
  ASSUME BatchKinds, Placed, NEW t \in Threads,
         thread[t].at \in OnValue, thread[t].deque \in Threads
  PROVE  length(t) \in Nat
<1>1. channel(t) \in Channel
  BY AtValue
<1> QED
  BY <1>1 DEF length, BatchKinds

(* the statistics begin, *)
LEMMA LengthEffect ==
  ASSUME BatchKinds, Placed, NEW t \in Threads, Length(t)
  PROVE  /\ thread' \in [Threads -> Seat] /\ Others(t) /\ Stayed(t) /\ Same(t)
         /\ thread[t].at = "length" /\ thread[t].deque \in Threads /\ thread'[t].read = length(t)
         /\ \/ thread'[t].at = "append"
            \/ thread'[t].at = "mean" /\ length(t) >= Enough
         /\ UNCHANGED <<history, appends, counter, found>>
<1>0. thread \in [Threads -> Seat] /\ thread[t].at = "length"
  BY DEF BatchKinds, Length
<1>1. thread[t].deque \in Threads
  BY <1>0 DEF Placed, Seated, Inside, OnValue
<1>2. length(t) \in Nat
  BY <1>0, <1>1, Lengths DEF OnValue
<1>3. CASE length(t) < Enough
  <2>1. Goto(t, "append", length(t))
    BY <1>3 DEF Length
  <2> QED
    BY <1>0, <1>1, <1>2, <2>1, Went DEF Length, Stayed, Same, OnValue
<1>4. CASE ~(length(t) < Enough)
  <2>1. Goto(t, "mean", length(t))
    BY <1>4 DEF Length
  <2>2. length(t) >= Enough
    BY <1>2, <1>4, TelemetryAssumption
  <2> QED
    BY <1>0, <1>1, <1>2, <2>1, <2>2, Went DEF Length, Stayed, Same, OnValue
<1> QED
  BY <1>3, <1>4

(* and end, *)
LEMMA StatisticsEffect ==
  ASSUME BatchKinds, NEW t \in Threads, NEW at \in {"mean", "stdev"}, NEW next \in OnValue,
         Statistics(t, at, next)
  PROVE  /\ thread' \in [Threads -> Seat] /\ Others(t) /\ thread[t].at = at
         /\ \/ Ended(t, "raised") /\ length(t) # thread[t].read
            \/ /\ Stayed(t) /\ Same(t) /\ thread'[t].at = next /\ length(t) = thread[t].read
               /\ UNCHANGED <<history, appends, counter, found>>
<1>0. thread \in [Threads -> Seat] /\ thread[t].at = at
  BY DEF BatchKinds, Statistics
<1>1. CASE length(t) = thread[t].read
  <2>1. Goto(t, next, 0) /\ UNCHANGED future
    BY <1>1 DEF Statistics
  <2> QED
    BY <1>0, <1>1, <2>1, Went DEF Statistics, Stayed, Same
<1>2. CASE length(t) # thread[t].read
  <2>1. Done(t, "raised") /\ Move(t, Idle)
    BY <1>2 DEF Statistics, Raise
  <2> QED
    BY <1>0, <1>2, <2>1, Rested DEF Statistics, Done, Ended
<1> QED
  BY <1>1, <1>2

LEMMA StartStdevEffect ==
  ASSUME BatchKinds, Placed, NEW t \in Threads, StartStdev(t)
  PROVE  /\ thread' \in [Threads -> Seat] /\ Others(t) /\ Stayed(t) /\ Same(t)
         /\ thread[t].at = "mean done" /\ thread[t].deque \in Threads
         /\ thread'[t].at = "stdev" /\ thread'[t].read = length(t)
         /\ UNCHANGED <<history, appends, counter, found>>
<1>0. thread \in [Threads -> Seat] /\ thread[t].at = "mean done"
  BY DEF BatchKinds, StartStdev
<1>1. thread[t].deque \in Threads
  BY <1>0 DEF Placed, Seated, Inside, OnValue
<1>2. length(t) \in Nat
  BY <1>0, <1>1, Lengths DEF OnValue
<1>3. Goto(t, "stdev", length(t))
  BY DEF StartStdev
<1> QED
  BY <1>0, <1>1, <1>2, <1>3, Went DEF StartStdev, Stayed, Same, OnValue

(* the value is appended, *)
LEMMA AppendEffect ==
  ASSUME BatchKinds, Placed, NEW t \in Threads, AppendValue(t)
  PROVE  /\ thread' \in [Threads -> Seat] /\ Others(t) /\ Stayed(t) /\ Same(t)
         /\ thread[t].at = "append" /\ thread'[t].at \in {"next", "count"}
         /\ channel(t) \in Channel /\ thread[t].deque \in Threads
         /\ appends' \in [Channel -> [Threads -> Nat]]
         /\ \A c \in Channel : \A d \in Threads :
              appends'[c][d] =
                IF c = channel(t) /\ d = thread[t].deque THEN appends[c][d] + 1 ELSE appends[c][d]
         /\ UNCHANGED <<history, counter, found>>
<1>0. thread \in [Threads -> Seat] /\ thread[t].at = "append"
  BY DEF BatchKinds, AppendValue
<1>1. thread[t].deque \in Threads /\ channel(t) \in Channel
  BY <1>0, AtValue DEF Placed, Seated, Inside, OnValue
<1>2. PICK next \in {"next", "count"} : Goto(t, next, 0)
  BY DEF AppendValue
<1>3. /\ appends \in [Channel -> [Threads -> Nat]]
      /\ appends' = [appends EXCEPT ![channel(t)][thread[t].deque] = @ + 1]
  BY DEF AppendValue, BatchKinds
<1>4. /\ appends' \in [Channel -> [Threads -> Nat]]
      /\ \A c \in Channel : \A d \in Threads :
           appends'[c][d] =
             IF c = channel(t) /\ d = thread[t].deque THEN appends[c][d] + 1 ELSE appends[c][d]
  BY <1>1, <1>3
<1>5. next \in {"next"} \union OnValue
  BY <1>2 DEF OnValue
<1>6. thread' \in [Threads -> Seat] /\ Others(t) /\ Same(t) /\ thread'[t].at = next
        /\ thread'[t].packet = thread[t].packet
  BY <1>0, <1>2, <1>5, Went DEF Same
<1> QED
  BY <1>0, <1>1, <1>2, <1>4, <1>5, <1>6 DEF AppendValue, Stayed

(* and an anomaly is counted, in two steps. *)
LEMMA CountReadEffect ==
  ASSUME BatchKinds, Placed, NEW t \in Threads, CountRead(t)
  PROVE  /\ thread' \in [Threads -> Seat] /\ Others(t) /\ Stayed(t) /\ Same(t)
         /\ thread[t].at = "count" /\ thread'[t].at = "write"
         /\ channel(t) \in Channel /\ thread'[t].read = counter[channel(t)]
         /\ found' = [found EXCEPT ![channel(t)] = @ + 1]
         /\ UNCHANGED <<history, appends, counter>>
<1>0. thread \in [Threads -> Seat] /\ thread[t].at = "count"
  BY DEF BatchKinds, CountRead
<1>1. channel(t) \in Channel
  BY <1>0, AtValue DEF OnValue
<1>2. counter[channel(t)] \in Nat
  BY <1>1 DEF BatchKinds
<1>3. Goto(t, "write", counter[channel(t)])
  BY DEF CountRead
<1> QED
  BY <1>0, <1>1, <1>2, <1>3, Went DEF CountRead, Stayed, Same, OnValue

LEMMA CountWriteEffect ==
  ASSUME BatchKinds, Placed, NEW t \in Threads, CountWrite(t)
  PROVE  /\ thread' \in [Threads -> Seat] /\ Others(t) /\ Stayed(t) /\ Same(t)
         /\ thread[t].at = "write" /\ thread'[t].at = "next"
         /\ channel(t) \in Channel /\ thread[t].read \in Nat
         /\ counter' = [counter EXCEPT ![channel(t)] = thread[t].read + 1]
         /\ counter' \in [Channel -> Nat]
         /\ UNCHANGED <<history, appends, found>>
<1>0. thread \in [Threads -> Seat] /\ thread[t].at = "write"
  BY DEF BatchKinds, CountWrite
<1>1. channel(t) \in Channel /\ thread[t].read \in Nat
  BY <1>0, AtValue DEF OnValue, Seat
<1>2. Goto(t, "next", 0) /\ counter' = [counter EXCEPT ![channel(t)] = thread[t].read + 1]
  BY DEF CountWrite
<1>3. counter \in [Channel -> Nat]
  BY DEF BatchKinds
<1>4. counter' \in [Channel -> Nat]
  BY <1>1, <1>2, <1>3
<1> QED
  BY <1>0, <1>1, <1>2, <1>4, Went DEF CountWrite, Stayed, Same, OnValue

(* Only the main thread collects; the batch itself does not change. *)
LEMMA DecodeFrame ==
  ASSUME NEW t \in Threads, Decode(t)
  PROVE  UNCHANGED <<batch, main, collected, report>>
BY DEF Decode, Take, Science, Check, NextValue, Look, MakeHistory, Length, Statistics, StartStdev,
       AppendValue, CountRead, CountWrite

(* Each step keeps the types of the batch, *)
LEMMA NextBatchKinds == BatchKinds /\ Placed /\ (BatchStep \/ UNCHANGED batchVars) => BatchKinds'
<1> SUFFICES ASSUME BatchKinds, Placed, BatchStep \/ UNCHANGED batchVars PROVE BatchKinds'
  OBVIOUS
<1>1. CASE Collect
  BY <1>1 DEF Collect, BatchKinds
<1>2. CASE Finish
  BY <1>2 DEF Finish, BatchKinds
<1>3. CASE Fail
  BY <1>3 DEF Fail, BatchKinds
<1>4. CASE Send
  BY <1>4 DEF Send, BatchKinds
<1>5. CASE UNCHANGED batchVars
  BY <1>5 DEF batchVars, BatchKinds
<1>6. ASSUME NEW t \in Threads, Decode(t) PROVE BatchKinds'
  <2>0. UNCHANGED <<batch, main, collected, report>>
    BY <1>6, DecodeFrame
  <2>1. CASE Take(t)
    BY <2>0, <2>1, TakeEffect DEF BatchKinds, Taken, Ended, Stayed
  <2>2. CASE Science(t)
    BY <2>0, <2>2, ScienceEffect DEF BatchKinds, Taken, Ended, Stayed
  <2>3. CASE Check(t)
    BY <2>0, <2>3, CheckEffect DEF BatchKinds, Taken, Ended, Stayed
  <2>4. CASE NextValue(t)
    BY <2>0, <2>4, NextValueEffect DEF BatchKinds, Taken, Ended, Stayed
  <2>5. CASE Look(t)
    BY <2>0, <2>5, LookEffect DEF BatchKinds, Taken, Ended, Stayed
  <2>6. CASE MakeHistory(t)
    BY <2>0, <2>6, MakeHistoryEffect DEF BatchKinds, MakeHistory, Stayed
  <2>7. CASE Length(t)
    BY <2>0, <2>7, LengthEffect DEF BatchKinds, Taken, Ended, Stayed
  <2>8. CASE Statistics(t, "mean", "mean done")
    BY <2>0, <2>8, StatisticsEffect DEF BatchKinds, Ended, Stayed, OnValue
  <2>9. CASE StartStdev(t)
    BY <2>0, <2>9, StartStdevEffect DEF BatchKinds, Taken, Ended, Stayed
  <2>10. CASE Statistics(t, "stdev", "append")
    BY <2>0, <2>10, StatisticsEffect DEF BatchKinds, Ended, Stayed, OnValue
  <2>11. CASE AppendValue(t)
    BY <2>0, <2>11, AppendEffect DEF BatchKinds, Taken, Ended, Stayed
  <2>12. CASE CountRead(t)
    BY <2>0, <2>12, CountReadEffect DEF BatchKinds, Taken, Ended, Stayed
  <2>13. CASE CountWrite(t)
    BY <2>0, <2>13, CountWriteEffect DEF BatchKinds, Taken, Ended, Stayed
  <2> QED
    BY <1>6, <2>1, <2>2, <2>3, <2>4, <2>5, <2>6, <2>7, <2>8, <2>9, <2>10, <2>11, <2>12, <2>13
    DEF Decode
<1> QED
  BY <1>1, <1>2, <1>3, <1>4, <1>5, <1>6 DEF BatchStep

(* Whatever a thread does, it has taken a packet, ended it, or stayed with it. *)
LEMMA Shapes ==
  ASSUME BatchKinds, Placed, NEW t \in Threads, Decode(t)
  PROVE  /\ thread' \in [Threads -> Seat] /\ Others(t)
         /\ Taken(t) \/ (\E r \in {"ok", "none", "raised"} : Ended(t, r)) \/ Stayed(t)
<1>1. CASE Take(t)
  BY <1>1, TakeEffect
<1>2. CASE Science(t)
  BY <1>2, ScienceEffect
<1>3. CASE Check(t)
  BY <1>3, CheckEffect
<1>4. CASE NextValue(t)
  BY <1>4, NextValueEffect
<1>5. CASE Look(t)
  BY <1>5, LookEffect
<1>6. CASE MakeHistory(t)
  BY <1>6, MakeHistoryEffect
<1>7. CASE Length(t)
  BY <1>7, LengthEffect
<1>8. CASE Statistics(t, "mean", "mean done")
  BY <1>8, StatisticsEffect DEF OnValue
<1>9. CASE StartStdev(t)
  BY <1>9, StartStdevEffect
<1>10. CASE Statistics(t, "stdev", "append")
  BY <1>10, StatisticsEffect DEF OnValue
<1>11. CASE AppendValue(t)
  BY <1>11, AppendEffect
<1>12. CASE CountRead(t)
  BY <1>12, CountReadEffect
<1>13. CASE CountWrite(t)
  BY <1>13, CountWriteEffect
<1> QED
  BY <1>1, <1>2, <1>3, <1>4, <1>5, <1>6, <1>7, <1>8, <1>9, <1>10, <1>11, <1>12, <1>13 DEF Decode

(* Each packet that is begun stays with one thread until it is done, *)
LEMMA NextSeated ==
  BatchKinds /\ Placed /\ (BatchStep \/ UNCHANGED batchVars) => Seated'
<1> SUFFICES ASSUME BatchKinds, Placed, BatchStep \/ UNCHANGED batchVars PROVE Seated'
  OBVIOUS
<1>1. CASE UNCHANGED <<batch, taken, future, thread>>
  BY <1>1 DEF Placed, Seated
<1>2. ASSUME NEW t \in Threads, Decode(t) PROVE Seated'
  <2>0. batch' = batch
    BY <1>2, DecodeFrame
  <2>1. thread' \in [Threads -> Seat] /\ Others(t)
    BY <1>2, Shapes
  <2>2. taken \in 0..Len(batch) /\ Len(batch) \in Nat /\ DOMAIN future = 1..Len(batch)
    BY DEF BatchKinds
  <2>3. CASE Taken(t)
    BY <2>0, <2>1, <2>2, <2>3 DEF Placed, Seated, Taken, Others
  <2>4. ASSUME NEW r \in {"ok", "none", "raised"}, Ended(t, r) PROVE Seated'
    <3>1. thread[t].packet \in 1..taken /\ \A u \in Threads \ {t} :
            thread[u].at # "idle" => thread[u].packet # thread[t].packet
      BY <2>4 DEF Placed, Seated, Ended
    <3>2. \A i \in 1..Len(batch) : i # thread[t].packet => future'[i] = future[i]
      BY <2>2, <2>4 DEF Ended
    <3>3. taken' = taken /\ thread'[t].at = "idle"
      BY <2>4 DEF Ended
    <3> QED
      BY <2>0, <2>1, <2>2, <3>1, <3>2, <3>3 DEF Placed, Seated, Others
  <2>5. CASE Stayed(t)
    BY <2>0, <2>1, <2>2, <2>5 DEF Placed, Seated, Stayed, Others
  <2> QED
    BY <1>2, <2>3, <2>4, <2>5, Shapes
<1> QED
  BY <1>1, <1>2 DEF BatchStep, batchVars, Collect, Finish, Fail, Send

(* and its values are gone through one by one. *)
LEMMA NextInside ==
  BatchKinds /\ Placed /\ (BatchStep \/ UNCHANGED batchVars) => (\A u \in Threads : Inside(u))'
<1> SUFFICES ASSUME BatchKinds, Placed, BatchStep \/ UNCHANGED batchVars
             PROVE  (\A u \in Threads : Inside(u))'
  OBVIOUS
<1>1. CASE Collect
  BY <1>1 DEF Collect, Placed, Inside, PacketOf
<1>2. CASE Finish
  BY <1>2 DEF Finish, Placed, Inside, PacketOf
<1>3. CASE Fail
  BY <1>3 DEF Fail, Placed, Inside, PacketOf
<1>4. CASE Send
  BY <1>4 DEF Send, Placed, Inside, PacketOf
<1>5. CASE UNCHANGED batchVars
  BY <1>5 DEF batchVars, Placed, Inside, PacketOf
<1>6. ASSUME NEW t \in Threads, Decode(t) PROVE (\A u \in Threads : Inside(u))'
  <2>0. UNCHANGED <<batch, main, collected, report>>
    BY <1>6, DecodeFrame
  <2> SUFFICES Inside(t)'
    <3>1. Others(t)
      BY <1>6, Shapes
    <3> QED
      BY <2>0, <3>1 DEF Placed, Inside, PacketOf, Others
  <2>w. Inside(t)
    BY DEF Placed
  <2>l. thread[t].at # "idle" => Len(batch[thread[t].packet].channels) \in Nat
    <3>1. thread[t].at # "idle" => thread[t].packet \in 1..Len(batch)
      BY DEF Placed, Seated, BatchKinds
    <3> QED
      BY <3>1 DEF BatchKinds, Packet
  <2>1. CASE Take(t)
    BY <2>0, <2>w, <2>1, TakeEffect DEF Inside, PacketOf, OnValue, Taken, Ended, Stayed, Same
  <2>2. CASE Science(t)
    BY <2>0, <2>w, <2>2, ScienceEffect DEF Inside, PacketOf, OnValue, Taken, Ended, Stayed, Same
  <2>3. CASE Check(t)
    <3>1. /\ thread[t].at = "check"
          /\ \/ thread'[t].at = "idle"
             \/ thread'[t].at = "next" /\ Same(t) /\ Stayed(t) /\ PacketOf(t).kind = "hk"
      BY <2>3, CheckEffect DEF Ended
    <3>2. CASE thread'[t].at = "idle"
      BY <3>2 DEF Inside, OnValue
    <3>3. thread'[t].at = "idle" \/ thread'[t].value = 0
      BY <2>w, <3>1 DEF Inside, Same
    <3>4. Len(PacketOf(t).channels) \in Nat
      BY <2>l, <3>1 DEF PacketOf
    <3>5. CASE thread'[t].at # "idle"
      <4>1. batch'[thread'[t].packet] = PacketOf(t)
        BY <2>0, <3>1, <3>5 DEF Stayed, PacketOf
      <4>2. PacketOf(t)' = PacketOf(t)
        BY <4>1 DEF PacketOf
      <4>3. thread'[t].at \in {"next", "look"} /\ PacketOf(t)'.kind = "hk"
        BY <3>1, <3>3, <3>5, <4>2
      <4>4. thread'[t].value \in 0..Len(PacketOf(t)'.channels)
        BY <3>1, <3>3, <3>4, <3>5, <4>2
      <4>5. thread'[t].at \in OnValue => thread'[t].value >= 1
        BY <3>1, <3>3, <3>4, <3>5 DEF OnValue
      <4> QED
        BY <4>3, <4>4, <4>5 DEF Inside, OnValue
    <3> QED
      BY <3>2, <3>5
  <2>4. CASE NextValue(t)
    <3>1. /\ thread[t].at = "next"
          /\ \/ thread'[t].at = "idle"
             \/ /\ thread'[t].at = "look" /\ thread'[t].value = thread[t].value + 1 /\ Stayed(t)
                /\ thread[t].value # Len(PacketOf(t).channels)
      BY <2>4, NextValueEffect DEF Ended
    <3>2. CASE thread'[t].at = "idle"
      BY <3>2 DEF Inside, OnValue
    <3>3. PacketOf(t).kind = "hk" /\ thread[t].value \in 0..Len(PacketOf(t).channels)
      BY <2>w, <3>1 DEF Inside
    <3>4. Len(PacketOf(t).channels) \in Nat
      BY <2>l, <3>1 DEF PacketOf
    <3>5. CASE thread'[t].at # "idle"
      <4>1. batch'[thread'[t].packet] = PacketOf(t)
        BY <2>0, <3>1, <3>5 DEF Stayed, PacketOf
      <4>2. PacketOf(t)' = PacketOf(t)
        BY <4>1 DEF PacketOf
      <4>3. thread'[t].at \in {"next", "look"} /\ PacketOf(t)'.kind = "hk"
        BY <3>1, <3>3, <3>5, <4>2
      <4>4. thread'[t].value \in 0..Len(PacketOf(t)'.channels)
        BY <3>1, <3>3, <3>4, <3>5, <4>2
      <4>5. thread'[t].value >= 1
        <5>1. thread[t].value \in Nat /\ thread'[t].value = thread[t].value + 1
          BY <3>1, <3>3, <3>4, <3>5
        <5> QED
          BY <5>1
      <4> QED
        BY <4>3, <4>4, <4>5 DEF Inside, OnValue
    <3> QED
      BY <3>2, <3>5
  <2>5. CASE Look(t)
    BY <2>0, <2>w, <2>5, LookEffect DEF Inside, PacketOf, OnValue, Taken, Ended, Stayed, Same
  <2>6. CASE MakeHistory(t)
    BY <2>0, <2>w, <2>6, MakeHistoryEffect DEF Inside, PacketOf, OnValue, Taken, Ended, Stayed, Same
  <2>7. CASE Length(t)
    BY <2>0, <2>w, <2>7, LengthEffect DEF Inside, PacketOf, OnValue, Taken, Ended, Stayed, Same
  <2>8. CASE Statistics(t, "mean", "mean done")
    BY <2>0, <2>w, <2>8, StatisticsEffect DEF Inside, PacketOf, OnValue, Taken, Ended, Stayed, Same
  <2>9. CASE StartStdev(t)
    BY <2>0, <2>w, <2>9, StartStdevEffect DEF Inside, PacketOf, OnValue, Taken, Ended, Stayed, Same
  <2>10. CASE Statistics(t, "stdev", "append")
    BY <2>0, <2>w, <2>10, StatisticsEffect DEF Inside, PacketOf, OnValue, Taken, Ended, Stayed, Same
  <2>11. CASE AppendValue(t)
    BY <2>0, <2>w, <2>11, AppendEffect DEF Inside, PacketOf, OnValue, Taken, Ended, Stayed, Same
  <2>12. CASE CountRead(t)
    BY <2>0, <2>w, <2>12, CountReadEffect DEF Inside, PacketOf, OnValue, Taken, Ended, Stayed, Same
  <2>13. CASE CountWrite(t)
    BY <2>0, <2>w, <2>13, CountWriteEffect DEF Inside, PacketOf, OnValue, Taken, Ended, Stayed, Same
  <2> QED
    BY <1>6, <2>1, <2>2, <2>3, <2>4, <2>5, <2>6, <2>7, <2>8, <2>9, <2>10, <2>11, <2>12, <2>13
    DEF Decode
<1> QED
  BY <1>1, <1>2, <1>3, <1>4, <1>5, <1>6 DEF BatchStep

(* A sequence made of a set has each of its elements, once. *)
LEMMA SetToSeqsWhole ==
  ASSUME NEW S, IsFiniteSet(S), NEW s \in SetToSeqs(S)
  PROVE  ToSet(s) = S /\ IsInjective(s)
<1> DEFINE D == 1..Cardinality(S)
<1>1. Cardinality(S) \in Nat
  BY FS_CardinalityType
<1>2. s \in [D -> S] /\ \A i, j \in D : i # j => s[i] # s[j]
  BY DEF SetToSeqs
<1>3. s \in Injection(D, S) /\ IsInjective(s)
  BY <1>2 DEF Injection, IsInjective
<1>4. IsFiniteSet(D) /\ Cardinality(D) = Cardinality(S)
  BY <1>1, FS_Interval
<1> HIDE DEF D
<1>5. s \in Surjection(D, S)
  BY <1>3, <1>4, FS_Injection
<1> QED
  BY <1>2, <1>3, <1>5 DEF ToSet, Surjection

(* It is a sequence of them. *)
LEMMA SetToSeqsSeq ==
  ASSUME NEW S, IsFiniteSet(S), NEW s \in SetToSeqs(S)
  PROVE  s \in Seq(S)
<1>1. ASSUME NEW n \in Nat, NEW f \in [1..n -> S]
      PROVE  f \in Seq(S)
  OBVIOUS
<1>2. Cardinality(S) \in Nat
  BY FS_CardinalityType
<1>3. s \in [1..Cardinality(S) -> S]
  BY DEF SetToSeqs
<1> QED
  BY <1>1, <1>2, <1>3

(* A packet ends as what it is, *)
LEMMA NextDecided ==
  BatchKinds /\ Placed /\ Decided /\ (BatchStep \/ UNCHANGED batchVars) => Decided'
<1> SUFFICES ASSUME BatchKinds, Placed, Decided, BatchStep \/ UNCHANGED batchVars PROVE Decided'
  OBVIOUS
<1>1. CASE Collect
  <2>1. PICK i \in 1..Len(batch) \ collected :
          /\ future[i] # "pending" /\ collected' = collected \union {i}
          /\ main' = IF future[i] = "raised" THEN "raise" ELSE main
    BY <1>1 DEF Collect
  <2>2. main = "collect" /\ UNCHANGED <<batch, future>>
    BY <1>1 DEF Collect
  <2> QED
    BY <2>1, <2>2 DEF Decided
<1>2. CASE Finish
  BY <1>2 DEF Finish, Decided
<1>3. CASE Fail
  BY <1>3 DEF Fail, Decided
<1>4. CASE Send
  BY <1>4 DEF Send, Decided
<1>5. CASE UNCHANGED batchVars
  BY <1>5 DEF batchVars, Decided
<1>6. ASSUME NEW t \in Threads, Decode(t) PROVE Decided'
  <2>0. UNCHANGED <<batch, main, collected>>
    BY <1>6, DecodeFrame
  <2>1. CASE UNCHANGED future
    BY <2>0, <2>1 DEF Decided
  <2>2. ASSUME NEW r \in {"ok", "none", "raised"}, Ended(t, r),
               r = "ok" => PacketOf(t).kind = "hk", r = "none" => PacketOf(t).kind # "hk"
        PROVE  Decided'
    <3> DEFINE p == thread[t].packet
    <3>1. thread[t].at # "idle"
      BY <2>2 DEF Ended
    <3>2. future[p] = "pending" /\ p \in 1..Len(batch)
      BY <3>1 DEF Placed, Seated, BatchKinds
    <3>3. future' = [future EXCEPT ![p] = r] /\ DOMAIN future = 1..Len(batch)
      BY <2>2 DEF Ended, BatchKinds
    <3>4. p \notin collected /\ collected \subseteq 1..Len(batch)
      BY <3>2 DEF Decided, BatchKinds
    <3>5. (r = "ok" => batch[p].kind = "hk") /\ (r = "none" => batch[p].kind # "hk")
      BY <2>2 DEF PacketOf
    <3> HIDE DEF p
    <3>6. future'[p] = r /\ \A i \in 1..Len(batch) : i # p => future'[i] = future[i]
      BY <3>2, <3>3
    <3>7. \A i \in collected : future'[i] = future[i]
      BY <3>4, <3>6
    <3> QED
      BY <2>0, <3>5, <3>6, <3>7 DEF Decided
  <2>3. CASE Take(t)
    BY <2>1, <2>3 DEF Take
  <2>4. CASE Science(t)
    BY <2>2, <2>4, ScienceEffect
  <2>5. CASE Check(t)
    BY <2>1, <2>2, <2>5, CheckEffect DEF Stayed
  <2>6. CASE NextValue(t)
    <3>1. Inside(t) /\ thread[t].at = "next"
      BY <2>6 DEF Placed, NextValue
    <3>2. PacketOf(t).kind = "hk"
      BY <3>1 DEF Inside
    <3> QED
      BY <2>1, <2>2, <2>6, <3>2, NextValueEffect DEF Stayed
  <2>7. CASE Look(t)
    BY <2>1, <2>7 DEF Look
  <2>8. CASE MakeHistory(t)
    BY <2>1, <2>8 DEF MakeHistory
  <2>9. CASE Length(t)
    BY <2>1, <2>9 DEF Length
  <2>10. CASE Statistics(t, "mean", "mean done")
    BY <2>1, <2>2, <2>10, StatisticsEffect DEF Stayed, OnValue
  <2>11. CASE StartStdev(t)
    BY <2>1, <2>11 DEF StartStdev
  <2>12. CASE Statistics(t, "stdev", "append")
    BY <2>1, <2>2, <2>12, StatisticsEffect DEF Stayed, OnValue
  <2>13. CASE AppendValue(t)
    BY <2>1, <2>13 DEF AppendValue
  <2>14. CASE CountRead(t)
    BY <2>1, <2>14 DEF CountRead
  <2>15. CASE CountWrite(t)
    BY <2>1, <2>15 DEF CountWrite
  <2> QED
    BY <1>6, <2>3, <2>4, <2>5, <2>6, <2>7, <2>8, <2>9, <2>10, <2>11, <2>12, <2>13, <2>14, <2>15
    DEF Decode
<1> QED
  BY <1>1, <1>2, <1>3, <1>4, <1>5, <1>6 DEF BatchStep

(* and what is reported is all that could be decoded. *)
LEMMA NextReportWhole ==
  BatchKinds /\ Decided /\ ReportWhole /\ (BatchStep \/ UNCHANGED batchVars) => ReportWhole'
<1> SUFFICES ASSUME BatchKinds, Decided, ReportWhole, BatchStep \/ UNCHANGED batchVars
             PROVE  ReportWhole'
  OBVIOUS
<1>1. CASE UNCHANGED batchVars
  BY <1>1 DEF batchVars, ReportWhole, ByTime
<1>2. CASE Collect
  <2>1. main' \in {"collect", "raise"}
    BY <1>2 DEF Collect
  <2> QED
    BY <2>1 DEF ReportWhole
<1>3. CASE Finish
  <2> DEFINE S == {i \in collected : future[i] = "ok"}
  <2>1. PICK s \in SetToSeqs(S) : ByTime(s) /\ report' = s
    BY <1>3 DEF Finish
  <2>2. S = {i \in 1..Len(batch) : batch[i].kind = "hk"}
    <3>1. main = "collect" /\ collected = 1..Len(batch)
      BY <1>3 DEF Finish
    <3>2. \A i \in 1..Len(batch) : future[i] \in {"ok", "none"}
      BY <3>1 DEF Decided, BatchKinds
    <3> QED
      BY <3>1, <3>2 DEF Decided
  <2>3. IsFiniteSet(S)
    <3>1. Len(batch) \in Nat
      BY DEF BatchKinds
    <3>2. IsFiniteSet(1..Len(batch)) /\ S \subseteq 1..Len(batch)
      BY <2>2, <3>1, FS_Interval
    <3> QED
      BY <3>2, FS_Subset
  <2>4. ToSet(s) = S /\ IsInjective(s)
    BY <2>1, <2>3, SetToSeqsWhole
  <2>5. batch' = batch
    BY <1>3 DEF Finish
  <2> HIDE DEF S
  <2> QED
    BY <2>1, <2>2, <2>4, <2>5 DEF ReportWhole, ByTime
<1>4. CASE Fail
  BY <1>4 DEF Fail, ReportWhole
<1>5. CASE Send
  BY <1>5 DEF Send, ReportWhole, ByTime
<1>6. ASSUME NEW t \in Threads, Decode(t) PROVE ReportWhole'
  BY <1>6, DecodeFrame DEF ReportWhole, ByTime
<1> QED
  BY <1>1, <1>2, <1>3, <1>4, <1>5, <1>6 DEF BatchStep

(* The deques only grow, *)
LEMMA Growth ==
  ASSUME BatchKinds, Placed, NEW t \in Threads, Decode(t), NEW c \in Channel, NEW d \in Threads
  PROVE  /\ appends[c][d] \in Nat /\ appends'[c][d] \in Nat /\ appends'[c][d] >= appends[c][d]
         /\ appends'[c][d] # appends[c][d] =>
              thread[t].at = "append" /\ c = channel(t) /\ d = thread[t].deque
<1>0. appends[c][d] \in Nat
  BY DEF BatchKinds
<1>1. CASE AppendValue(t)
  BY <1>0, <1>1, AppendEffect
<1>2. CASE ~AppendValue(t)
  <2>1. UNCHANGED appends
    BY <1>2, Zenon
    DEF Decode, Take, Science, Check, NextValue, Look, MakeHistory, Length, Statistics, StartStdev,
        CountRead, CountWrite
  <2> QED
    BY <1>0, <2>1
<1> QED
  BY <1>1, <1>2

(* and a thread that stays with its value keeps its channel. *)
LEMMA Kept ==
  ASSUME batch' = batch, NEW u,
         thread'[u].packet = thread[u].packet, thread'[u].value = thread[u].value
  PROVE  channel(u)' = channel(u)
BY DEF channel, PacketOf

LEMMA KeptLength ==
  ASSUME batch' = batch, NEW u,
         thread'[u].packet = thread[u].packet, thread'[u].value = thread[u].value,
         thread'[u].deque = thread[u].deque, appends' = appends
  PROVE  length(u)' = length(u) /\ channel(u)' = channel(u)
BY DEF channel, PacketOf, length

LEMMA AtLeast ==
  ASSUME NEW a \in Nat, NEW b \in Nat, NEW c \in Nat, a >= b, b >= c
  PROVE  a >= c /\ c <= a
OBVIOUS

(* A deque that a thread goes through grows by other packets only, *)
LEMMA NextDisturbed ==
  BatchKinds /\ Placed /\ Disturbed /\ (BatchStep \/ UNCHANGED batchVars) => Disturbed'
<1> SUFFICES ASSUME BatchKinds, Placed, Disturbed, BatchStep \/ UNCHANGED batchVars PROVE Disturbed'
  OBVIOUS
<1>1. CASE UNCHANGED <<batch, thread, appends>>
  BY <1>1 DEF Disturbed, Undisturbed, Shared, length, channel, PacketOf
<1>2. ASSUME NEW t \in Threads, Decode(t), NEW u \in Threads, u # t PROVE Undisturbed(u)'
  <2> SUFFICES ASSUME thread[u].at \in {"mean", "mean done", "stdev"} PROVE Undisturbed(u)'
    <3>1. thread'[u] = thread[u]
      BY <1>2, Shapes DEF Others
    <3> QED
      BY <3>1 DEF Undisturbed
  <2>1. thread'[u] = thread[u] /\ batch' = batch
    BY <1>2, Shapes, DecodeFrame DEF Others
  <2>2. thread[u].at \in OnValue /\ thread[u].deque \in Threads
    BY DEF Placed, Inside, OnValue
  <2>3. channel(u) \in Channel
    BY <2>2, AtValue
  <2>4. channel(u)' = channel(u)
    BY <2>1, Kept
  <2>5. length(u) = appends[channel(u)][thread[u].deque]
          /\ length(u)' = appends'[channel(u)][thread[u].deque]
    BY <2>1, <2>4 DEF length
  <2>6. /\ length(u) \in Nat /\ length(u)' \in Nat /\ length(u)' >= length(u)
        /\ length(u)' # length(u) => thread[t].at = "append" /\ channel(u) = channel(t)
    BY <1>2, <2>2, <2>3, <2>5, Growth
  <2>7. length(u)' # length(u) => Shared(channel(u), thread[u].packet)
    <3> SUFFICES ASSUME thread[t].at = "append", channel(u) = channel(t)
                 PROVE  Shared(channel(u), thread[u].packet)
      BY <2>6
    <3>1. /\ thread[t].packet \in 1..Len(batch) /\ PacketOf(t).kind = "hk"
          /\ channel(t) \in ToSet(PacketOf(t).channels)
      BY AtValue DEF OnValue
    <3>2. thread[t].packet # thread[u].packet
      BY <1>2, <2>2 DEF Placed, Seated, OnValue
    <3> QED
      BY <3>1, <3>2 DEF Shared, PacketOf
  <2>8. Shared(channel(u), thread[u].packet)' <=> Shared(channel(u), thread[u].packet)
    BY <2>1, <2>4 DEF Shared
  <2>9. Undisturbed(u)
    BY DEF Disturbed
  <2>10. thread[u].read \in Nat /\ Enough \in Nat
    BY TelemetryAssumption DEF BatchKinds, Seat
  <2> HIDE DEF Shared
  <2>11. length(u)' >= Enough
    <3>1. length(u) >= Enough
      BY <2>9 DEF Undisturbed
    <3> QED
      BY <2>6, <2>10, <3>1, AtLeast
  <2>12. ASSUME thread[u].at \in {"mean", "stdev"}
         PROVE  /\ Enough <= thread[u].read /\ thread[u].read <= length(u)'
                /\ thread[u].read # length(u)' => Shared(channel(u), thread[u].packet)'
    <3>1. /\ Enough <= thread[u].read /\ thread[u].read <= length(u)
          /\ thread[u].read # length(u) => Shared(channel(u), thread[u].packet)
      BY <2>9, <2>12 DEF Undisturbed
    <3>2. thread[u].read # length(u)' => Shared(channel(u), thread[u].packet)
      BY <2>7, <3>1
    <3>3. thread[u].read <= length(u)'
      <4>1. length(u) >= thread[u].read
        BY <2>6, <2>10, <3>1
      <4> QED
        BY <2>6, <2>10, <4>1, AtLeast
    <3> QED
      BY <2>8, <3>1, <3>2, <3>3
  <2> QED
    BY <2>1, <2>11, <2>12 DEF Undisturbed
<1>3. ASSUME NEW t \in Threads, Decode(t) PROVE Undisturbed(t)'
  <2>0. batch' = batch
    BY <1>3, DecodeFrame
  <2>1. CASE thread'[t].at \notin {"mean", "mean done", "stdev"}
    BY <2>1 DEF Undisturbed
  <2>2. CASE Length(t)
    <3>1. CASE thread'[t].at = "append"
      BY <2>1, <3>1
    <3>2. CASE thread'[t].at = "mean"
      <4>1. length(t)' = length(t) /\ thread'[t].read = length(t) /\ length(t) >= Enough
        BY <2>0, <2>2, <3>2, LengthEffect, KeptLength DEF Stayed, Same
      <4>2. length(t) \in Nat /\ Enough \in Nat
        BY <2>2, LengthEffect, Lengths, TelemetryAssumption DEF OnValue
      <4>3. length(t)' >= Enough /\ thread'[t].read = length(t)' /\ Enough <= thread'[t].read
              /\ thread'[t].read <= length(t)'
        BY <4>1, <4>2
      <4> QED
        BY <4>3 DEF Undisturbed
    <3> QED
      BY <2>2, <3>1, <3>2, LengthEffect
  <2>3. CASE Statistics(t, "mean", "mean done")
    <3>1. CASE thread'[t].at = "idle"
      BY <2>1, <3>1
    <3>2. CASE thread'[t].at = "mean done"
      <4>1. length(t)' = length(t) /\ thread[t].at = "mean"
        BY <2>0, <2>3, <3>2, StatisticsEffect, KeptLength DEF Stayed, Same, OnValue, Ended
      <4>2. length(t) >= Enough
        BY <4>1 DEF Disturbed, Undisturbed
      <4> QED
        BY <3>2, <4>1, <4>2 DEF Undisturbed
    <3> QED
      BY <2>3, <3>1, <3>2, StatisticsEffect DEF OnValue, Ended
  <2>4. CASE StartStdev(t)
    <3>1. thread[t].at = "mean done" /\ thread'[t].at = "stdev" /\ thread[t].deque \in Threads
            /\ length(t)' = length(t) /\ thread'[t].read = length(t)
      BY <2>0, <2>4, StartStdevEffect, KeptLength DEF Stayed, Same
    <3>2. length(t) >= Enough
      BY <3>1 DEF Disturbed, Undisturbed
    <3>3. length(t) \in Nat /\ Enough \in Nat
      BY <3>1, Lengths, TelemetryAssumption DEF OnValue
    <3>4. length(t)' >= Enough /\ thread'[t].read = length(t)' /\ Enough <= thread'[t].read
            /\ thread'[t].read <= length(t)'
      <4>1. length(t)' = length(t) /\ thread'[t].read = length(t)
        BY <3>1
      <4>2. Enough <= length(t) /\ length(t) <= length(t)
        BY <3>2, <3>3
      <4> QED
        BY <3>2, <4>1, <4>2
    <3> QED
      BY <3>4 DEF Undisturbed
  <2>5. CASE Take(t)
    BY <2>1, <2>5, TakeEffect DEF Taken
  <2>6. CASE Science(t)
    BY <2>1, <2>6, ScienceEffect DEF Ended
  <2>7. CASE Check(t)
    BY <2>1, <2>7, CheckEffect DEF Ended
  <2>8. CASE NextValue(t)
    BY <2>1, <2>8, NextValueEffect DEF Ended
  <2>9. CASE Look(t)
    BY <2>1, <2>9, LookEffect
  <2>10. CASE MakeHistory(t)
    BY <2>1, <2>10, MakeHistoryEffect
  <2>11. CASE Statistics(t, "stdev", "append")
    BY <2>1, <2>11, StatisticsEffect DEF Ended, OnValue
  <2>12. CASE AppendValue(t)
    BY <2>1, <2>12, AppendEffect
  <2>13. CASE CountRead(t)
    BY <2>1, <2>13, CountReadEffect
  <2>14. CASE CountWrite(t)
    BY <2>1, <2>14, CountWriteEffect
  <2> QED
    BY <1>3, <2>2, <2>3, <2>4, <2>5, <2>6, <2>7, <2>8, <2>9, <2>10, <2>11, <2>12, <2>13, <2>14
    DEF Decode
<1>4. ASSUME NEW t \in Threads, Decode(t) PROVE Disturbed'
  BY <1>2, <1>3, <1>4 DEF Disturbed
<1> QED
  BY <1>1, <1>4 DEF BatchStep, batchVars, Collect, Finish, Fail, Send

(* What the exception of a packet may come from. *)
Excused(i) ==
  \/ batch[i].kind = "malformed"
  \/ \E c \in ToSet(batch[i].channels) : Shared(c, i) /\ \E t \in Threads : appends[c][t] > Enough

(* so that without one nothing is raised but by a malformed packet. *)
LEMMA NextRaisesOnlyShared ==
  BatchKinds /\ Placed /\ Disturbed /\ RaisesOnlyShared /\ (BatchStep \/ UNCHANGED batchVars)
    => RaisesOnlyShared'
<1> SUFFICES ASSUME BatchKinds, Placed, Disturbed, RaisesOnlyShared,
                    BatchStep \/ UNCHANGED batchVars
             PROVE  RaisesOnlyShared'
  OBVIOUS
<1>0. \A i \in 1..Len(batch) : future[i] = "raised" => Excused(i)
  BY DEF RaisesOnlyShared, Excused
<1>1. CASE UNCHANGED <<batch, future, appends>>
  BY <1>1 DEF RaisesOnlyShared, Shared
<1>2. ASSUME NEW t \in Threads, Decode(t) PROVE RaisesOnlyShared'
  <2>0. batch' = batch
    BY <1>2, DecodeFrame
  <2>1. ASSUME NEW i \in 1..Len(batch), Excused(i) PROVE Excused(i)'
    <3>1. CASE batch[i].kind = "malformed"
      BY <2>0, <3>1 DEF Excused
    <3>2. ASSUME NEW c \in ToSet(batch[i].channels), Shared(c, i),
                 NEW d \in Threads, appends[c][d] > Enough
          PROVE  Excused(i)'
      <4>1. c \in Channel
        <5>1. batch[i] \in Packet
          BY DEF BatchKinds
        <5>2. batch[i].channels \in Seq(Channel)
          BY <5>1 DEF Packet
        <5> QED
          BY <5>2, <3>2 DEF ToSet
      <4>2. appends'[c][d] > Enough
        BY <1>2, <3>2, <4>1, Growth, TelemetryAssumption
      <4>3. Shared(c, i)'
        BY <2>0, <3>2 DEF Shared
      <4> QED
        BY <2>0, <4>2, <4>3 DEF Excused
    <3> QED
      BY <2>1, <3>1, <3>2 DEF Excused
  <2>2. ASSUME UNCHANGED future PROVE RaisesOnlyShared'
    BY <1>0, <2>0, <2>1, <2>2 DEF RaisesOnlyShared, Excused
  <2>3. ASSUME NEW r \in {"ok", "none", "raised"}, Ended(t, r),
               r = "raised" => Excused(thread[t].packet)
        PROVE  RaisesOnlyShared'
    <3>1. thread[t].at # "idle" /\ future' = [future EXCEPT ![thread[t].packet] = r]
      BY <2>3 DEF Ended
    <3>2. PICK p \in 1..Len(batch) : p = thread[t].packet
      BY <3>1 DEF Placed, Seated, BatchKinds
    <3>3. r = "raised" => Excused(p)'
      BY <2>1, <2>3, <3>2
    <3>d. DOMAIN future = 1..Len(batch)
      BY DEF BatchKinds
    <3>4. \A i \in 1..Len(batch) : i # p => future'[i] = future[i]
      BY <3>1, <3>2, <3>d
    <3>5. future'[p] = r
      BY <3>1, <3>2, <3>d
    <3>6. \A i \in 1..Len(batch) : future'[i] = "raised" => Excused(i)'
      BY <1>0, <2>1, <3>3, <3>4, <3>5
    <3> QED
      BY <2>0, <3>6 DEF RaisesOnlyShared, Excused
  <2>4. ASSUME thread[t].at \in {"mean", "stdev"}, length(t) # thread[t].read
        PROVE  Excused(thread[t].packet)
    <3>1. thread[t].at \in OnValue /\ thread[t].deque \in Threads
      BY <2>4 DEF Placed, Inside, OnValue
    <3>2. channel(t) \in Channel /\ channel(t) \in ToSet(PacketOf(t).channels) /\ length(t) \in Nat
      BY <3>1, AtValue, Lengths
    <3>3. /\ Enough <= thread[t].read /\ thread[t].read <= length(t)
          /\ Shared(channel(t), thread[t].packet)
      BY <2>4 DEF Disturbed, Undisturbed
    <3>4. thread[t].read \in Nat /\ Enough \in Nat
      BY TelemetryAssumption DEF BatchKinds, Seat
    <3>5. length(t) > Enough
      BY <2>4, <3>2, <3>3, <3>4
    <3> QED
      BY <3>1, <3>2, <3>3, <3>5 DEF length, PacketOf, Excused
  <2>5. CASE Science(t)
    BY <2>3, <2>5, ScienceEffect
  <2>6. CASE Check(t)
    <3>1. PacketOf(t).kind = "malformed" => Excused(thread[t].packet)
      BY DEF PacketOf, Excused
    <3> QED
      BY <2>2, <2>3, <2>6, <3>1, CheckEffect DEF Stayed
  <2>7. CASE NextValue(t)
    BY <2>2, <2>3, <2>7, NextValueEffect DEF Stayed
  <2>8. CASE Statistics(t, "mean", "mean done")
    <3> QED
      BY <2>2, <2>3, <2>4, <2>8, StatisticsEffect DEF Stayed, OnValue
  <2>9. CASE Statistics(t, "stdev", "append")
    <3> QED
      BY <2>2, <2>3, <2>4, <2>9, StatisticsEffect DEF Stayed, OnValue
  <2>10. CASE UNCHANGED future
    BY <2>2, <2>10
  <2>11. Science(t) \/ Check(t) \/ NextValue(t) \/ Statistics(t, "mean", "mean done")
           \/ Statistics(t, "stdev", "append") \/ UNCHANGED future
    BY <1>2, Zenon DEF Decode, Take, Look, MakeHistory, Length, StartStdev, AppendValue, CountRead,
         CountWrite
  <2> QED
    BY <2>5, <2>6, <2>7, <2>8, <2>9, <2>10, <2>11
<1> QED
  BY <1>1, <1>2 DEF BatchStep, batchVars, Collect, Finish, Fail, Send

(* Of a channel that is not shared, one thread at most is at a value. *)
LEMMA Alone ==
  ASSUME BatchKinds, Placed, NEW c, Unshared(c), NEW t \in Threads, NEW u \in Threads,
         thread[t].at \in OnValue, thread[u].at \in OnValue, channel(t) = c, channel(u) = c
  PROVE  t = u
<1>1. /\ thread[t].packet \in 1..Len(batch) /\ PacketOf(t).kind = "hk"
      /\ channel(t) \in ToSet(PacketOf(t).channels)
  BY AtValue
<1>2. /\ thread[u].packet \in 1..Len(batch) /\ PacketOf(u).kind = "hk"
      /\ channel(u) \in ToSet(PacketOf(u).channels)
  BY AtValue
<1>3. ~Shared(c, thread[t].packet)
  BY <1>1 DEF Unshared, PacketOf
<1>4. thread[u].packet = thread[t].packet
  BY <1>2, <1>3 DEF Shared, PacketOf
<1> QED
  BY <1>4 DEF Placed, Seated, OnValue

(* A thread counts from its reading of the counter to its writing. *)
LEMMA CountingFrame ==
  ASSUME BatchKinds, Placed, NEW t \in Threads, Decode(t), NEW u \in Threads, u # t, NEW c
  PROVE  (Counting(u, c)' <=> Counting(u, c)) /\ thread'[u].read = thread[u].read
<1>1. thread'[u] = thread[u] /\ batch' = batch
  BY Shapes, DecodeFrame DEF Others
<1>2. channel(u)' = channel(u)
  BY <1>1, Kept
<1> QED
  BY <1>1, <1>2 DEF Counting

LEMMA NotCounting ==
  ASSUME BatchKinds, Placed, NEW t \in Threads, Decode(t), ~CountRead(t), ~CountWrite(t)
  PROVE  thread[t].at # "write" /\ thread'[t].at # "write" /\ UNCHANGED <<counter, found>>
<1>1. CASE Take(t)
  BY <1>1, TakeEffect DEF Taken, Ended, Stayed, OnValue
<1>2. CASE Science(t)
  BY <1>2, ScienceEffect DEF Taken, Ended, Stayed, OnValue
<1>3. CASE Check(t)
  BY <1>3, CheckEffect DEF Taken, Ended, Stayed, OnValue
<1>4. CASE NextValue(t)
  BY <1>4, NextValueEffect DEF Taken, Ended, Stayed, OnValue
<1>5. CASE Look(t)
  BY <1>5, LookEffect DEF Taken, Ended, Stayed, OnValue
<1>6. CASE MakeHistory(t)
  BY <1>6, MakeHistoryEffect DEF Taken, Ended, Stayed, OnValue
<1>7. CASE Length(t)
  BY <1>7, LengthEffect DEF Taken, Ended, Stayed, OnValue
<1>8. CASE Statistics(t, "mean", "mean done")
  BY <1>8, StatisticsEffect DEF Taken, Ended, Stayed, OnValue
<1>9. CASE StartStdev(t)
  BY <1>9, StartStdevEffect DEF Taken, Ended, Stayed, OnValue
<1>10. CASE Statistics(t, "stdev", "append")
  BY <1>10, StatisticsEffect DEF Taken, Ended, Stayed, OnValue
<1>11. CASE AppendValue(t)
  BY <1>11, AppendEffect DEF Taken, Ended, Stayed, OnValue
<1> QED
  BY <1>1, <1>2, <1>3, <1>4, <1>5, <1>6, <1>7, <1>8, <1>9, <1>10, <1>11 DEF Decode

(* Each anomaly is counted once, or lost to another packet's. *)
LEMMA NextTallied ==
  BatchKinds /\ Placed /\ Tallied /\ (BatchStep \/ UNCHANGED batchVars) => Tallied'
<1> SUFFICES ASSUME BatchKinds, Placed, Tallied, BatchStep \/ UNCHANGED batchVars PROVE Tallied'
  OBVIOUS
<1>0. ASSUME batch' = batch, NEW c PROVE Unshared(c)' <=> Unshared(c)
  BY <1>0 DEF Unshared, Shared
<1>1. CASE UNCHANGED <<batch, thread, counter, found>>
  <2>1. \A t, c : Counting(t, c)' <=> Counting(t, c)
    BY <1>1 DEF Counting, channel, PacketOf
  <2> QED
    BY <1>0, <1>1, <2>1 DEF Tallied, Tally
<1>2. ASSUME NEW t \in Threads, Decode(t), NEW c \in Channel PROVE Tally(c)'
  <2>0. batch' = batch /\ (Unshared(c)' <=> Unshared(c))
    BY <1>0, <1>2, DecodeFrame
  <2>1. \A u \in Threads \ {t} :
          (Counting(u, c)' <=> Counting(u, c)) /\ thread'[u].read = thread[u].read
    BY <1>2, CountingFrame
  <2>2. Tally(c) /\ counter[c] \in Nat /\ found[c] \in Nat
          /\ \A u \in Threads : thread[u].read \in Nat
    BY DEF Tallied, BatchKinds, Seat
  <2>3. ASSUME Counting(t, c)' <=> Counting(t, c),
               Counting(t, c) => thread'[t].read = thread[t].read,
               counter'[c] = counter[c], found'[c] = found[c]
        PROVE  Tally(c)'
    <3>1. \A u \in Threads : Counting(u, c)' <=> Counting(u, c)
      BY <2>1, <2>3
    <3>2. \A u \in Threads : Counting(u, c) => thread'[u].read = thread[u].read
      BY <2>1, <2>3
    <3> QED
      BY <2>0, <2>2, <2>3, <3>1, <3>2 DEF Tally
  <2>4. CASE ~CountRead(t) /\ ~CountWrite(t)
    <3>1. thread[t].at # "write" /\ thread'[t].at # "write" /\ UNCHANGED <<counter, found>>
      BY <1>2, <2>4, NotCounting
    <3>2. ~Counting(t, c) /\ ~Counting(t, c)'
      BY <3>1 DEF Counting
    <3> QED
      BY <2>3, <3>1, <3>2
  <2>5. CASE CountRead(t)
    <3>1. /\ thread[t].at = "count" /\ thread'[t].at = "write"
          /\ thread'[t].read = counter[channel(t)]
          /\ channel(t) \in Channel /\ found' = [found EXCEPT ![channel(t)] = @ + 1]
          /\ counter' = counter /\ Stayed(t) /\ Same(t)
      BY <2>5, CountReadEffect
    <3>2. channel(t)' = channel(t)
      BY <2>0, <3>1, Kept DEF Stayed, Same
    <3>3. ~Counting(t, c)
      BY <3>1 DEF Counting
    <3>4. CASE c # channel(t)
      <4>1. ~Counting(t, c)'
        BY <3>2, <3>4 DEF Counting
      <4>2. found'[c] = found[c]
        BY <3>1, <3>4 DEF BatchKinds
      <4> QED
        BY <2>3, <3>1, <3>3, <4>1, <4>2
    <3>5. CASE c = channel(t)
      <4>1. Counting(t, c)' /\ thread'[t].read = counter[c] /\ counter'[c] = counter[c]
        BY <3>1, <3>2, <3>5 DEF Counting
      <4>2. found'[c] = found[c] + 1
        BY <3>1, <3>5 DEF BatchKinds
      <4>3. counter[c] <= found[c]
        BY <2>2 DEF Tally
      <4>4. \A u \in Threads : Counting(u, c)' => thread'[u].read < found'[c]
        BY <2>1, <2>2, <4>1, <4>2, <4>3 DEF Tally
      <4>5. Unshared(c) => \A u \in Threads : ~Counting(u, c)
        <5> SUFFICES ASSUME Unshared(c), NEW u \in Threads, Counting(u, c) PROVE FALSE
          OBVIOUS
        <5>1. /\ thread[u].at \in OnValue /\ thread[t].at \in OnValue /\ channel(u) = c
              /\ thread[u].at = "write"
          BY <3>1 DEF Counting, OnValue
        <5>2. u = t
          BY <3>5, <5>1, Alone
        <5> QED
          BY <3>3, <5>2
      <4>6. Unshared(c) => counter[c] = found[c]
        BY <2>2, <4>5 DEF Tally
      <4>7. Unshared(c) => \A u \in Threads : Counting(u, c)' => u = t
        BY <2>1, <4>5
      <4>8. Unshared(c)' =>
              /\ \A u \in Threads :
                   Counting(u, c)' => thread'[u].read = counter'[c] /\ found'[c] = counter'[c] + 1
              /\ (\A u \in Threads : ~Counting(u, c)') => counter'[c] = found'[c]
        BY <2>0, <2>2, <4>1, <4>2, <4>6, <4>7
      <4>9. counter'[c] <= found'[c]
        BY <2>2, <4>1, <4>2, <4>3
      <4>10. \E u \in Threads : Counting(u, c)'
        BY <4>1
      <4> QED
        BY <4>4, <4>8, <4>9, <4>10 DEF Tally
    <3> QED
      BY <3>4, <3>5
  <2>6. CASE CountWrite(t)
    <3>1. /\ thread[t].at = "write" /\ thread'[t].at = "next" /\ thread[t].read \in Nat
          /\ channel(t) \in Channel
          /\ counter' = [counter EXCEPT ![channel(t)] = thread[t].read + 1]
          /\ found' = found
      BY <2>6, CountWriteEffect
    <3>2. ~Counting(t, c)'
      BY <3>1 DEF Counting
    <3>3. CASE c # channel(t)
      <4>1. ~Counting(t, c)
        BY <3>3 DEF Counting
      <4>2. counter'[c] = counter[c]
        BY <3>1, <3>3 DEF BatchKinds
      <4> QED
        BY <2>3, <3>1, <3>2, <4>1, <4>2
    <3>4. CASE c = channel(t)
      <4>1. Counting(t, c)
        BY <3>1, <3>4 DEF Counting
      <4>2. counter'[c] = thread[t].read + 1 /\ found'[c] = found[c]
        BY <3>1, <3>4 DEF BatchKinds
      <4>3. thread[t].read < found[c]
        BY <2>2, <4>1 DEF Tally
      <4>4. counter'[c] <= found'[c] /\ counter'[c] > 0
        BY <2>2, <3>1, <4>2, <4>3
      <4>5. \A u \in Threads : Counting(u, c)' => thread'[u].read < found'[c]
        BY <2>1, <2>2, <3>2, <4>2 DEF Tally
      <4>6. Unshared(c) => \A u \in Threads : ~Counting(u, c)'
        <5> SUFFICES ASSUME Unshared(c), NEW u \in Threads, Counting(u, c)' PROVE FALSE
          OBVIOUS
        <5>1. u # t /\ Counting(u, c)
          BY <2>1, <3>2
        <5>2. thread[u].at \in OnValue /\ thread[t].at \in OnValue /\ channel(u) = c
          BY <3>1, <5>1 DEF Counting, OnValue
        <5>3. u = t
          BY <3>4, <5>2, Alone
        <5> QED
          BY <5>1, <5>3
      <4>7. Unshared(c) => counter'[c] = found'[c]
        BY <2>2, <4>1, <4>2 DEF Tally
      <4> QED
        BY <2>0, <4>4, <4>5, <4>6, <4>7 DEF Tally
    <3> QED
      BY <3>3, <3>4
  <2> QED
    BY <2>4, <2>5, <2>6
<1>3. ASSUME NEW t \in Threads, Decode(t) PROVE Tallied'
  BY <1>2, <1>3 DEF Tallied
<1> QED
  BY <1>1, <1>3 DEF BatchStep, batchVars, Collect, Finish, Fail, Send

(* The batch is described by its invariant, *)
LEMMA InitBatch == ASSUME NEW b \in Seq(Packet), BatchInit(b) PROVE BatchInv
<1>1. BatchKinds
  <2>1. Idle \in Seat
    BY DEF Idle, Seat
  <2>2. Len(b) \in Nat
    OBVIOUS
  <2> QED
    BY <2>1, <2>2 DEF BatchInit, BatchKinds
<1>2. \A t \in Threads : thread[t].at = "idle"
  BY DEF BatchInit, Idle
<1>3. Placed
  <2>1. Seated
    BY <1>2 DEF BatchInit, Seated
  <2>2. \A t \in Threads : Inside(t)
    BY <1>2 DEF Inside, OnValue
  <2> QED
    BY <2>1, <2>2 DEF Placed
<1>4. Decided /\ ReportWhole /\ RaisesOnlyShared
  BY DEF BatchInit, Decided, ReportWhole, RaisesOnlyShared
<1>5. Disturbed
  BY <1>2 DEF Disturbed, Undisturbed
<1>6. Tallied
  BY <1>2 DEF BatchInit, Tallied, Tally, Counting
<1> QED
  BY <1>1, <1>3, <1>4, <1>5, <1>6 DEF BatchInv

LEMMA NextBatch == BatchInv /\ (BatchStep \/ UNCHANGED batchVars) => BatchInv'
<1> SUFFICES ASSUME BatchInv, BatchStep \/ UNCHANGED batchVars PROVE BatchInv'
  OBVIOUS
<1>1. BatchKinds'
  BY NextBatchKinds DEF BatchInv
<1>2. Placed'
  BY NextSeated, NextInside DEF BatchInv, Placed
<1>3. Decided'
  BY NextDecided DEF BatchInv
<1>4. ReportWhole'
  BY NextReportWhole DEF BatchInv
<1>5. Disturbed'
  BY NextDisturbed DEF BatchInv
<1>6. RaisesOnlyShared'
  BY NextRaisesOnlyShared DEF BatchInv
<1>7. Tallied'
  BY NextTallied DEF BatchInv
<1> QED
  BY <1>1, <1>2, <1>3, <1>4, <1>5, <1>6, <1>7 DEF BatchInv

(* and with no thread between two steps, the counters are what they will be. *)
LEMMA BatchCounts == BatchInv => CountsBounded
<1> SUFFICES ASSUME BatchInv, NEW c \in Channel
             PROVE  /\ counter[c] <= found[c]
                    /\ Quiet => /\ found[c] > 0 => counter[c] > 0
                                /\ Unshared(c) => counter[c] = found[c]
  BY DEF CountsBounded, Unshared
<1>1. Tally(c)
  BY DEF BatchInv, Tallied
<1>2. Quiet => \A t \in Threads : ~Counting(t, c)
  BY DEF Quiet, Counting
<1> QED
  BY <1>1, <1>2 DEF Tally

-----------------------------------------------------------------------------
(* The search for the imports: Imports alone. *)

Found == [name : Unknown, depth : 0..Depth]

(* The queue holds unknown modules at depths of the search; the order has    *)
(* each of its modules once.                                                 *)
SearchKinds ==
  /\ queue \in Seq(Found) /\ order \in Seq(Unknown)
  /\ IsInjective(order)

(* A module that is nearer to the script does not come after one farther. *)
Ranked ==
  \A i, j \in 1..Len(order) : \A n \in 0..Depth :
    i < j /\ order[j] \in Within(n) => order[i] \in Within(n)

Waits(m, d) == \E i \in 1..Len(queue) : queue[i] = [name |-> m, depth |-> d]

(* The search has come to distance d: what is nearer has been found, what is *)
(* as far has been found or waits, and what the modules found import as well, *)
(* if their sources are read.                                                *)
Level(d) ==
  /\ \A i \in 1..Len(queue) : \E n \in {d, d+1} : queue[i].depth = n /\ queue[i].name \in Within(n)
  /\ \A i, j \in 1..Len(queue) : i < j => queue[i].depth <= queue[j].depth
  /\ ToSet(order) \subseteq Within(d)
  /\ \A n \in 0..d-1 : Within(n) \subseteq ToSet(order)
  /\ \A m \in Within(d) : m \in ToSet(order) \/ Waits(m, d)
  /\ d < Depth =>
       \A m \in ToSet(order) \intersect graph.source : \A u \in graph.uses[m] \ graph.known :
         u \in ToSet(order) \/ Waits(u, d) \/ Waits(u, d+1)

Searching == SearchKinds /\ Ranked /\ \E d \in 0..Depth : Level(d)

SearchInv ==
  /\ IsGraph(graph)
  /\ phase = "config" => order = <<>>
  /\ phase = "search" => Searching

(* A set of naturals has a least one. *)
LEMMA Smallest ==
  ASSUME NEW T, T \subseteq Nat, T # {}
  PROVE  \E x \in T : \A y \in T : x <= y
<1> DEFINE R == {ss \in Nat \X Nat : ss[1] < ss[2]}
<1>0. IsWellFoundedOn(R, Nat)
  BY NatLessThanWellFounded DEF OpToRel
<1>1. PICK x \in T : \A y \in T : ~(<<y, x>> \in R)
  BY <1>0, WFMin
<1>2. \A y \in T : ~(y < x)
  BY <1>1
<1> QED
  BY <1>2

(* What the script imports is at the end of a chain of one, *)
LEMMA WithinFirst ==
  ASSUME IsGraph(graph)
  PROVE  Within(0) = graph.top \ graph.known
<1>1. ASSUME NEW m \in graph.top \ graph.known
      PROVE  m \in Within(0)
  <2> DEFINE c == [i \in 1..1 |-> m]
  <2>1. m \in Unknown
    BY DEF IsGraph, Unknown
  <2>2. c \in Chains(1) /\ c[1] = m
    BY <2>1 DEF Chains
  <2> HIDE DEF c
  <2> QED
    BY <2>1, <2>2 DEF Within
<1>2. ASSUME NEW m \in Within(0)
      PROVE  m \in graph.top \ graph.known
  <2>1. m \in Unknown /\ \E c \in Chains(1) : c[1] = m
    BY DEF Within
  <2> QED
    BY <2>1 DEF Chains, Unknown
<1> QED
  BY <1>1, <1>2

(* a longer way is a way, *)
LEMMA WithinMore ==
  ASSUME NEW m \in Nat, NEW n \in Nat, m <= n
  PROVE  Within(m) \subseteq Within(n)
<1>1. 1..m+1 \subseteq 1..n+1
  OBVIOUS
<1> QED
  BY <1>1 DEF Within

(* one import more leads one step further, *)
LEMMA WithinNext ==
  ASSUME IsGraph(graph), NEW n \in Nat, NEW x \in Within(n), x \in graph.source,
         NEW y \in graph.uses[x] \ graph.known
  PROVE  y \in Within(n+1)
<1>1. PICK k \in 1..n+1 : \E c \in Chains(k) : c[k] = x
  BY DEF Within
<1>2. PICK c \in Chains(k) : c[k] = x
  BY <1>1
<1>3. y \in Unknown
  BY DEF IsGraph, Unknown, Within
<1> DEFINE longer == [i \in 1..k+1 |-> IF i <= k THEN c[i] ELSE y]
<1>4. c \in [1..k -> Unknown] /\ c[1] \in graph.top
        /\ \A i \in 2..k : c[i-1] \in graph.source /\ c[i] \in graph.uses[c[i-1]]
  BY DEF Chains
<1>5. longer \in [1..k+1 -> Unknown] /\ longer[1] = c[1] /\ longer[k+1] = y
  BY <1>3, <1>4
<1>6. ASSUME NEW i \in 2..k+1
      PROVE  longer[i-1] \in graph.source /\ longer[i] \in graph.uses[longer[i-1]]
  <2>1. CASE i \in 2..k
    <3>1. longer[i-1] = c[i-1] /\ longer[i] = c[i]
      BY <2>1
    <3> QED
      BY <2>1, <3>1, <1>4
  <2>2. CASE i = k+1
    <3>1. longer[i-1] = x /\ longer[i] = y
      BY <1>2, <2>2
    <3> QED
      BY <3>1
  <2> QED
    BY <2>1, <2>2
<1> HIDE DEF longer
<1>7. longer \in Chains(k+1)
  BY <1>4, <1>5, <1>6 DEF Chains
<1> QED
  BY <1>3, <1>5, <1>7 DEF Within

(* and a way that is no shorter has a last import. *)
LEMMA WithinLast ==
  ASSUME NEW n \in Nat, NEW y \in Within(n+1), y \notin Within(n)
  PROVE  y \notin graph.known /\ \E x \in Within(n) : x \in graph.source /\ y \in graph.uses[x]
<1>1. y \in Unknown
  BY DEF Within
<1>2. PICK k \in 1..n+2 : \E c \in Chains(k) : c[k] = y
  BY DEF Within
<1>3. PICK c \in Chains(k) : c[k] = y
  BY <1>2
<1>4. k = n+2
  BY <1>1, <1>3 DEF Within
<1>5. c \in [1..k -> Unknown] /\ c[1] \in graph.top
        /\ \A i \in 2..k : c[i-1] \in graph.source /\ c[i] \in graph.uses[c[i-1]]
  BY DEF Chains
<1> DEFINE shorter == [i \in 1..n+1 |-> c[i]]
<1>6. shorter \in [1..n+1 -> Unknown] /\ shorter[1] = c[1] /\ shorter[n+1] = c[n+1]
  BY <1>4, <1>5
<1>7. ASSUME NEW i \in 2..n+1
      PROVE  shorter[i-1] \in graph.source /\ shorter[i] \in graph.uses[shorter[i-1]]
  <2>1. shorter[i-1] = c[i-1] /\ shorter[i] = c[i] /\ i \in 2..k
    BY <1>4
  <2> QED
    BY <2>1, <1>5
<1> HIDE DEF shorter
<1>8. shorter \in Chains(n+1)
  BY <1>5, <1>6, <1>7 DEF Chains
<1>9. c[n+1] \in Within(n)
  BY <1>4, <1>5, <1>6, <1>8 DEF Within
<1>10. n+2 \in 2..k /\ n+2-1 = n+1
  BY <1>4
<1> QED
  BY <1>1, <1>3, <1>4, <1>5, <1>9, <1>10 DEF Unknown

(* A set that has what the script imports, and what its own modules import,  *)
(* has every chain.                                                          *)
LEMMA WithinClosed ==
  ASSUME NEW S, graph.top \ graph.known \subseteq S,
         \A x \in S : x \in graph.source => graph.uses[x] \ graph.known \subseteq S,
         NEW n \in Nat
  PROVE  Within(n) \subseteq S
<1> SUFFICES ASSUME NEW m \in Within(n), m \notin S PROVE FALSE
  OBVIOUS
<1>1. PICK k \in 1..n+1 : \E c \in Chains(k) : c[k] = m
  BY DEF Within
<1>2. PICK c \in Chains(k) : c[k] = m
  BY <1>1
<1>3. c \in [1..k -> Unknown] /\ c[1] \in graph.top
        /\ \A i \in 2..k : c[i-1] \in graph.source /\ c[i] \in graph.uses[c[i-1]]
  BY DEF Chains
<1> DEFINE T == {i \in 1..k : c[i] \notin S}
<1>4. T \subseteq Nat /\ k \in T
  BY <1>2
<1>5. PICK i \in T : \A j \in T : i <= j
  BY <1>4, Smallest
<1>6. c[i] \notin graph.known
  BY <1>3 DEF Unknown
<1>7. CASE i = 1
  BY <1>3, <1>6, <1>7
<1>8. CASE i > 1
  <2>1. i-1 \in 1..k /\ i-1 \notin T /\ i \in 2..k
    BY <1>5, <1>8
  <2>2. c[i-1] \in S
    BY <2>1
  <2> QED
    BY <1>3, <1>6, <2>1, <2>2
<1> QED
  BY <1>7, <1>8

(* The search comes to the distance of the first module in the queue. *)
LEMMA Advance ==
  ASSUME IsGraph(graph), SearchKinds, NEW d \in 0..Depth, Level(d), queue # <<>>
  PROVE  queue[1].depth \in 0..Depth /\ Level(queue[1].depth)
<1>1. 1 \in 1..Len(queue) /\ Len(queue) \in Nat /\ queue[1].depth \in {d, d+1}
        /\ queue[1].depth \in 0..Depth
  <2>1. queue \in Seq(Found)
    BY DEF SearchKinds
  <2>2. Len(queue) \in Nat /\ 1 \in 1..Len(queue)
    BY <2>1
  <2>3. queue[1] \in Found
    BY <2>1, <2>2
  <2>4. \E n \in {d, d+1} : queue[1].depth = n
    BY <2>2 DEF Level
  <2>5. queue[1].depth \in {d, d+1}
    BY <2>4
  <2>6. queue[1].depth \in 0..Depth
    BY <2>3 DEF Found
  <2> QED
    BY <2>2, <2>5, <2>6
<1>2. CASE queue[1].depth = d
  BY <1>2
<1>3. CASE queue[1].depth = d+1
  <2>1. d < Depth
    BY <1>1, <1>3, ImportsAssumption
  <2>2. ASSUME NEW i \in 1..Len(queue)
        PROVE  queue[i].depth = d+1 /\ queue[i].name \in Within(d+1)
    <3>1. \E n \in {d, d+1} : queue[i].depth = n /\ queue[i].name \in Within(n)
      BY DEF Level
    <3>2. i > 1 => queue[1].depth <= queue[i].depth
      BY <1>1 DEF Level
    <3> QED
      BY <1>3, <3>1, <3>2
  <2>3. \A m : ~Waits(m, d)
    BY <2>2 DEF Waits
  <2>4. Within(d) \subseteq ToSet(order)
    BY <2>3 DEF Level
  <2>5. ToSet(order) \subseteq Within(d) /\ Within(d) \subseteq Within(d+1)
    BY WithinMore DEF Level
  <2>6. \A n \in 0..d : Within(n) \subseteq ToSet(order)
    BY <2>4 DEF Level
  <2>7. \A m \in ToSet(order) : m \in graph.source =>
          \A u \in graph.uses[m] \ graph.known : u \in ToSet(order) \/ Waits(u, d+1)
    BY <2>1, <2>3 DEF Level
  <2>8. ASSUME NEW m \in Within(d+1)
        PROVE  m \in ToSet(order) \/ Waits(m, d+1)
    <3>1. CASE m \in Within(d)
      BY <2>4, <3>1
    <3>2. CASE m \notin Within(d)
      <4>1. PICK x \in Within(d) : x \in graph.source /\ m \in graph.uses[x] \ graph.known
        BY <3>2, WithinLast
      <4> QED
        BY <2>4, <2>7, <4>1
    <3> QED
      BY <3>1, <3>2
  <2>9. Level(d+1)
    BY <2>2, <2>5, <2>6, <2>7, <2>8 DEF Level
  <2> QED
    BY <1>1, <1>3, <2>9
<1> QED
  BY <1>1, <1>2, <1>3

(* With the queue empty, nothing within the depth is left. *)
LEMMA Finished ==
  ASSUME IsGraph(graph), SearchKinds, NEW d \in 0..Depth, Level(d), queue = <<>>
  PROVE  ToSet(order) = Within(Depth)
<1>0. Depth \in Nat /\ d \in Nat /\ d <= Depth
  BY ImportsAssumption
<1>1. ToSet(order) \subseteq Within(d) /\ Within(d) \subseteq Within(Depth)
  BY <1>0, WithinMore DEF Level
<1>2. \A m, n : ~Waits(m, n)
  BY DEF Waits
<1>3. Within(d) \subseteq ToSet(order)
  BY <1>2 DEF Level
<1>4. CASE d = Depth
  BY <1>1, <1>3, <1>4
<1>5. CASE d < Depth
  <2>1. Within(0) \subseteq ToSet(order)
    BY <1>0, <1>3, WithinMore
  <2>2. \A m \in ToSet(order) : m \in graph.source => graph.uses[m] \ graph.known \subseteq ToSet(order)
    BY <1>2, <1>5 DEF Level
  <2>3. Within(Depth) \subseteq ToSet(order)
    BY <1>0, <2>1, <2>2, WithinFirst, WithinClosed
  <2> QED
    BY <1>1, <2>3
<1> QED
  BY <1>0, <1>4, <1>5

(* Of two sequences one is made that is as long as both. *)
LEMMA Joined ==
  ASSUME NEW E, NEW r \in Seq(E), NEW t \in Seq(E)
  PROVE  /\ r \o t \in Seq(E)
         /\ Len(r \o t) = Len(r) + Len(t)
         /\ \A i \in 1..Len(r) : (r \o t)[i] = r[i]
         /\ \A i \in 1..Len(t) : (r \o t)[Len(r)+i] = t[i]
OBVIOUS

(* What is behind the first of the queue, followed by other modules. *)
Followed(q, s, d) ==
  /\ q \in Seq(Found)
  /\ Len(q) = Len(queue) - 1 + Len(s)
  /\ \A i \in 1..Len(queue)-1 : q[i] = queue[i+1]
  /\ \A i \in 1..Len(s) : q[Len(queue)-1+i] = [name |-> s[i], depth |-> d]

(* That is the queue once the imports of its first module have been added. *)
LEMMA QueueNext ==
  ASSUME queue \in Seq(Found), queue # <<>>, NEW s \in Seq(Unknown), NEW d \in 0..Depth,
         NEW q, q = Tail(queue) \o AtDepth(s, d)
  PROVE  Followed(q, s, d)
<1> DEFINE added == AtDepth(s, d)
<1>1. added \in Seq(Found) /\ Len(added) = Len(s)
        /\ \A i \in 1..Len(s) : added[i] = [name |-> s[i], depth |-> d]
  <2>1. Len(s) \in Nat /\ \A i \in 1..Len(s) : s[i] \in Unknown
    OBVIOUS
  <2>2. \A m \in Unknown : [name |-> m, depth |-> d] \in Found
    BY DEF Found
  <2> QED
    BY <2>1, <2>2 DEF AtDepth
<1>2. Tail(queue) \in Seq(Found) /\ Len(Tail(queue)) = Len(queue) - 1 /\ Len(queue) \in Nat \ {0}
        /\ \A i \in 1..Len(queue)-1 : Tail(queue)[i] = queue[i+1]
  OBVIOUS
<1>3. q = Tail(queue) \o added
  OBVIOUS
<1> HIDE DEF added
<1> DEFINE rest == Tail(queue)
<1> HIDE DEF rest
<1>4. rest \in Seq(Found) /\ q = rest \o added
  BY <1>2, <1>3 DEF rest
<1>5. /\ q \in Seq(Found)
      /\ Len(q) = Len(rest) + Len(added)
      /\ \A i \in 1..Len(rest) : q[i] = rest[i]
      /\ \A i \in 1..Len(added) : q[Len(rest)+i] = added[i]
  <2>1. rest \in Seq(Found) /\ added \in Seq(Found)
    BY <1>1, <1>4
  <2>2. rest \o added \in Seq(Found)
    BY <2>1, Joined
  <2>3. Len(rest \o added) = Len(rest) + Len(added)
    BY <2>1, Joined
  <2>4. \A i \in 1..Len(rest) : (rest \o added)[i] = rest[i]
    BY <2>1, Joined
  <2>5. \A i \in 1..Len(added) : (rest \o added)[Len(rest)+i] = added[i]
    BY <2>1, Joined
  <2> QED
    BY <1>4, <2>2, <2>3, <2>4, <2>5, Zenon
<1>6. Len(queue) \in Nat /\ Len(rest) = Len(queue) - 1 /\ Len(added) = Len(s)
        /\ \A i \in 1..Len(queue)-1 : rest[i] = queue[i+1]
  BY <1>1, <1>2 DEF rest
<1> QED
  BY <1>1, <1>5, <1>6, Zenon DEF Followed

(* The search begins at distance 0, *)
LEMMA StartSearchEffect ==
  ASSUME SearchInv, StartSearch
  PROVE  Searching'
<1>1. order = <<>> /\ order' = <<>> /\ graph' = graph /\ phase = "config"
  BY DEF StartSearch, SearchInv
<1>2. PICK s \in SetToSeqs(graph.top \ graph.known) : queue' = AtDepth(s, 0)
  BY DEF StartSearch
<1>3. IsFiniteSet(graph.top \ graph.known) /\ graph.top \ graph.known \subseteq Unknown
  <2>1. graph.top \ graph.known \subseteq DOMAIN graph.uses /\ IsFiniteSet(DOMAIN graph.uses)
    BY DEF SearchInv, IsGraph
  <2> QED
    BY <2>1, FS_Subset DEF Unknown
<1>4. ToSet(s) = graph.top \ graph.known
  BY <1>3, SetToSeqsWhole
<1>5. s \in Seq(graph.top \ graph.known)
  BY <1>3, SetToSeqsSeq
<1>6. Len(queue') = Len(s) /\ \A i \in 1..Len(s) : queue'[i] = [name |-> s[i], depth |-> 0]
  BY <1>2, <1>5 DEF AtDepth
<1>7. \A i \in 1..Len(s) : s[i] \in graph.top \ graph.known
  BY <1>5
<1>8. \A n : Within(n)' = Within(n)
  BY <1>1 DEF Within, Chains, Unknown
<1>9. Within(0) = graph.top \ graph.known
  BY WithinFirst DEF SearchInv
<1>10. SearchKinds'
  <2>1. queue' \in Seq(Found)
    <3>1. \A m \in Unknown : [name |-> m, depth |-> 0] \in Found
      BY ImportsAssumption DEF Found
    <3>2. \A i \in 1..Len(s) : [name |-> s[i], depth |-> 0] \in Found
      BY <1>3, <1>7, <3>1
    <3> QED
      BY <1>2, <1>5, <3>2 DEF AtDepth
  <2>2. Found' = Found /\ Unknown' = Unknown
    BY <1>1 DEF Found, Unknown
  <2>3. order' \in Seq(Unknown) /\ IsInjective(order')
    BY <1>1 DEF IsInjective
  <2> QED
    BY <2>1, <2>2, <2>3 DEF SearchKinds
<1>11. Ranked'
  BY <1>1 DEF Ranked
<1>12. ToSet(order') = {}
  BY <1>1 DEF ToSet
<1>13. Level(0)'
  <2>1. \A i \in 1..Len(queue') : queue'[i].depth = 0 /\ queue'[i].name \in Within(0)
    <3>1. ASSUME NEW i \in 1..Len(s)
          PROVE  queue'[i].depth = 0 /\ queue'[i].name = s[i]
      <4>1. queue'[i] = [name |-> s[i], depth |-> 0]
        BY <1>6
      <4> QED
        BY <4>1
    <3> QED
      BY <1>6, <1>7, <1>9, <3>1
  <2>2. \A i, j \in 1..Len(queue') : i < j => queue'[i].depth <= queue'[j].depth
    BY <2>1
  <2>3. \A m \in Within(0) : \E i \in 1..Len(queue') : queue'[i] = [name |-> m, depth |-> 0]
    BY <1>4, <1>5, <1>6, <1>9 DEF ToSet
  <2> QED
    BY <1>8, <1>12, <2>1, <2>2, <2>3 DEF Level, Waits
<1> QED
  BY <1>10, <1>11, <1>13, ImportsAssumption DEF Searching

(* A module that has been found already, *)
LEMMA SkipEffect ==
  ASSUME IsGraph(graph), Searching, queue # <<>>, Ignored(queue[1].name),
         queue' = Tail(queue), UNCHANGED <<graph, order>>
  PROVE  Searching'
<1>1. PICK d \in 0..Depth : Level(d) /\ queue[1].depth = d
  BY Advance DEF Searching
<1>2. queue \in Seq(Found) /\ queue' \in Seq(Found) /\ Len(queue) \in Nat \ {0} /\ Len(queue') = Len(queue) - 1
        /\ \A i \in 1..Len(queue') : queue'[i] = queue[i+1]
  BY DEF Searching, SearchKinds
<1>3. \A n : Within(n)' = Within(n)
  BY DEF Within, Chains, Unknown
<1>4. Found' = Found /\ Unknown' = Unknown
  BY DEF Found, Unknown
<1>5. SearchKinds'
  BY <1>2, <1>4 DEF Searching, SearchKinds
<1>6. Ranked'
  BY <1>3 DEF Searching, Ranked
<1>7. queue[1].name \in ToSet(order)
  <2>1. queue[1].name \in Within(d)
    BY <1>1, <1>2 DEF Level
  <2> QED
    BY <2>1 DEF Ignored, Within, Unknown
<1>8. \A m, n : Waits(m, n) => m = queue[1].name \/ Waits(m, n)'
  <2> SUFFICES ASSUME NEW m, NEW n, NEW i \in 1..Len(queue), queue[i] = [name |-> m, depth |-> n]
               PROVE  m = queue[1].name \/ Waits(m, n)'
    BY DEF Waits
  <2>1. CASE i = 1
    BY <2>1
  <2>2. CASE i > 1
    <3>1. i-1 \in 1..Len(queue') /\ queue'[i-1] = queue[i]
      BY <1>2, <2>2
    <3> QED
      BY <3>1 DEF Waits
  <2> QED
    BY <2>1, <2>2
<1>9. Level(d)'
  <2>1. \A i \in 1..Len(queue') : \E n \in {d, d+1} : queue'[i].depth = n /\ queue'[i].name \in Within(n)
    <3>1. \A i \in 1..Len(queue') : i+1 \in 1..Len(queue)
      BY <1>2
    <3> QED
      BY <1>1, <1>2, <3>1 DEF Level
  <2>2. \A i, j \in 1..Len(queue') : i < j => queue'[i].depth <= queue'[j].depth
    <3>1. \A i, j \in 1..Len(queue') : i < j => i+1 \in 1..Len(queue) /\ j+1 \in 1..Len(queue) /\ i+1 < j+1
      BY <1>2
    <3> QED
      BY <1>1, <1>2, <3>1 DEF Level
  <2>3. \A m \in Within(d) : m \in ToSet(order) \/ Waits(m, d)'
    BY <1>1, <1>7, <1>8 DEF Level
  <2>4. d < Depth =>
          \A m \in ToSet(order) \intersect graph.source : \A u \in graph.uses[m] \ graph.known :
            u \in ToSet(order) \/ Waits(u, d)' \/ Waits(u, d+1)'
    BY <1>1, <1>7, <1>8 DEF Level
  <2>5. ToSet(order) \subseteq Within(d) /\ \A n \in 0..d-1 : Within(n) \subseteq ToSet(order)
    BY <1>1 DEF Level
  <2> QED
    BY <1>3, <2>1, <2>2, <2>3, <2>4, <2>5 DEF Level
<1> QED
  BY <1>5, <1>6, <1>9 DEF Searching

(* and one that has not: its imports wait, if it is not too far. *)
LEMMA FoundEffect ==
  ASSUME IsGraph(graph), Searching, queue # <<>>, ~Ignored(queue[1].name),
         order' = Append(order, queue[1].name), graph' = graph,
         NEW s \in Seq(Unknown), queue' = Tail(queue) \o AtDepth(s, queue[1].depth + 1),
         \A i \in 1..Len(s) :
           /\ queue[1].depth < Depth /\ queue[1].name \in graph.source
           /\ s[i] \in graph.uses[queue[1].name],
         queue[1].depth < Depth /\ queue[1].name \in graph.source =>
           \A u \in graph.uses[queue[1].name] :
             Ignored(u) \/ u = queue[1].name \/ \E i \in 1..Len(s) : s[i] = u
  PROVE  Searching'
<1> DEFINE x == queue[1].name
<1>1. PICK d \in 0..Depth : Level(d) /\ queue[1].depth = d
  BY Advance DEF Searching
<1>2. queue \in Seq(Found) /\ order \in Seq(Unknown) /\ Len(queue) \in Nat \ {0} /\ Len(s) \in Nat
        /\ d \in Nat /\ Depth \in Nat
  BY <1>1, ImportsAssumption DEF Searching, SearchKinds
<1>3. \A n : Within(n)' = Within(n)
  BY DEF Within, Chains, Unknown
<1>4. Found' = Found /\ Unknown' = Unknown
  BY DEF Found, Unknown
<1>5. x \in Within(d) /\ x \in Unknown /\ x \notin ToSet(order)
  <2>1. x \in Within(d)
    BY <1>1, <1>2 DEF Level
  <2> QED
    BY <2>1 DEF Ignored, Within
<1>6. /\ Len(order') = Len(order) + 1 /\ order' \in Seq(Unknown) /\ order'[Len(order)+1] = x
      /\ \A i \in 1..Len(order) : order'[i] = order[i]
      /\ Len(order) \in Nat
  BY <1>2, <1>5
<1>7. ToSet(order') = ToSet(order) \union {x}
  <2>1. DOMAIN order = 1..Len(order) /\ DOMAIN order' = 1..Len(order)+1
    BY <1>2, <1>6
  <2>2. ToSet(order') \subseteq ToSet(order) \union {x}
    BY <1>6, <2>1 DEF ToSet
  <2>3. ToSet(order) \subseteq ToSet(order') /\ x \in ToSet(order')
    <3>1. \A i \in 1..Len(order) : i \in 1..Len(order)+1 /\ order[i] = order'[i]
      BY <1>6
    <3>2. Len(order)+1 \in 1..Len(order)+1
      BY <1>6
    <3> QED
      BY <1>6, <2>1, <3>1, <3>2 DEF ToSet
  <2> QED
    BY <2>2, <2>3
<1>8. /\ queue' \in Seq(Found)
      /\ Len(queue') = Len(queue) - 1 + Len(s)
      /\ \A i \in 1..Len(queue)-1 : queue'[i] = queue[i+1]
      /\ \A i \in 1..Len(s) : queue'[Len(queue)-1+i] = [name |-> s[i], depth |-> d+1]
  <2>1. CASE s = <<>>
    <3>1. AtDepth(s, d+1) = <<>>
      BY <2>1 DEF AtDepth
    <3>2. queue' = Tail(queue)
      BY <1>1, <1>2, <3>1
    <3>3. Tail(queue) \in Seq(Found) /\ Len(Tail(queue)) = Len(queue) - 1
            /\ \A i \in 1..Len(queue)-1 : Tail(queue)[i] = queue[i+1]
      BY <1>2
    <3>4. Len(s) = 0
      BY <2>1
    <3>5. \A i \in 1..Len(s) : FALSE
      BY <3>4
    <3>6. Len(queue') = Len(queue) - 1
      BY <3>2, <3>3
    <3>7. Len(queue) \in Nat
      BY <1>2
    <3>8. Len(queue') = Len(queue) - 1 + Len(s)
      BY <3>4, <3>6, <3>7
    <3> QED
      BY <3>2, <3>3, <3>5, <3>8, Zenon
  <2>2. CASE s # <<>>
    <3>1. 1 \in 1..Len(s)
      BY <1>2, <2>2
    <3>2. d < Depth
      BY <1>1, <3>1
    <3>4. queue' = Tail(queue) \o AtDepth(s, d+1)
      BY <1>1
    <3>5. d+1 \in 0..Depth /\ queue \in Seq(Found) /\ s \in Seq(Unknown)
      BY <1>2, <3>2
    <3>6. Followed(queue', s, d+1)
      BY <3>4, <3>5, QueueNext, Zenon
    <3> QED
      BY <3>6 DEF Followed
  <2> QED
    BY <2>1, <2>2
<1>9. SearchKinds'
  <2>1. IsInjective(order')
    <3>1. DOMAIN order' = 1..Len(order)+1 /\ DOMAIN order = 1..Len(order)
      BY <1>2, <1>6
    <3>2. \A i \in 1..Len(order) : order[i] # x
      BY <1>5, <3>1 DEF ToSet
    <3>3. \A i, j \in 1..Len(order) : order[i] = order[j] => i = j
      BY <3>1 DEF Searching, SearchKinds, IsInjective
    <3>4. \A i, j \in 1..Len(order)+1 : order'[i] = order'[j] => i = j
      BY <1>6, <3>2, <3>3
    <3> QED
      BY <3>1, <3>4 DEF IsInjective
  <2> QED
    BY <1>4, <1>6, <1>8, <2>1 DEF SearchKinds
<1>10. Ranked'
  <2>0. Len(order') = Len(order) + 1
    BY <1>6
  <2> SUFFICES ASSUME NEW i \in 1..Len(order)+1, NEW j \in 1..Len(order)+1, NEW n \in 0..Depth,
                      i < j, order'[j] \in Within(n)
               PROVE  order'[i] \in Within(n)
    BY <1>3, <2>0 DEF Ranked
  <2>1. i \in 1..Len(order) /\ order'[i] = order[i]
    BY <1>6
  <2>2. CASE j \in 1..Len(order)
    BY <1>6, <2>1, <2>2 DEF Searching, Ranked
  <2>3. CASE j = Len(order) + 1
    <3>1. x \in Within(n)
      BY <1>6, <2>3
    <3>2. n \notin 0..d-1
      BY <1>1, <1>5, <3>1 DEF Level
    <3>3. d <= n
      BY <1>2, <3>2
    <3>4. order[i] \in ToSet(order)
      BY <1>2, <2>1 DEF ToSet
    <3>5. order[i] \in Within(d)
      BY <1>1, <3>4 DEF Level
    <3>6. Within(d) \subseteq Within(n)
      BY <1>2, <3>3, WithinMore
    <3> QED
      BY <2>1, <3>5, <3>6
  <2>4. \A m \in Nat : \A k \in 1..m+1 : k \in 1..m \/ k = m+1
    OBVIOUS
  <2>5. j \in 1..Len(order) \/ j = Len(order) + 1
    BY <1>6, <2>4, Zenon
  <2> QED
    BY <2>2, <2>3, <2>5
<1>11. \A m, n : Waits(m, n) => m = x \/ Waits(m, n)'
  <2> SUFFICES ASSUME NEW m, NEW n, NEW i \in 1..Len(queue), queue[i] = [name |-> m, depth |-> n]
               PROVE  m = x \/ Waits(m, n)'
    BY DEF Waits
  <2>1. CASE i = 1
    BY <2>1
  <2>2. CASE i > 1
    <3>1. i-1 \in 1..Len(queue') /\ queue'[i-1] = queue[i]
      BY <1>2, <1>8, <2>2
    <3> QED
      BY <3>1 DEF Waits
  <2> QED
    BY <2>1, <2>2
<1>12. \A i \in 1..Len(queue') :
         \/ i+1 \in 1..Len(queue) /\ queue'[i] = queue[i+1]
         \/ /\ i+1 > Len(queue) /\ d < Depth
            /\ queue'[i].depth = d+1 /\ queue'[i].name \in Within(d+1)
  <2> SUFFICES ASSUME NEW i \in 1..Len(queue')
               PROVE  \/ i+1 \in 1..Len(queue) /\ queue'[i] = queue[i+1]
                      \/ /\ i+1 > Len(queue) /\ d < Depth
                         /\ queue'[i].depth = d+1 /\ queue'[i].name \in Within(d+1)
    OBVIOUS
  <2>0. CASE i \in 1..Len(queue)-1
    BY <1>2, <1>8, <2>0
  <2>7. CASE i > Len(queue)-1
    <3>1. PICK k \in 1..Len(s) : i = Len(queue)-1+k
      <4>1. i - (Len(queue)-1) \in 1..Len(s) /\ i = Len(queue)-1+(i - (Len(queue)-1))
        BY <1>2, <1>8, <2>7
      <4> QED
        BY <4>1
    <3>2. queue'[i] = [name |-> s[k], depth |-> d+1]
      BY <1>8, <3>1
    <3>3. d < Depth /\ x \in graph.source /\ s[k] \in graph.uses[x]
      BY <1>1
    <3>4. s[k] \in Unknown
      BY <3>1
    <3>5. s[k] \in Within(d+1)
      BY <1>2, <1>5, <3>3, <3>4, WithinNext DEF Unknown
    <3> QED
      BY <2>7, <3>2, <3>3, <3>5
  <2> QED
    BY <1>2, <2>0, <2>7
<1>13. \A u : (\E i \in 1..Len(s) : s[i] = u) => Waits(u, d+1)'
  <2> SUFFICES ASSUME NEW i \in 1..Len(s) PROVE Waits(s[i], d+1)'
    BY DEF Waits
  <2>1. Len(queue)-1+i \in 1..Len(queue')
    BY <1>2, <1>8
  <2>2. queue'[Len(queue)-1+i] = [name |-> s[i], depth |-> d+1]
    BY <1>8
  <2> QED
    BY <2>1, <2>2 DEF Waits
<1>14. Level(d)'
  <2>1. \A i \in 1..Len(queue') : \E n \in {d, d+1} : queue'[i].depth = n /\ queue'[i].name \in Within(n)
    BY <1>1, <1>12 DEF Level
  <2>2. ASSUME NEW i \in 1..Len(queue'), NEW j \in 1..Len(queue'), i < j
        PROVE  queue'[i].depth <= queue'[j].depth
    <3>1. CASE j+1 \in 1..Len(queue)
      <4>1. i+1 \in 1..Len(queue) /\ i+1 < j+1
        BY <1>2, <2>2, <3>1
      <4>2. queue'[i] = queue[i+1] /\ queue'[j] = queue[j+1]
        BY <1>2, <1>12, <3>1, <4>1
      <4>3. queue[i+1].depth <= queue[j+1].depth
        BY <1>1, <3>1, <4>1 DEF Level
      <4> QED
        BY <4>2, <4>3
    <3>2. CASE j+1 \notin 1..Len(queue)
      <4>1. queue'[j].depth = d+1
        BY <1>12, <3>2
      <4>2. PICK n \in {d, d+1} : queue'[i].depth = n
        BY <2>1
      <4>3. n <= d+1
        BY <1>2
      <4> QED
        BY <4>1, <4>2, <4>3
    <3> QED
      BY <3>1, <3>2
  <2>3. ToSet(order') \subseteq Within(d)
    BY <1>1, <1>5, <1>7 DEF Level
  <2>4. \A n \in 0..d-1 : Within(n) \subseteq ToSet(order')
    BY <1>1, <1>7 DEF Level
  <2>5. \A m \in Within(d) : m \in ToSet(order') \/ Waits(m, d)'
    BY <1>1, <1>7, <1>11 DEF Level
  <2>6. ASSUME d < Depth, NEW m \in ToSet(order') \intersect graph.source,
               NEW u \in graph.uses[m] \ graph.known
        PROVE  u \in ToSet(order') \/ Waits(u, d)' \/ Waits(u, d+1)'
    <3>1. CASE m \in ToSet(order)
      <4>1. u \in ToSet(order) \/ Waits(u, d) \/ Waits(u, d+1)
        BY <1>1, <2>6, <3>1 DEF Level
      <4> QED
        BY <1>7, <1>11, <4>1
    <3>2. CASE m = x
      BY <1>1, <1>7, <1>13, <2>6, <3>2 DEF Ignored
    <3> QED
      BY <1>7, <3>1, <3>2
  <2> QED
    BY <1>3, <2>1, <2>2, <2>3, <2>4, <2>5, <2>6 DEF Level
<1> QED
  BY <1>9, <1>10, <1>14 DEF Searching

(* The search goes on, or is over. *)
LEMMA NextSearchInv == SearchInv /\ (ImportStep \/ UNCHANGED importVars) => SearchInv'
<1> SUFFICES ASSUME SearchInv, ImportStep \/ UNCHANGED importVars PROVE SearchInv'
  OBVIOUS
<1>1. graph' = graph /\ IsGraph(graph)'
  <2>1. graph' = graph
    BY DEF ImportStep, StartSearch, Search, StartPreload, Preload, importVars
  <2> QED
    BY <2>1 DEF SearchInv, IsGraph
<1>2. CASE StartSearch
  BY <1>1, <1>2, StartSearchEffect DEF SearchInv, StartSearch
<1>3. CASE Search
  <2>1. phase = "search" /\ phase' = "search" /\ queue # <<>> /\ Searching
    BY <1>3 DEF Search, SearchInv
  <2>0. Head(queue) = queue[1]
    BY <2>1 DEF Searching, SearchKinds
  <2>2. CASE Ignored(queue[1].name)
    <3>1. queue' = Tail(queue) /\ order' = order
      BY <1>3, <2>2 DEF Search
    <3> QED
      BY <1>1, <2>1, <2>2, <3>1, SkipEffect DEF SearchInv
  <2>3. CASE ~Ignored(queue[1].name)
    <3> DEFINE x == queue[1].name
               children == {n \in graph.uses[x] : ~Ignored(n) /\ n # x}
    <3>1. order' = Append(order, x)
      BY <1>3, <2>3 DEF Search
    <3>2. CASE queue[1].depth < Depth /\ x \in graph.source
      <4>0. \E s \in SetToSeqs({n \in graph.uses[Head(queue).name] : ~Ignored(n) /\ n # Head(queue).name}) :
              queue' = Tail(queue) \o AtDepth(s, Head(queue).depth + 1)
        BY <1>3, <2>0, <2>3, <3>2, Zenon DEF Search
      <4>1. PICK s \in SetToSeqs(children) : queue' = Tail(queue) \o AtDepth(s, queue[1].depth + 1)
        BY <2>0, <4>0, Zenon
      <4>2. x \in DOMAIN graph.uses
        <5>1. queue \in Seq(Found) /\ 1 \in 1..Len(queue)
          BY <2>1 DEF Searching, SearchKinds
        <5>2. queue[1] \in Found
          BY <5>1
        <5> QED
          BY <5>2 DEF Found, Unknown
      <4>3. children \subseteq Unknown /\ IsFiniteSet(children)
        <5>1. children \subseteq DOMAIN graph.uses /\ IsFiniteSet(DOMAIN graph.uses)
          BY <4>2 DEF SearchInv, IsGraph
        <5> QED
          BY <5>1, FS_Subset DEF Unknown, Ignored
      <4>4. ToSet(s) = children /\ s \in Seq(children)
        BY <4>3, SetToSeqsWhole, SetToSeqsSeq
      <4>5. s \in Seq(Unknown) /\ \A i \in 1..Len(s) : s[i] \in children
        BY <4>3, <4>4
      <4>6. \A u \in children : \E i \in 1..Len(s) : s[i] = u
        BY <4>4 DEF ToSet
      <4>7. \A i \in 1..Len(s) : s[i] \in graph.uses[x]
        BY <4>5
      <4>8. \A u \in graph.uses[x] : Ignored(u) \/ u = x \/ \E i \in 1..Len(s) : s[i] = u
        BY <4>6
      <4>9. Searching'
        BY <1>1, <2>1, <2>3, <3>1, <3>2, <4>1, <4>5, <4>7, <4>8, FoundEffect, Zenon DEF SearchInv
      <4> QED
        BY <1>1, <2>1, <4>9 DEF SearchInv
    <3>3. CASE ~(queue[1].depth < Depth /\ x \in graph.source)
      <4>1. queue' = Tail(queue)
        BY <1>3, <2>3, <3>3 DEF Search
      <4>2. PICK s : s = <<>>
        OBVIOUS
      <4>3. s \in Seq(Unknown) /\ \A i \in 1..Len(s) : FALSE
        BY <4>2
      <4>4. queue' = Tail(queue) \o AtDepth(s, queue[1].depth + 1)
        <5>1. queue \in Seq(Found)
          BY <2>1 DEF Searching, SearchKinds
        <5>2. AtDepth(s, queue[1].depth + 1) = <<>>
          BY <4>2 DEF AtDepth
        <5> QED
          BY <2>1, <4>1, <5>1, <5>2
      <4>5. Searching'
        BY <1>1, <2>1, <2>3, <3>1, <3>3, <4>3, <4>4, FoundEffect, Zenon DEF SearchInv
      <4> QED
        BY <1>1, <2>1, <4>5 DEF SearchInv
    <3> QED
      BY <3>2, <3>3
  <2> QED
    BY <2>2, <2>3
<1>4. CASE StartPreload \/ Preload
  BY <1>1, <1>4 DEF StartPreload, Preload, SearchInv
<1>5. CASE UNCHANGED importVars
  <2>1. UNCHANGED <<graph, phase, queue, order>>
    BY <1>5 DEF importVars
  <2>2. Searching' = Searching
    BY <2>1 DEF Searching, SearchKinds, Ranked, Level, Waits, Found, Within, Chains, Unknown
  <2> QED
    BY <1>1, <2>1, <2>2 DEF SearchInv
<1> QED
  BY <1>2, <1>3, <1>4, <1>5 DEF ImportStep

(* With nothing left to look at, the search has found all. *)
LEMMA SearchEnds == SearchInv => SearchComplete
<1> SUFFICES ASSUME SearchInv, phase = "search", queue = <<>> PROVE SearchComplete
  BY DEF SearchComplete
<1>1. Searching /\ IsGraph(graph)
  BY DEF SearchInv
<1>2. ToSet(order) = Within(Depth)
  BY <1>1, Finished DEF Searching
<1> QED
  BY <1>1, <1>2 DEF Searching, SearchKinds, Ranked, SearchComplete

-----------------------------------------------------------------------------
(* The gate, run.json, the imports and the batch together. *)

(* The application has what run.json said after the gate.  A process that    *)
(* has read it twice has been signalled; until then the variables and the    *)
(* working directory are those of the first reading.                         *)
ReadAgain ==
  /\ again \in BOOLEAN
  /\ again => sync /\ sent > 0 /\ pc \in {"launch", "app", "ended"}
  /\ sync /\ starts > 0 => again
  /\ again /\ ~altered =>
       /\ args = Said(file).args
       /\ env = Said(file).env @@ first.env
       /\ cwd = WorkingDir(Said(file), WorkingDir(first, Home))
  /\ ~again => env = first.env /\ cwd = WorkingDir(first, Home)

WrapperInv == scenario \in Scenarios /\ GateInv /\ ReadAgain /\ SearchInv /\ BatchInv

(* The wrapper does to the gate what Agent says, except that it may find     *)
(* something to run in run.json.                                             *)
LaunchArguments ==
  /\ pc = "launch" /\ pc' = "app" /\ starts' = starts + 1
  /\ UNCHANGED <<handler, tripped, done, token, sync, cmd, sent>>

LEMMA GateMoves ==
  ASSUME scenario \in Scenarios, TypeOK, WrapperNext
  PROVE  [Next]_vars \/ LaunchArguments
<1>0. scenario.sync \subseteq BOOLEAN /\ scenario.signals \in 0..MaxSignals
  BY WrapperAssumption
<1>1. CASE Start
  BY <1>0, <1>1 DEF Start, Next
<1>2. CASE FirstConfig \/ ImportDependencies \/ SecondConfig \/ RunBatch \/ WriteConfig
  BY <1>2, Zenon
  DEF FirstConfig, ImportDependencies, SecondConfig, RunBatch, WriteConfig, processVars
<1>3. CASE ImportsDone \/ GateStep \/ ImportCrash \/ AppEnds
  BY <1>3, Zenon DEF ImportsDone, GateStep, ImportCrash, AppEnds, Next, Step
<1>4. CASE Launch
  BY <1>4, Zenon DEF Launch, LaunchArguments, Next, Step
<1>5. CASE Signalled
  <2>1. sent < scenario.signals /\ Signal
    BY <1>5 DEF Signalled
  <2>2. sent < MaxSignals
    BY <1>0, <2>1, AgentAssumption DEF TypeOK
  <2> QED
    BY <2>1, <2>2 DEF Next
<1> QED
  BY <1>1, <1>2, <1>3, <1>4, <1>5, Zenon DEF WrapperNext, WrapperStep

(* An application from run.json's arguments starts past the gate as well. *)
LEMMA LaunchGate == GateInv /\ LaunchArguments => GateInv'
<1> SUFFICES ASSUME GateInv, LaunchArguments PROVE GateInv'
  OBVIOUS
<1> USE DEF LaunchArguments, PCs, Absent, Before, Waiting, After
<1>1. TypeOK'
  <2>1. {tripped, done, token, sync, cmd}' \subseteq BOOLEAN
    BY DEF GateInv, TypeOK
  <2> QED
    BY <2>1 DEF GateInv, TypeOK
<1>2. (HandlerScope /\ Caught /\ Passed /\ Unborn)'
  BY DEF GateInv, HandlerScope, Caught, Passed, Unborn
<1>3. GateHolds'
  BY DEF GateInv, Passed, GateHolds
<1> QED
  BY <1>1, <1>2, <1>3 DEF GateInv

(* Only the second reading, and a write of run.json, touch what the process  *)
(* has of it after the gate.                                                 *)
LEMMA NextReadAgain ==
  GateInv /\ ReadAgain /\ [WrapperNext]_wrapperVars => ReadAgain'
<1> SUFFICES ASSUME GateInv, ReadAgain, [WrapperNext]_wrapperVars PROVE ReadAgain'
  OBVIOUS
<1>0. sent \in Nat /\ starts \in Nat /\ sync \in BOOLEAN
  BY AgentAssumption DEF GateInv, TypeOK
<1>1. CASE Start
  <2>1. pc = Absent /\ starts = 0 /\ ~again
    BY <1>1 DEF Start, Exec, GateInv, Unborn, ReadAgain, Absent
  <2>2. starts' = starts /\ UNCHANGED configVars
    BY <1>1 DEF Start, Exec
  <2> QED
    BY <2>1, <2>2 DEF ReadAgain, configVars
<1>2. CASE FirstConfig
  <2>1. ~again
    BY <1>2 DEF FirstConfig, ReadAgain
  <2>2. UNCHANGED <<again, sync, starts>> /\ env' = first'.env /\ cwd' = WorkingDir(first', Home)
    BY <1>2 DEF FirstConfig, processVars, vars
  <2> QED
    BY <2>1, <2>2 DEF ReadAgain
<1>3. CASE ImportDependencies \/ RunBatch \/ UNCHANGED wrapperVars
  <2>1. UNCHANGED configVars /\ UNCHANGED <<sync, starts, sent, pc>>
    BY <1>3 DEF ImportDependencies, RunBatch, wrapperVars, processVars, vars
  <2> QED
    BY <2>1 DEF ReadAgain, configVars
<1>4. CASE ImportsDone \/ GateStep \/ ImportCrash
  <2>1. pc \notin {"launch", "app", "ended"}
    BY <1>4 DEF ImportsDone, GateStep, ImportCrash, Import, Crash, CreateToken, WriteToken, Install,
         TestDone, RunHandler, EnterPause, Wake, Uninstall, Unlink
  <2>2. UNCHANGED configVars /\ UNCHANGED <<sync, starts>>
    BY <1>4, Zenon
    DEF ImportsDone, GateStep, ImportCrash, Import, Crash, CreateToken, WriteToken, Install,
        TestDone, RunHandler, EnterPause, Wake, Uninstall, Unlink
  <2> QED
    BY <2>1, <2>2 DEF ReadAgain, configVars
<1>5. CASE SecondConfig
  <2>1. pc = "launch" /\ sync /\ ~again /\ again' = TRUE
    BY <1>5 DEF SecondConfig
  <2>2. sent > 0
    BY <2>1 DEF GateInv, Passed, After
  <2>3. UNCHANGED <<file, first, altered, pc, sync, sent, starts>>
    BY <1>5 DEF SecondConfig, processVars, vars
  <2>4. /\ args' = Said(file).args /\ env' = Said(file).env @@ first.env
        /\ cwd' = WorkingDir(Said(file), WorkingDir(first, Home))
    BY <1>5, <2>1 DEF SecondConfig, Apply, ReadAgain
  <2> QED
    BY <2>1, <2>2, <2>3, <2>4 DEF ReadAgain, Said, WorkingDir
<1>6. CASE Launch
  <2>1. pc = "launch" /\ (sync => again) /\ pc' \in {"app", "ended"} /\ UNCHANGED <<sync, sent>>
    BY <1>6 DEF Launch, StartApp
  <2>2. UNCHANGED configVars
    BY <1>6 DEF Launch
  <2> QED
    BY <2>1, <2>2 DEF ReadAgain, configVars
<1>7. CASE AppEnds
  <2>1. pc = "app" /\ pc' = "ended" /\ UNCHANGED <<sync, sent, starts>> /\ UNCHANGED configVars
    BY <1>7 DEF AppEnds, Exit
  <2> QED
    BY <2>1 DEF ReadAgain, configVars
<1>8. CASE Signalled
  <2>1. pc' \in {pc, "ended"} \/ pc = "paused"
    BY <1>8 DEF Signalled, Signal
  <2>2. sent' = sent + 1 /\ UNCHANGED <<sync, starts>> /\ UNCHANGED configVars
    BY <1>8 DEF Signalled, Signal
  <2> QED
    BY <1>0, <2>1, <2>2 DEF ReadAgain, configVars
<1>9. CASE WriteConfig
  <2>1. altered' = (altered \/ sent > 0)
          /\ UNCHANGED <<env, cwd, again, first, pc, sync, sent, starts>>
    BY <1>9 DEF WriteConfig, processVars, vars
  <2>2. again' => altered'
    BY <2>1 DEF ReadAgain
  <2> QED
    BY <2>1, <2>2 DEF ReadAgain
<1> QED
  BY <1>1, <1>2, <1>3, <1>4, <1>5, <1>6, <1>7, <1>8, <1>9, Zenon DEF WrapperNext, WrapperStep

LEMMA InitWrapperInv == WrapperInit => WrapperInv
<1> SUFFICES ASSUME WrapperInit PROVE WrapperInv
  OBVIOUS
<1>1. scenario \in Scenarios /\ Init /\ BatchInit(scenario.batch)
  BY DEF WrapperInit
<1>2. BatchInv
  BY <1>1, WrapperAssumption, InitBatch
<1>3. GateInv
  BY <1>1, InitGate
<1>4. ReadAgain
  BY DEF WrapperInit, Init, ReadAgain, NoConfig, WorkingDir
<1>5. SearchInv
  BY <1>1, WrapperAssumption DEF WrapperInit, SearchFrom, SearchInv
<1> QED
  BY <1>1, <1>2, <1>3, <1>4, <1>5 DEF WrapperInv

LEMMA NextWrapperInv == WrapperInv /\ [WrapperNext]_wrapperVars => WrapperInv'
<1> SUFFICES ASSUME WrapperInv, [WrapperNext]_wrapperVars PROVE WrapperInv'
  OBVIOUS
<1>1. scenario' = scenario
  BY Zenon
  DEF WrapperNext, WrapperStep, wrapperVars, Start, FirstConfig, ImportDependencies, ImportCrash,
      ImportsDone, GateStep, SecondConfig, Launch, RunBatch, AppEnds, Signalled, WriteConfig
<1>2. GateInv'
  <2>1. CASE UNCHANGED wrapperVars
    BY <2>1, NextGate DEF WrapperInv, wrapperVars, processVars
  <2>2. CASE WrapperNext
    BY <2>2, GateMoves, NextGate, LaunchGate DEF WrapperInv, GateInv
  <2> QED
    BY <2>1, <2>2
<1>3. BatchStep \/ UNCHANGED batchVars
  BY Zenon
  DEF WrapperNext, WrapperStep, wrapperVars, Start, FirstConfig, ImportDependencies, ImportCrash,
      ImportsDone, GateStep, SecondConfig, Launch, RunBatch, AppEnds, Signalled, WriteConfig
<1>4. BatchInv'
  BY <1>3, NextBatch DEF WrapperInv
<1>5. ReadAgain'
  BY NextReadAgain DEF WrapperInv
<1>6. ImportStep \/ UNCHANGED importVars
  BY Zenon
  DEF WrapperNext, WrapperStep, wrapperVars, Start, FirstConfig, ImportDependencies, ImportCrash,
      ImportsDone, GateStep, SecondConfig, Launch, RunBatch, AppEnds, Signalled, WriteConfig,
      ImportStep
<1>7. SearchInv'
  BY <1>6, NextSearchInv DEF WrapperInv
<1> QED
  BY <1>1, <1>2, <1>4, <1>5, <1>7 DEF WrapperInv

(* Every state that the wrapper can reach is described by the invariant. *)
THEOREM WrapperInvariance == WrapperSpec => []WrapperInv
BY InitWrapperInv, NextWrapperInv, PTL DEF WrapperSpec

(* The gate holds for the wrapper with its configuration and its batch: what *)
(* run.json makes of the command line does not open it.                      *)
THEOREM WrapperGateHolds == WrapperSpec => []GateHolds
<1>1. WrapperInv => GateHolds
  BY DEF WrapperInv, GateInv
<1> QED
  BY WrapperInvariance, <1>1, PTL

(* The application gets what run.json says when the process is told to go    *)
(* on, whenever and however often it is written before.                      *)
THEOREM WrapperConfigFresh == WrapperSpec => []ConfigFresh
<1>1. WrapperInv => ConfigFresh
  BY DEF WrapperInv, ReadAgain, ConfigFresh
<1> QED
  BY WrapperInvariance, <1>1, PTL

(* _dep_graph finds the modules within the depth, each once and the nearer   *)
(* ones first, for any graph of imports, in whatever order a source has them. *)
THEOREM WrapperSearchComplete == WrapperSpec => []SearchComplete
<1>1. WrapperInv => SearchComplete
  BY SearchEnds DEF WrapperInv
<1> QED
  BY WrapperInvariance, <1>1, PTL

(* A batch of any packets, decoded by any number of threads, is reported     *)
(* whole or not at all.                                                      *)
THEOREM BatchReported == WrapperSpec => []ReportWhole
<1>1. WrapperInv => ReportWhole
  BY DEF WrapperInv, BatchInv
<1> QED
  BY WrapperInvariance, <1>1, PTL

(* A packet that is well-formed fails only if another one shares a channel.  *)
THEOREM BatchRaises == WrapperSpec => []RaisesOnlyShared
<1>1. WrapperInv => RaisesOnlyShared
  BY DEF WrapperInv, BatchInv
<1> QED
  BY WrapperInvariance, <1>1, PTL

(* No anomaly is counted twice, and none is lost on a channel of one packet. *)
THEOREM BatchCounted == WrapperSpec => []CountsBounded
<1>1. WrapperInv => CountsBounded
  BY BatchCounts DEF WrapperInv
<1> QED
  BY WrapperInvariance, <1>1, PTL
=============================================================================
