----------------------------- MODULE TokenWait -----------------------------
(***************************************************************************)
(* _wait_token of satecode/monitor.py: the host waits for the token file   *)
(* of a seeded process, by inotify or by polling, until a timeout.         *)
(*                                                                         *)
(* Time is a number of ticks.  It passes while the waiter is blocked in    *)
(* select() or sleep(), until an event or the end of its wait, and, as     *)
(* lag, anywhere else: between a look at the clock and the use of what it  *)
(* said, in particular.  The file may be created at any moment; other      *)
(* files of its directory may be written too.  Seed composes these actions *)
(* with the process that creates the file.                                 *)
(***************************************************************************)
EXTENDS Naturals

CONSTANTS
  Timeout,  \* in ticks
  PollCap,  \* longest pause of _poll_wait, in ticks
  MaxOther, \* bound on the events of other files
  MaxLag    \* bound on the ticks that pass while the waiter is not blocked

ASSUME TokenWaitAssumption ==
  /\ Timeout \in Nat \ {0} /\ PollCap \in Nat \ {0}
  /\ MaxOther \in Nat /\ MaxLag \in Nat

VARIABLES
  token,     \* does the file exist?
  writing,   \* is it open for writing?
  wpc,       \* where the waiter is
  watching,  \* is there an inotify watch on the directory?
  named,     \* is there an event of the token's name in the inotify queue?
  foreign,   \* events of other names in it
  way,       \* history: how it waits; "broken" is polling after an exception
  now, deadline, wake, interval,
  others,    \* events of other files so far
  lag,       \* history: ticks that passed while it was not blocked
  result,    \* "none", "seen" (True), "timeout" (False), "raised" (ValueError)
  since,     \* history: when the file was created
  born       \* history: where the waiter was then

file == <<token, writing, since, born>>
clock == <<now, deadline, wake, interval, lag>>
queue == <<watching, named, foreign>>
vars == <<file, clock, queue, wpc, way, others, result>>

Places == {"check", "init", "loop", "select", "read", "poll", "look", "pause",
           "sleep", "last", "done"}
Limit == 2 * Timeout + MaxLag  \* see InTime

TypeOK ==
  /\ {token, writing, watching, named} \subseteq BOOLEAN
  /\ way \in {"none", "watched", "polled", "broken"}
  /\ wpc \in Places /\ born \in {"none"} \union Places
  /\ foreign \in Nat
  /\ {now, deadline, wake, since} \subseteq 0..Limit
  /\ interval \in 1..PollCap
  /\ lag \in 0..MaxLag /\ others \in 0..MaxOther
  /\ result \in {"none", "seen", "timeout", "raised"}

(* A waiter that has not begun. *)
Fresh ==
  /\ wpc = "check" /\ watching = FALSE /\ named = FALSE /\ foreign = 0
  /\ way = "none" /\ result = "none" /\ since = 0 /\ born = "none"
  /\ now = 0 /\ deadline = 0 /\ wake = 0 /\ interval = 1 /\ lag = 0

(* A token that is there before the wait begins counts as just created. *)
Init == Fresh /\ others = 0 /\ token \in BOOLEAN /\ writing = FALSE

-----------------------------------------------------------------------------
(* The directory, as the kernel sees it: a watch reports IN_CREATE and       *)
(* IN_CLOSE_WRITE.                                                          *)

Report == named' = (named \/ watching) /\ UNCHANGED <<watching, foreign>>

TokenOpened ==
  /\ ~token
  /\ token' = TRUE /\ writing' = TRUE
  /\ since' = now /\ born' = wpc
  /\ Report
  /\ UNCHANGED <<clock, wpc, way, others, result>>

TokenClosed ==
  /\ writing
  /\ writing' = FALSE
  /\ Report
  /\ UNCHANGED <<clock, token, since, born, wpc, way, others, result>>

OtherFile ==
  /\ watching /\ others < MaxOther
  /\ others' = others + 1 /\ foreign' = foreign + 1
  /\ UNCHANGED <<file, clock, wpc, watching, named, way, result>>

-----------------------------------------------------------------------------
(* The waiter. *)

Earlier(a, b) == IF a < b THEN a ELSE b

Goto(place) == wpc' = place /\ UNCHANGED <<queue, way, others, result>>

(* Both ways out of _inotify_wait close the descriptor, and with it the watch. *)
Unwatch == watching' = FALSE /\ named' = FALSE /\ foreign' = 0

Return(r) ==
  /\ wpc' = "done" /\ result' = r
  /\ Unwatch
  /\ UNCHANGED <<clock, way, others>>

StartPoll ==
  /\ wpc' = "poll"
  /\ Unwatch
  /\ deadline' = now + Timeout /\ interval' = 1
  /\ UNCHANGED <<now, wake, lag, others, result>>

Check ==
  /\ wpc = "check"
  /\ \/ token /\ Return("seen")
     \/ ~token /\ Goto("init") /\ UNCHANGED clock
  /\ UNCHANGED file

(* Without libc, inotify_init1 or add_watch there is the polling loop. *)
Watch ==
  /\ wpc = "init"
  /\ \/ /\ wpc' = "loop" /\ watching' = TRUE /\ way' = "watched"
        /\ deadline' = now + Timeout
        /\ UNCHANGED <<now, wake, interval, lag, named, foreign, others, result>>
     \/ StartPoll /\ way' = "polled"
  /\ UNCHANGED file

(* A plausible bug: the last instant is not yet the end. *)
Loop_OffByOne ==
  /\ wpc = "loop"
  /\ \/ now > deadline /\ Return("timeout")
     \/ /\ now <= deadline
        /\ Goto("select") /\ wake' = Earlier(deadline, now + 1)
        /\ UNCHANGED <<now, deadline, interval, lag>>
  /\ UNCHANGED file

Loop ==
  /\ wpc = "loop"
  /\ \/ now >= deadline /\ Return("timeout")
     \/ /\ now < deadline
        /\ Goto("select") /\ wake' = Earlier(deadline, now + 1)
        /\ UNCHANGED <<now, deadline, interval, lag>>
  /\ UNCHANGED file

Select ==
  /\ wpc = "select"
  /\ \/ (named \/ foreign > 0) /\ Goto("read")
     \/ ~named /\ foreign = 0 /\ now >= wake /\ Goto("loop")
  /\ UNCHANGED <<file, clock>>

(* A plausible bug: any event of the directory is taken for the token. *)
Read_AnyName ==
  /\ wpc = "read"
  /\ Return("seen")
  /\ UNCHANGED file

(* What a buffer holds is read, at most, and only the token's name counts;   *)
(* the order of the events in the queue is left open.                       *)
Read ==
  /\ wpc = "read"
  /\ \/ named /\ Return("seen")
     \/ /\ \E n \in 1..foreign : foreign' = foreign - n
        /\ wpc' = "loop"
        /\ UNCHANGED <<clock, watching, named, way, others, result>>
  /\ UNCHANGED file

(* The set-up, select or read raises: _wait_token starts all over, by        *)
(* polling.                                                                 *)
Break ==
  /\ wpc \in {"init", "select", "read"}
  /\ way' = "broken"
  /\ StartPoll
  /\ UNCHANGED file

(* The loop of _poll_wait: its condition, a look at the file, a pause. *)
Poll ==
  /\ wpc = "poll"
  /\ Goto(IF now < deadline THEN "look" ELSE "last")
  /\ UNCHANGED <<file, clock>>

Look ==
  /\ wpc = "look"
  /\ \/ token /\ Return("seen")
     \/ ~token /\ Goto("pause") /\ UNCHANGED clock
  /\ UNCHANGED file

(* A plausible bug: the pause is not cut short at the deadline. *)
Pause_NoCap ==
  /\ wpc = "pause"
  /\ Goto("sleep")
  /\ wake' = now + interval /\ interval' = Earlier(PollCap, interval + 1)
  /\ UNCHANGED <<now, deadline, lag, file>>

(* The pauses grow; one that begins never ends after the deadline.  Once the *)
(* deadline is over, sleep is given a negative time and raises: _wait_token  *)
(* starts again, by polling, unless it is polling for that reason already.   *)
Pause ==
  /\ wpc = "pause"
  /\ \/ /\ now <= deadline
        /\ Goto("sleep")
        /\ wake' = Earlier(deadline, now + interval)
        /\ interval' = Earlier(PollCap, interval + 1)
        /\ UNCHANGED <<now, deadline, lag>>
     \/ now > deadline /\ way = "polled" /\ way' = "broken" /\ StartPoll
     \/ now > deadline /\ way = "broken" /\ Return("raised")
  /\ UNCHANGED file

Sleep ==
  /\ wpc = "sleep" /\ now >= wake
  /\ Goto("poll")
  /\ UNCHANGED <<file, clock>>

(* A plausible bug: the loop is left without another look. *)
Last_NoLook ==
  /\ wpc = "last"
  /\ Return("timeout")
  /\ UNCHANGED file

Last ==
  /\ wpc = "last"
  /\ Return(IF token THEN "seen" ELSE "timeout")
  /\ UNCHANGED file

Waiter ==
  \/ Check \/ Watch \/ Loop \/ Select \/ Read \/ Break
  \/ Poll \/ Look \/ Pause \/ Sleep \/ Last

-----------------------------------------------------------------------------
(* Time. *)

Blocked ==
  now < wake /\ (wpc = "sleep" \/ (wpc = "select" /\ ~named /\ foreign = 0))

Still == UNCHANGED <<file, queue, deadline, wake, interval, wpc, way, others, result>>

Tick == Blocked /\ now' = now + 1 /\ UNCHANGED lag /\ Still

(* The waiter is not scheduled, or a call it makes takes its time. *)
Delay ==
  /\ ~Blocked /\ wpc # "done" /\ lag < MaxLag
  /\ now' = now + 1 /\ lag' = lag + 1
  /\ Still

Next == TokenOpened \/ TokenClosed \/ OtherFile \/ Waiter \/ Tick \/ Delay

(* Time passes, and the waiter is scheduled when it has something to do. *)
Spec == Init /\ [][Next]_vars /\ WF_vars(Waiter) /\ WF_vars(Tick)

-----------------------------------------------------------------------------
(* Properties *)

(* True means that the token itself was created: events of the directory's   *)
(* other files (with /tmp, anybody's) do not count.                          *)
SeenMeansCreated == result = "seen" => token

(* False never comes before Timeout.  The wait is over at Timeout, or twice  *)
(* that if an exception made it start again (one of _inotify_wait, or of a   *)
(* negative sleep), late by no more than what the waiter was held up; only   *)
(* a second polling that was held up ends in an exception.  A polled token   *)
(* is seen after one pause at most, although the pauses grow.                *)
InTime ==
  /\ result = "timeout" => now >= Timeout
  /\ now <= (IF way = "broken" THEN 2 * Timeout ELSE Timeout) + lag
  /\ result = "raised" => (way = "broken" /\ lag > 0)
  /\ (result = "seen" /\ way = "polled") => now <= since + PollCap + lag

(* A token that was written before the deadline is not missed.  Not true:    *)
(* see MissOnlyInWindow.                                                     *)
NoTokenMissed == (result = "timeout" /\ token /\ ~writing) => since >= deadline

(* The only tokens missed before the deadline are those created between the  *)
(* first look at the file and add_watch (no later look makes up for them),   *)
(* or under the watch, when all that was left of the time went by with the   *)
(* waiter held up.  Polling, from the beginning or after an exception,       *)
(* misses none.                                                              *)
MissOnlyInWindow ==
  (result = "timeout" /\ token /\ since < deadline) =>
    way = "watched" /\ (born = "init" \/ deadline - since <= lag)

(* The wait ends. *)
Ends == <>(result # "none")
=============================================================================
