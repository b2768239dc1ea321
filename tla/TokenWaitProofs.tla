-------------------------- MODULE TokenWaitProofs --------------------------
(***************************************************************************)
(* Proofs about the wait for the token, for any timeout, cap of the pauses *)
(* and number of other files' events, and however long the waiter is held  *)
(* up.                                                                     *)
(***************************************************************************)
EXTENDS TokenWait, TLAPS

Watched == {"loop", "select", "read"}
Polled == {"poll", "look", "pause", "sleep", "last"}

(* The types, one variable at a time. *)
Flags ==
  /\ token \in BOOLEAN /\ writing \in BOOLEAN /\ watching \in BOOLEAN /\ named \in BOOLEAN
  /\ way \in {"none", "watched", "polled", "broken"}
  /\ wpc \in Places /\ born \in {"none"} \union Places
  /\ result \in {"none", "seen", "timeout", "raised"}

Counts ==
  /\ now \in Nat /\ deadline \in Nat /\ wake \in Nat /\ since \in Nat
  /\ interval \in 1..PollCap
  /\ foreign \in Nat /\ lag \in 0..MaxLag /\ others \in 0..MaxOther

Kinds == Flags /\ Counts

(* How it waits goes with where it is. *)
Ways ==
  /\ wpc \in {"check", "init"} => way = "none"
  /\ wpc \in Watched => way = "watched"
  /\ wpc \in Polled => way \in {"polled", "broken"}
  /\ watching <=> wpc \in Watched
  /\ result # "none" <=> wpc = "done"
  /\ result = "raised" => way = "broken"

(* The deadline is set once, or twice when the wait starts again, and is     *)
(* passed only as lag.                                                       *)
Span == IF way = "broken" THEN 2 * Timeout ELSE Timeout
Timing ==
  /\ since <= now
  /\ way = "none" => now <= lag /\ wake = 0 /\ deadline = 0
  /\ way # "none" => Timeout <= deadline /\ deadline <= Span + lag /\ now <= deadline + lag
  /\ now <= Span + lag /\ wake <= Span + lag
  /\ wpc \in {"select", "sleep"} => wake <= deadline
  /\ result = "timeout" \/ wpc = "last" => now >= deadline /\ way # "none"
  /\ result = "raised" => lag > 0

(* Only the token puts its name into the queue, or ends the wait. *)
Honest ==
  /\ writing => token
  /\ named => token
  /\ SeenMeansCreated

(* A token is never further away than a pause, and lag, from the look that   *)
(* sees it.                                                                  *)
Prompt ==
  way = "polled" =>
    /\ token /\ result \in {"none", "seen"} => now <= since + PollCap + lag
    /\ wpc = "pause" /\ token => now <= since + lag
    /\ wpc = "sleep" => wake <= (IF token THEN since + lag ELSE now) + PollCap

(* A token created under the watch is in the queue until it is read, and     *)
(* until then the waiter is not blocked.                                     *)
Noticed ==
  /\ wpc = "init" /\ token => born = "init"
  /\ wpc \in Watched /\ token /\ born # "init" => named /\ now <= since + lag

IInv ==
  Kinds /\ Ways /\ Timing /\ Honest /\ Prompt /\ Noticed /\ MissOnlyInWindow

-----------------------------------------------------------------------------
(* The invariant holds of a waiter that has not begun. *)
LEMMA InitIInv == Init => IInv
<1> SUFFICES ASSUME Init PROVE IInv
  OBVIOUS
<1> USE DEF Init, Fresh, Watched, Polled, Places
<1>0. Timeout \in Nat /\ PollCap \in Nat /\ PollCap >= 1 /\ MaxOther \in Nat /\ MaxLag \in Nat
  BY TokenWaitAssumption
<1>1. Kinds
  <2>1. token \in BOOLEAN /\ writing \in BOOLEAN /\ watching \in BOOLEAN /\ named \in BOOLEAN
    OBVIOUS
  <2>2. interval \in 1..PollCap /\ others \in 0..MaxOther /\ lag \in 0..MaxLag /\ foreign \in Nat
    BY <1>0
  <2>3. now \in Nat /\ deadline \in Nat /\ wake \in Nat /\ since \in Nat
    OBVIOUS
  <2> QED
    BY <2>1, <2>2, <2>3 DEF Kinds, Flags, Counts
<1>2. Ways /\ Honest /\ Noticed /\ MissOnlyInWindow
  BY DEF Ways, Honest, SeenMeansCreated, Noticed, MissOnlyInWindow
<1>3. Prompt
  BY DEF Prompt
<1>4. Timing
  BY <1>0 DEF Timing, Span
<1> QED
  BY <1>1, <1>2, <1>3, <1>4 DEF IInv

(* Every event of the directory, turn of the waiter and tick keeps the types. *)
LEMMA NextFlags == Flags /\ [Next]_vars => Flags'
<1> SUFFICES ASSUME Flags, [Next]_vars PROVE Flags'
  OBVIOUS
<1> USE DEF Flags, Watched, Polled, Places, file, clock, queue
<1>1. CASE TokenOpened
  BY <1>1 DEF TokenOpened, Report
<1>2. CASE TokenClosed
  BY <1>2 DEF TokenClosed, Report
<1>3. CASE OtherFile
  BY <1>3 DEF OtherFile
<1>4. CASE Check
  <2>1. UNCHANGED <<token, writing, since, born>>
    BY <1>4 DEF Check
  <2>2. CASE Return("seen")
    BY <2>1, <2>2 DEF Return, Unwatch
  <2>3. CASE Goto("init")
    BY <2>1, <2>3 DEF Goto
  <2> QED
    BY <1>4, <2>2, <2>3 DEF Check
<1>5. CASE Watch
  BY <1>5 DEF Watch, StartPoll, Unwatch
<1>6. CASE Loop
  <2>1. UNCHANGED <<token, writing, since, born>>
    BY <1>6 DEF Loop
  <2>2. CASE Return("timeout")
    BY <2>1, <2>2 DEF Return, Unwatch
  <2>3. CASE Goto("select")
    BY <2>1, <2>3 DEF Goto
  <2> QED
    BY <1>6, <2>2, <2>3 DEF Loop
<1>7. CASE Select
  BY <1>7 DEF Select, Goto
<1>8. CASE Read
  <2>1. UNCHANGED <<token, writing, since, born>>
    BY <1>8 DEF Read
  <2>2. CASE Return("seen")
    BY <2>1, <2>2 DEF Return, Unwatch
  <2>3. CASE wpc' = "loop" /\ UNCHANGED <<watching, named, way, result>>
    BY <2>1, <2>3
  <2> QED
    BY <1>8, <2>2, <2>3 DEF Read
<1>9. CASE Break
  BY <1>9 DEF Break, StartPoll, Unwatch
<1>10. CASE Poll
  BY <1>10 DEF Poll, Goto
<1>11. CASE Look
  <2>1. UNCHANGED <<token, writing, since, born>>
    BY <1>11 DEF Look
  <2>2. CASE Return("seen")
    BY <2>1, <2>2 DEF Return, Unwatch
  <2>3. CASE Goto("pause")
    BY <2>1, <2>3 DEF Goto
  <2> QED
    BY <1>11, <2>2, <2>3 DEF Look
<1>12. CASE Pause
  <2>1. UNCHANGED <<token, writing, since, born>>
    BY <1>12 DEF Pause
  <2>2. CASE Goto("sleep")
    BY <2>1, <2>2 DEF Goto
  <2>3. CASE way' = "broken" /\ StartPoll
    BY <2>1, <2>3 DEF StartPoll, Unwatch
  <2>4. CASE Return("raised")
    BY <2>1, <2>4 DEF Return, Unwatch
  <2> QED
    BY <1>12, <2>2, <2>3, <2>4 DEF Pause
<1>13. CASE Sleep
  BY <1>13 DEF Sleep, Goto
<1>14. CASE Last
  BY <1>14 DEF Last, Return, Unwatch
<1>15. CASE Tick
  BY <1>15 DEF Tick, Blocked, Still
<1>16. CASE Delay
  BY <1>16 DEF Delay, Blocked, Still
<1>17. CASE UNCHANGED vars
  BY <1>17 DEF vars
<1> QED
  BY <1>1, <1>2, <1>3, <1>4, <1>5, <1>6, <1>7, <1>8, <1>9, <1>10, <1>11, <1>12,
     <1>13, <1>14, <1>15, <1>16, <1>17
  DEF Next, Waiter

(* Clocks and counters stay natural numbers, within their bounds. *)
LEMMA NextCounts == Counts /\ [Next]_vars => Counts'
<1> SUFFICES ASSUME Counts, [Next]_vars PROVE Counts'
  OBVIOUS
<1>0. Timeout \in Nat /\ Timeout >= 1 /\ PollCap \in Nat /\ PollCap >= 1 /\ MaxOther \in Nat
      /\ MaxLag \in Nat
  BY TokenWaitAssumption
<1> USE <1>0 DEF Counts, file, clock, queue
<1>1. CASE TokenOpened
  BY <1>1 DEF TokenOpened, Report
<1>2. CASE TokenClosed
  BY <1>2 DEF TokenClosed, Report
<1>3. CASE OtherFile
  BY <1>3 DEF OtherFile
<1>4. CASE Check
  BY <1>4 DEF Check, Return, Goto, Unwatch
<1>5. CASE Watch
  BY <1>5 DEF Watch, StartPoll, Unwatch
<1>6. CASE Loop
  BY <1>6 DEF Loop, Return, Goto, Unwatch, Earlier
<1>7. CASE Select
  BY <1>7 DEF Select, Goto
<1>8. CASE Read
  BY <1>8 DEF Read, Return, Unwatch
<1>9. CASE Break
  BY <1>9 DEF Break, StartPoll, Unwatch
<1>10. CASE Poll
  BY <1>10 DEF Poll, Goto
<1>11. CASE Look
  BY <1>11 DEF Look, Return, Goto, Unwatch
<1>12. CASE Pause
  BY <1>12 DEF Pause, Return, Goto, StartPoll, Unwatch, Earlier
<1>13. CASE Sleep
  BY <1>13 DEF Sleep, Goto
<1>14. CASE Last
  BY <1>14 DEF Last, Return, Unwatch
<1>15. CASE Tick
  BY <1>15 DEF Tick, Blocked, Still
<1>16. CASE Delay
  BY <1>16 DEF Delay, Blocked, Still
<1>17. CASE UNCHANGED vars
  BY <1>17 DEF vars
<1> QED
  BY <1>1, <1>2, <1>3, <1>4, <1>5, <1>6, <1>7, <1>8, <1>9, <1>10, <1>11, <1>12,
     <1>13, <1>14, <1>15, <1>16, <1>17
  DEF Next, Waiter

(* There is a watch exactly in the loop of _inotify_wait. *)
LEMMA NextWays == Kinds /\ Ways /\ [Next]_vars => Ways'
<1> SUFFICES ASSUME Kinds, Ways, [Next]_vars PROVE Ways'
  OBVIOUS
<1>0. Timeout \in Nat /\ Timeout >= 1 /\ PollCap \in Nat /\ PollCap >= 1 /\ MaxOther \in Nat
      /\ MaxLag \in Nat
  BY TokenWaitAssumption
<1> USE <1>0 DEF Kinds, Flags, Counts, Ways, Watched, Polled, Places, file, clock, queue
<1>1. CASE TokenOpened
  BY <1>1 DEF TokenOpened, Report
<1>2. CASE TokenClosed
  BY <1>2 DEF TokenClosed, Report
<1>3. CASE OtherFile
  BY <1>3 DEF OtherFile
<1>4. CASE Check
  BY <1>4 DEF Check, Return, Goto, Unwatch
<1>5. CASE Watch
  BY <1>5 DEF Watch, StartPoll, Unwatch
<1>6. CASE Loop
  BY <1>6 DEF Loop, Return, Goto, Unwatch, Earlier
<1>7. CASE Select
  BY <1>7 DEF Select, Goto
<1>8. CASE Read
  BY <1>8 DEF Read, Return, Unwatch
<1>9. CASE Break
  BY <1>9 DEF Break, StartPoll, Unwatch
<1>10. CASE Poll
  BY <1>10 DEF Poll, Goto
<1>11. CASE Look
  BY <1>11 DEF Look, Return, Goto, Unwatch
<1>12. CASE Pause
  BY <1>12 DEF Pause, Return, Goto, StartPoll, Unwatch, Earlier
<1>13. CASE Sleep
  BY <1>13 DEF Sleep, Goto
<1>14. CASE Last
  BY <1>14 DEF Last, Return, Unwatch
<1>15. CASE Tick
  BY <1>15 DEF Tick, Blocked, Still
<1>16. CASE Delay
  BY <1>16 DEF Delay, Blocked, Still
<1>17. CASE UNCHANGED vars
  BY <1>17 DEF vars
<1> QED
  BY <1>1, <1>2, <1>3, <1>4, <1>5, <1>6, <1>7, <1>8, <1>9, <1>10, <1>11, <1>12,
     <1>13, <1>14, <1>15, <1>16, <1>17
  DEF Next, Waiter

(* Beyond the end of a pause, and so beyond the deadline, time passes only as *)
(* lag.                                                                      *)
LEMMA NextTiming == Kinds /\ Ways /\ Timing /\ [Next]_vars => Timing'
<1> SUFFICES ASSUME Kinds, Ways, Timing, [Next]_vars PROVE Timing'
  OBVIOUS
<1>0. Timeout \in Nat /\ Timeout >= 1 /\ PollCap \in Nat /\ PollCap >= 1 /\ MaxOther \in Nat
      /\ MaxLag \in Nat
  BY TokenWaitAssumption
<1> USE <1>0 DEF Kinds, Flags, Counts, Ways, Timing, Span, Watched, Polled, file, clock,
            queue
<1>1. CASE TokenOpened
  BY <1>1 DEF TokenOpened, Report
<1>2. CASE TokenClosed
  BY <1>2 DEF TokenClosed, Report
<1>3. CASE OtherFile
  BY <1>3 DEF OtherFile
<1>4. CASE Check
  BY <1>4 DEF Check, Return, Goto, Unwatch
<1>5. CASE Watch
  BY <1>5 DEF Watch, StartPoll, Unwatch
<1>6. CASE Loop
  <2>1. CASE now >= deadline /\ Return("timeout") /\ UNCHANGED file
    BY <2>1, <1>6 DEF Loop, Return
  <2>2. CASE /\ now < deadline
             /\ Goto("select") /\ wake' = Earlier(deadline, now + 1)
             /\ UNCHANGED <<now, deadline, interval, lag, file>>
    BY <2>2, <1>6 DEF Loop, Goto, Earlier
  <2> QED
    BY <1>6, <2>1, <2>2 DEF Loop
<1>7. CASE Select
  BY <1>7 DEF Select, Goto
<1>8. CASE Read
  BY <1>8 DEF Read, Return, Unwatch
<1>9. CASE Break
  BY <1>9 DEF Break, StartPoll, Unwatch
<1>10. CASE Poll
  BY <1>10 DEF Poll, Goto
<1>11. CASE Look
  BY <1>11 DEF Look, Return, Goto, Unwatch
<1>12. CASE Pause
  BY <1>12 DEF Pause, Return, Goto, StartPoll, Unwatch, Earlier
<1>13. CASE Sleep
  BY <1>13 DEF Sleep, Goto
<1>14. CASE Last
  BY <1>14 DEF Last, Return, Unwatch
<1>15. CASE Tick
  BY <1>15 DEF Tick, Blocked, Still
<1>16. CASE Delay
  BY <1>16 DEF Delay, Blocked, Still
<1>17. CASE UNCHANGED vars
  BY <1>17 DEF vars
<1> QED
  BY <1>1, <1>2, <1>3, <1>4, <1>5, <1>6, <1>7, <1>8, <1>9, <1>10, <1>11, <1>12,
     <1>13, <1>14, <1>15, <1>16, <1>17
  DEF Next, Waiter

(* Only the token's own events bring its name into the queue. *)
LEMMA NextHonest == Flags /\ Honest /\ [Next]_vars => Honest'
<1> SUFFICES ASSUME Flags, Honest, [Next]_vars PROVE Honest'
  OBVIOUS
<1>0. Timeout \in Nat /\ Timeout >= 1 /\ PollCap \in Nat /\ PollCap >= 1 /\ MaxOther \in Nat
      /\ MaxLag \in Nat
  BY TokenWaitAssumption
<1> USE <1>0 DEF Flags, Honest, SeenMeansCreated, file, clock, queue
<1>1. CASE TokenOpened
  BY <1>1 DEF TokenOpened, Report
<1>2. CASE TokenClosed
  BY <1>2 DEF TokenClosed, Report
<1>3. CASE OtherFile
  BY <1>3 DEF OtherFile
<1>4. CASE Check
  BY <1>4 DEF Check, Return, Goto, Unwatch
<1>5. CASE Watch
  BY <1>5 DEF Watch, StartPoll, Unwatch
<1>6. CASE Loop
  BY <1>6 DEF Loop, Return, Goto, Unwatch, Earlier
<1>7. CASE Select
  BY <1>7 DEF Select, Goto
<1>8. CASE Read
  BY <1>8 DEF Read, Return, Unwatch
<1>9. CASE Break
  BY <1>9 DEF Break, StartPoll, Unwatch
<1>10. CASE Poll
  BY <1>10 DEF Poll, Goto
<1>11. CASE Look
  BY <1>11 DEF Look, Return, Goto, Unwatch
<1>12. CASE Pause
  BY <1>12 DEF Pause, Return, Goto, StartPoll, Unwatch, Earlier
<1>13. CASE Sleep
  BY <1>13 DEF Sleep, Goto
<1>14. CASE Last
  BY <1>14 DEF Last, Return, Unwatch
<1>15. CASE Tick
  BY <1>15 DEF Tick, Blocked, Still
<1>16. CASE Delay
  BY <1>16 DEF Delay, Blocked, Still
<1>17. CASE UNCHANGED vars
  BY <1>17 DEF vars
<1> QED
  BY <1>1, <1>2, <1>3, <1>4, <1>5, <1>6, <1>7, <1>8, <1>9, <1>10, <1>11, <1>12,
     <1>13, <1>14, <1>15, <1>16, <1>17
  DEF Next, Waiter

(* A pause that begins without the token is no longer than PollCap. *)
LEMMA NextPrompt ==
  Kinds /\ Ways /\ Timing /\ Honest /\ Prompt /\ [Next]_vars => Prompt'
<1> SUFFICES ASSUME Kinds, Ways, Timing, Honest, Prompt, [Next]_vars PROVE Prompt'
  OBVIOUS
<1>0. Timeout \in Nat /\ Timeout >= 1 /\ PollCap \in Nat /\ PollCap >= 1 /\ MaxOther \in Nat
      /\ MaxLag \in Nat
  BY TokenWaitAssumption
<1> USE <1>0 DEF Kinds, Flags, Counts, Ways, Timing, Span, Honest, SeenMeansCreated,
            Prompt, Watched, Polled, file, clock, queue
<1>1. CASE TokenOpened
  BY <1>1 DEF TokenOpened, Report
<1>2. CASE TokenClosed
  BY <1>2 DEF TokenClosed, Report
<1>3. CASE OtherFile
  BY <1>3 DEF OtherFile
<1>4. CASE Check
  BY <1>4 DEF Check, Return, Goto, Unwatch
<1>5. CASE Watch
  BY <1>5 DEF Watch, StartPoll, Unwatch
<1>6. CASE Loop
  BY <1>6 DEF Loop, Return, Goto, Unwatch, Earlier
<1>7. CASE Select
  BY <1>7 DEF Select, Goto
<1>8. CASE Read
  BY <1>8 DEF Read, Return, Unwatch
<1>9. CASE Break
  BY <1>9 DEF Break, StartPoll, Unwatch
<1>10. CASE Poll
  BY <1>10 DEF Poll, Goto
<1>11. CASE Look
  BY <1>11 DEF Look, Return, Goto, Unwatch
<1>12. CASE Pause
  BY <1>12 DEF Pause, Return, Goto, StartPoll, Unwatch, Earlier
<1>13. CASE Sleep
  BY <1>13 DEF Sleep, Goto
<1>14. CASE Last
  BY <1>14 DEF Last, Return, Unwatch
<1>15. CASE Tick
  BY <1>15 DEF Tick, Blocked, Still
<1>16. CASE Delay
  BY <1>16 DEF Delay, Blocked, Still
<1>17. CASE UNCHANGED vars
  BY <1>17 DEF vars
<1> QED
  BY <1>1, <1>2, <1>3, <1>4, <1>5, <1>6, <1>7, <1>8, <1>9, <1>10, <1>11, <1>12,
     <1>13, <1>14, <1>15, <1>16, <1>17
  DEF Next, Waiter

(* What is created under the watch stays in the queue until Read, and meanwhile *)
(* the waiter is not blocked.                                                *)
LEMMA NextNoticed == Kinds /\ Ways /\ Timing /\ Noticed /\ [Next]_vars => Noticed'
<1> SUFFICES ASSUME Kinds, Ways, Timing, Noticed, [Next]_vars PROVE Noticed'
  OBVIOUS
<1>0. Timeout \in Nat /\ Timeout >= 1 /\ PollCap \in Nat /\ PollCap >= 1 /\ MaxOther \in Nat
      /\ MaxLag \in Nat
  BY TokenWaitAssumption
<1> USE <1>0 DEF Kinds, Flags, Counts, Ways, Timing, Span, Noticed, Watched, Polled,
            file, clock, queue
<1>1. CASE TokenOpened
  BY <1>1 DEF TokenOpened, Report
<1>2. CASE TokenClosed
  BY <1>2 DEF TokenClosed, Report
<1>3. CASE OtherFile
  BY <1>3 DEF OtherFile
<1>4. CASE Check
  BY <1>4 DEF Check, Return, Goto, Unwatch
<1>5. CASE Watch
  BY <1>5 DEF Watch, StartPoll, Unwatch
<1>6. CASE Loop
  BY <1>6 DEF Loop, Return, Goto, Unwatch, Earlier
<1>7. CASE Select
  BY <1>7 DEF Select, Goto
<1>8. CASE Read
  BY <1>8 DEF Read, Return, Unwatch
<1>9. CASE Break
  BY <1>9 DEF Break, StartPoll, Unwatch
<1>10. CASE Poll
  BY <1>10 DEF Poll, Goto
<1>11. CASE Look
  BY <1>11 DEF Look, Return, Goto, Unwatch
<1>12. CASE Pause
  BY <1>12 DEF Pause, Return, Goto, StartPoll, Unwatch, Earlier
<1>13. CASE Sleep
  BY <1>13 DEF Sleep, Goto
<1>14. CASE Last
  BY <1>14 DEF Last, Return, Unwatch
<1>15. CASE Tick
  BY <1>15 DEF Tick, Blocked, Still
<1>16. CASE Delay
  BY <1>16 DEF Delay, Blocked, Still
<1>17. CASE UNCHANGED vars
  BY <1>17 DEF vars
<1> QED
  BY <1>1, <1>2, <1>3, <1>4, <1>5, <1>6, <1>7, <1>8, <1>9, <1>10, <1>11, <1>12,
     <1>13, <1>14, <1>15, <1>16, <1>17
  DEF Next, Waiter

(* At the deadline an unseen token was created before the watch, or what was *)
(* left of the time has been lag.                                            *)
LEMMA NextMissed ==
  Kinds /\ Ways /\ Timing /\ Noticed /\ MissOnlyInWindow /\ [Next]_vars => MissOnlyInWindow'
<1> SUFFICES ASSUME Kinds, Ways, Timing, Noticed, MissOnlyInWindow, [Next]_vars PROVE MissOnlyInWindow'
  OBVIOUS
<1>0. Timeout \in Nat /\ Timeout >= 1 /\ PollCap \in Nat /\ PollCap >= 1 /\ MaxOther \in Nat
      /\ MaxLag \in Nat
  BY TokenWaitAssumption
<1> USE <1>0 DEF Kinds, Flags, Counts, Ways, Timing, Span, Noticed, MissOnlyInWindow,
            Watched, Polled, file, clock, queue
<1>1. CASE TokenOpened
  BY <1>1 DEF TokenOpened, Report
<1>2. CASE TokenClosed
  BY <1>2 DEF TokenClosed, Report
<1>3. CASE OtherFile
  BY <1>3 DEF OtherFile
<1>4. CASE Check
  BY <1>4 DEF Check, Return, Goto, Unwatch
<1>5. CASE Watch
  BY <1>5 DEF Watch, StartPoll, Unwatch
<1>6. CASE Loop
  BY <1>6 DEF Loop, Return, Goto, Unwatch, Earlier
<1>7. CASE Select
  BY <1>7 DEF Select, Goto
<1>8. CASE Read
  BY <1>8 DEF Read, Return, Unwatch
<1>9. CASE Break
  BY <1>9 DEF Break, StartPoll, Unwatch
<1>10. CASE Poll
  BY <1>10 DEF Poll, Goto
<1>11. CASE Look
  BY <1>11 DEF Look, Return, Goto, Unwatch
<1>12. CASE Pause
  BY <1>12 DEF Pause, Return, Goto, StartPoll, Unwatch, Earlier
<1>13. CASE Sleep
  BY <1>13 DEF Sleep, Goto
<1>14. CASE Last
  BY <1>14 DEF Last, Return, Unwatch
<1>15. CASE Tick
  BY <1>15 DEF Tick, Blocked, Still
<1>16. CASE Delay
  BY <1>16 DEF Delay, Blocked, Still
<1>17. CASE UNCHANGED vars
  BY <1>17 DEF vars
<1> QED
  BY <1>1, <1>2, <1>3, <1>4, <1>5, <1>6, <1>7, <1>8, <1>9, <1>10, <1>11, <1>12,
     <1>13, <1>14, <1>15, <1>16, <1>17
  DEF Next, Waiter

(* So every step preserves the invariant. *)
LEMMA NextIInv == IInv /\ [Next]_vars => IInv'
BY NextFlags, NextCounts, NextWays, NextTiming, NextHonest, NextPrompt, NextNoticed, NextMissed
DEF IInv, Kinds

(* Every reachable state is described by the invariant. *)
THEOREM Invariance == Spec => []IInv
BY InitIInv, NextIInv, PTL DEF Spec

(* What the invariant says of the variables is more than their types. *)
LEMMA KindsTypeOK == IInv => TypeOK
<1> SUFFICES ASSUME IInv PROVE TypeOK
  OBVIOUS
<1> USE TokenWaitAssumption DEF IInv, Kinds, Flags, Counts, Timing, Span, Limit
<1>1. {token, writing, watching, named} \subseteq BOOLEAN
  OBVIOUS
<1>2. deadline \in 0..Limit
  OBVIOUS
<1>3. now \in 0..Limit /\ since \in 0..Limit /\ wake \in 0..Limit
  OBVIOUS
<1>4. {now, deadline, wake, since} \subseteq 0..Limit
  BY <1>2, <1>3
<1> QED
  BY <1>1, <1>4 DEF TypeOK

(* Every variable keeps its type, and no clock goes beyond two timeouts and  *)
(* the lag.                                                                  *)
THEOREM TypeCorrect == Spec => []TypeOK
BY Invariance, KindsTypeOK, PTL

(* _wait_token answers True only when the token itself has been created,     *)
(* whatever else is written into its directory.                              *)
THEOREM SeenIsCreated == Spec => []SeenMeansCreated
<1>1. IInv => SeenMeansCreated
  BY DEF IInv, Honest
<1> QED
  BY Invariance, <1>1, PTL

(* The wait never says False before Timeout, and lasts no longer than that,  *)
(* or twice that if it started again, but for what the waiter was held up;   *)
(* it raises an exception only then; a polled token is seen after a pause at *)
(* most.                                                                     *)
THEOREM EndsInTime == Spec => []InTime
<1>1. IInv => InTime
  <2> SUFFICES ASSUME IInv PROVE InTime
    OBVIOUS
  <2> USE TokenWaitAssumption DEF IInv, Kinds, Flags, Counts, Timing, Span
  <2>1. result = "timeout" => now >= Timeout
    OBVIOUS
  <2>2. now <= (IF way = "broken" THEN 2 * Timeout ELSE Timeout) + lag
    OBVIOUS
  <2>3. result = "raised" => (way = "broken" /\ lag > 0)
    BY DEF Ways
  <2>4. (result = "seen" /\ way = "polled") => now <= since + PollCap + lag
    BY DEF Honest, SeenMeansCreated, Prompt
  <2> QED
    BY <2>1, <2>2, <2>3, <2>4 DEF InTime
<1> QED
  BY Invariance, <1>1, PTL

(* A token is missed only when it was created between the first look and     *)
(* add_watch, or when the waiter was held up under the watch from then on.   *)
THEOREM MissedInWindow == Spec => []MissOnlyInWindow
<1>1. IInv => MissOnlyInWindow
  BY DEF IInv
<1> QED
  BY Invariance, <1>1, PTL
=============================================================================
