------------------------------- MODULE Record -------------------------------
(***************************************************************************)
(* The access recorder of monitor.py: record_inotify runs inotifywait over *)
(* the bundle, waits for its watches, runs the restore command, stops the  *)
(* watcher and makes the two tiers of the sequence from its log;           *)
(* record_access_sequence runs the command under strace; record_from_log   *)
(* takes a log that is there already.                                      *)
(*                                                                         *)
(* The watcher sets its watches one directory after the other, and only    *)
(* then reads events and writes lines; the kernel queues the events of the *)
(* directories watched so far, QueueMax at most.  strace writes a line for *)
(* each call of the command's processes, or two halves of a line if        *)
(* another call comes in between.  The restored tasks, and others, open,   *)
(* create and remove files at any time, also while the recorder walks      *)
(* through the bundle to make the second tier.  Files are numbers, in the  *)
(* order in which sorted() puts their paths; each path is spelled in one   *)
(* way.  The tasks make no directories.                                    *)
(***************************************************************************)
EXTENDS Integers, Sequences, FiniteSets, SequencesExt

CONSTANTS
  Files,     \* files of the bundle, also those that do not exist at first
  Dirs,      \* its directories
  DirOf,     \* the directory of each file
  QueueMax,  \* max_queued_events
  MaxOpens   \* bound on the opens

ASSUME RecordAssumption ==
  /\ Files \subseteq Nat \ {0} /\ IsFiniteSet(Files)
  /\ IsFiniteSet(Dirs) /\ DirOf \in [Files -> Dirs]
  /\ QueueMax \in Nat \ {0} /\ MaxOpens \in Nat

VARIABLES
  tracer,     \* "inotify", "strace", or "log" if one is given
  step,       \* where the recorder is
  confirmed,  \* _await_watches has seen "established"
  tierA, tierB,
  unlisted,   \* the paths rglob has not come to yet
  found,      \* those it has listed and _all_files has not looked at
  watcher,    \* inotifywait: "none", "setup", "watching" or "dead"
  established, \* it has written "Watches established."
  watched,    \* the directories it has a watch on
  queue,      \* its events: files, and 0 for a directory that was opened
  log,        \* the lines of the log: files, and 0 for a line that names none
  present,    \* the files there are
  opens,      \* history: the files opened since the command was started, each
              \* where it was opened first
  early,      \* history: the files opened before
  overflow,   \* history: an event was dropped
  traced,     \* history: the files the command's processes opened or tried to execute,
              \* each where it was the first time
  split,      \* history: a line of strace was split
  stayed,     \* history: the files there have been since the walk began
  count       \* bound on the opens

walk == <<unlisted, found>>
recorder == <<tracer, step, confirmed, tierA, tierB, walk>>
inotify == <<watcher, established, watched, queue, log, overflow>>
tasks == <<present, opens, early, count, traced, split, stayed>>
vars == <<recorder, inotify, tasks>>

Over == {"done", "failed"}
Steps == {"spawn", "await", "run", "wait", "settle", "parse", "list", "look"} \union Over

Listed(s) == {s[i] : i \in 1..Len(s)}

(* f is in s, before g is for the first time, if ever. *)
Before(s, f, g) == \E i \in 1..Len(s) : s[i] = f /\ \A j \in 1..i : s[j] # g

TypeOK ==
  /\ tracer \in {"inotify", "strace", "log"} /\ step \in Steps /\ confirmed \in BOOLEAN
  /\ tierA \in Seq(Files) /\ tierB \in Seq(Files)
  /\ {unlisted, found, stayed} \subseteq SUBSET Files
  /\ watcher \in {"none", "setup", "watching", "dead"} /\ watched \subseteq Dirs
  /\ established \in BOOLEAN
  /\ queue \in Seq(Files \union {0}) /\ Len(queue) <= QueueMax
  /\ log \in Seq(Files \union {0}) /\ overflow \in BOOLEAN
  /\ {present, early} \subseteq SUBSET Files /\ {opens, traced} \subseteq Seq(Files)
  /\ split \in BOOLEAN /\ count \in 0..MaxOpens

Init ==
  /\ confirmed = FALSE /\ tierA = <<>> /\ tierB = <<>>
  /\ unlisted = {} /\ found = {} /\ stayed = {}
  /\ \/ tracer \in {"inotify", "strace"} /\ step = "spawn" /\ log = <<>>
     \/ tracer = "log" /\ step = "parse"
        /\ log \in UNION {[1..n -> Files \union {0}] : n \in 0..MaxOpens}
  /\ watcher = "none" /\ watched = {} /\ queue = <<>>
  /\ established = FALSE
  /\ overflow = FALSE
  /\ present \in SUBSET Files /\ opens = <<>> /\ early = {} /\ count = 0
  /\ traced = <<>> /\ split = FALSE

-----------------------------------------------------------------------------
(* inotifywait and the kernel.                                             *)

AddWatch(d) ==
  /\ watcher = "setup"
  /\ watched' = watched \union {d}
  /\ UNCHANGED <<recorder, tasks, watcher, established, queue, log, overflow>>

Establish ==
  /\ watcher = "setup" /\ watched = Dirs
  /\ watcher' = "watching" /\ established' = TRUE
  /\ UNCHANGED <<recorder, tasks, watched, queue, log, overflow>>

WriteLine ==
  /\ watcher = "watching" /\ queue # <<>>
  /\ log' = Append(log, Head(queue)) /\ queue' = Tail(queue)
  /\ UNCHANGED <<recorder, tasks, watcher, established, watched, overflow>>

Died == watcher' = "dead" /\ watched' = {} /\ queue' = <<>>

(* It meets a limit on watches, say, or is killed. *)
WatcherDies ==
  /\ watcher \in {"setup", "watching"} /\ Died
  /\ UNCHANGED <<recorder, tasks, established, log, overflow>>

Event(d, e) ==
  /\ queue' = IF d \in watched /\ Len(queue) < QueueMax THEN Append(queue, e) ELSE queue
  /\ overflow' = (overflow \/ (d \in watched /\ Len(queue) >= QueueMax))
  /\ UNCHANGED <<watcher, established, watched>>

-----------------------------------------------------------------------------
(* The tasks that use the bundle. *)

Started == step \notin {"spawn", "await", "run"}

Counted == step \notin Over /\ count < MaxOpens /\ count' = count + 1

Once(s, f) == IF Contains(s, f) THEN s ELSE Append(s, f)

Traced == tracer = "strace" /\ step = "wait"

Untraced == UNCHANGED <<log, traced, split>>

(* A plausible bug: a call that has failed is taken as well. *)
Line_AnyResult(f, call, succeeds) == f

(* What parse_strace_log sees in a line: an open only if it succeeds. *)
Line(f, call, succeeds) == IF succeeds \/ call = "execve" THEN f ELSE 0

(* A line in two halves matches nothing. *)
Strace(f, call, succeeds) ==
  /\ Traced
  /\ traced' = IF succeeds \/ call = "execve" THEN Once(traced, f) ELSE traced
  /\ \/ log' = Append(log, Line(f, call, succeeds)) /\ UNCHANGED split
     \/ split' = TRUE /\ UNCHANGED log

(* The open of a file creates it, or it is there. *)
Open(f) ==
  /\ Counted
  /\ present' = present \union {f}
  /\ IF Started THEN opens' = Once(opens, f) /\ UNCHANGED early
     ELSE early' = early \union {f} /\ UNCHANGED opens
  /\ Event(DirOf[f], f)
  /\ Strace(f, "open", TRUE) \/ Untraced
  /\ UNCHANGED <<recorder, stayed>>

OpenDir(d) ==
  /\ Counted /\ Event(d, 0) /\ Untraced
  /\ UNCHANGED <<recorder, present, opens, early, stayed>>

(* A search along a path tries to open or execute what is not there. *)
Try(f) ==
  /\ Counted /\ f \notin present
  /\ \E call \in {"open", "execve"} : Strace(f, call, FALSE)
  /\ UNCHANGED <<recorder, present, opens, early, stayed>>
  /\ UNCHANGED <<watcher, established, watched, queue, overflow>>

Unlink(f) ==
  /\ step \notin Over /\ f \in present
  /\ present' = present \ {f} /\ stayed' = stayed \ {f}
  /\ UNCHANGED <<recorder, inotify, opens, early, count, traced, split>>

-----------------------------------------------------------------------------
(* record_inotify, record_access_sequence and record_from_log *)

Goto(s) == step' = s /\ UNCHANGED <<tracer, tierA, tierB, walk>>

(* Popen; the program may be missing. *)
Spawn ==
  /\ step = "spawn" /\ tracer = "inotify"
  /\ \/ watcher' = "setup" /\ Goto("await")
     \/ UNCHANGED watcher /\ Goto("failed")
  /\ UNCHANGED <<confirmed, established, watched, queue, log, overflow, tasks>>

(* strace runs the command, and is missed if it is missing. *)
Trace ==
  /\ step = "spawn" /\ tracer = "strace"
  /\ Goto("wait") \/ Goto("failed")
  /\ UNCHANGED <<confirmed, inotify, tasks>>

(* A plausible bug: its first line, "Setting up watches", is taken for the   *)
(* confirmation.                                                             *)
Await_FirstLine ==
  /\ step = "await"
  /\ confirmed' = TRUE /\ Goto("run")
  /\ UNCHANGED <<inotify, tasks>>

(* A plausible bug: no deadline. *)
Await_ForEver ==
  /\ step = "await"
  /\ established /\ confirmed' = TRUE
  /\ Goto("run")
  /\ UNCHANGED <<inotify, tasks>>

(* _await_watches looks at the file every 0.2 s, not at the process, and     *)
(* goes on without the confirmation at the deadline.                         *)
Await ==
  /\ step = "await"
  /\ \/ established /\ confirmed' = TRUE
     \/ UNCHANGED confirmed
  /\ Goto("run")
  /\ UNCHANGED <<inotify, tasks>>

(* The watcher is stopped, whatever happens. *)
Run ==
  /\ step = "run"
  /\ \/ Goto("wait") /\ UNCHANGED inotify
     \/ Goto("failed") /\ Died /\ UNCHANGED <<established, log, overflow>>
  /\ UNCHANGED <<confirmed, tasks>>

(* The command, or strace, returns anything or is killed at its timeout.     *)
(* What it has restored goes on.                                             *)
Wait ==
  /\ step = "wait" /\ Goto(IF tracer = "strace" THEN "parse" ELSE "settle")
  /\ UNCHANGED <<confirmed, inotify, tasks>>

(* After another second the watcher is terminated, with what is still queued. *)
Settle ==
  /\ step = "settle" /\ Goto("parse") /\ Died
  /\ UNCHANGED <<confirmed, established, log, overflow, tasks>>

(* A plausible bug: directories are not skipped. *)
FirstOf_Dirs(s) ==
  {t \in SetToSeqs(Listed(s)) : \A i, j \in 1..Len(t) : i < j => Before(s, t[i], t[j])}

(* The files of a log, each once, in the order of their first lines; ISDIR   *)
(* is skipped.                                                               *)
FirstOf(s) ==
  {t \in SetToSeqs(Listed(s) \ {0}) : \A i, j \in 1..Len(t) : i < j => Before(s, t[i], t[j])}

(* A given log may be taken for the other format, in which it names nothing. *)
Parse ==
  /\ step = "parse"
  /\ tierA' \in FirstOf(log) \/ (tracer = "log" /\ tierA' = <<>>)
  /\ step' = "list" /\ unlisted' = Files /\ stayed' = present
  /\ UNCHANGED <<tracer, confirmed, tierB, found, inotify>>
  /\ UNCHANGED <<present, opens, early, count, traced, split>>

(* _all_files: rglob lists directory after directory, and each name is there *)
(* or not when it comes to it.  A directory that is gone by then raises.     *)
List ==
  /\ step = "list"
  /\ \/ /\ \E f \in unlisted :
             unlisted' = unlisted \ {f} /\ found' = found \union ({f} \intersect present)
        /\ UNCHANGED <<tracer, step, tierA, tierB>>
     \/ unlisted = {} /\ Goto("look")
     \/ unlisted # {} /\ Goto("failed")
  /\ UNCHANGED <<confirmed, inotify, tasks>>

(* A plausible bug: the second tier has all files that are there. *)
Look_All ==
  /\ step = "look"
  /\ \/ \E f \in found :
          /\ \A g \in found : f <= g
          /\ found' = found \ {f}
          /\ tierB' = IF f \in present THEN Append(tierB, f) ELSE tierB
          /\ UNCHANGED <<tracer, step, tierA, unlisted>>
     \/ found = {} /\ Goto("done")
  /\ UNCHANGED <<confirmed, inotify, tasks>>

(* What has been listed is looked at in order.  The files that are there     *)
(* then, and are not in the first tier, are the second (_tier).              *)
Look ==
  /\ step = "look"
  /\ \/ \E f \in found :
          /\ \A g \in found : f <= g
          /\ found' = found \ {f}
          /\ tierB' = IF f \in present \ Listed(tierA) THEN Append(tierB, f) ELSE tierB
          /\ UNCHANGED <<tracer, step, tierA, unlisted>>
     \/ found = {} /\ Goto("done")
  /\ UNCHANGED <<confirmed, inotify, tasks>>

Recorder == Spawn \/ Trace \/ Await \/ Run \/ Wait \/ Settle \/ Parse \/ List \/ Look

Next ==
  \/ Recorder
  \/ \E d \in Dirs : AddWatch(d) \/ OpenDir(d)
  \/ Establish \/ WriteLine \/ WatcherDies
  \/ \E f \in Files : Open(f) \/ Try(f) \/ Unlink(f)

(* Every wait of the recorder has a timeout; nothing is assumed of the       *)
(* watcher.                                                                *)
Spec == Init /\ [][Next]_vars /\ WF_vars(Recorder)

-----------------------------------------------------------------------------
(* Properties *)

(* With its watches confirmed and no event dropped, the first tier is the    *)
(* order of the first opens since the restore began: a file of it that       *)
(* nobody had opened before was opened, and so was each one before it; only  *)
(* at the end, where the watcher is stopped, opens may be missing.           *)
OrderOfOpens ==
  tracer = "inotify" /\ step = "done" /\ confirmed /\ ~overflow =>
    \A f \in Listed(tierA) \ early :
      /\ f \in Listed(opens)
      /\ \A g \in Listed(opens) \ early : Before(opens, g, f) => Before(tierA, g, f)

(* Under strace, the first tier is what the processes of the command opened  *)
(* or tried to execute, each file once and in order, and not what others     *)
(* opened; only if lines were split some may be out of place or missing.     *)
TracedOpens ==
  tracer = "strace" /\ step = "done" =>
    /\ Listed(tierA) \subseteq Listed(traced)
    /\ ~split => tierA = traced

(* Whatever the watcher or strace has missed, and whatever is created and    *)
(* removed while the log and the walk are made, a file that is there from    *)
(* the beginning of the walk to its end is in the sequence, and no path is   *)
(* in it twice.  (A file that is created during the walk may be in neither   *)
(* tier, one that is removed in either.)                                     *)
EachOnce ==
  step = "done" =>
    /\ stayed \subseteq Listed(tierA \o tierB)
    /\ IsInjective(tierA \o tierB)

(* The recording ends, also when inotifywait never gets ready. *)
RecordEnds == <>(step \in Over)
=============================================================================
