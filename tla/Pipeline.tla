------------------------------ MODULE Pipeline ------------------------------
(***************************************************************************)
(* The stages of deployment/: seed.sh, record.sh, build.sh and emit.sh, and *)
(* the subcommands of satecode they run.  They hand over files only, and   *)
(* check only that these exist.  Every artifact carries here what it was   *)
(* made of: the number of the seed, of the image, or 0 for what is missing *)
(* or incomplete.                                                          *)
(*                                                                         *)
(* The operator may run any stage at any time; a stage may fail, or be     *)
(* killed, at each of its steps, and leaves what it has written so far.    *)
(* The prerequisites of a stage (its tools, root) only keep it from        *)
(* starting and are left out.                                              *)
(***************************************************************************)
EXTENDS Naturals

CONSTANT MaxRuns  \* bound on the runs of stages

ASSUME PipelineAssumption == MaxRuns \in Nat

VARIABLES
  stage,    \* the stage that is running, or "none"
  step,     \* where it is
  bundle,   \* $BUNDLE: is it there; the seeds its root file system and snapshot are of
  replay,   \* the container of record.sh: none, one restored by the command that is
            \* traced, or one left by an earlier run
  seq,      \* $SEQ: is it there; the seed it was recorded of; is it complete;
            \* was a restore traced?
  image,    \* $IMAGE: its number, the seed in it, the sequence it was ordered by
  meta,     \* $META: is it there; the image it is of
  out,      \* $OUT: the images the unit and launch.sh are for; is the primer there?
  seeds, images, runs,
  progress  \* history: how many stages, in their order, have succeeded since
            \* the last run of an earlier one

files == <<bundle, seq, image, meta, out>>
counts == <<seeds, images>>
vars == <<stage, step, files, replay, counts, runs, progress>>

Stages == {"seed", "record", "build", "emit"}
Place == [seed |-> 1, record |-> 2, build |-> 3, emit |-> 4]

StepsOf ==
  [none   |-> {"none"},
   seed   |-> {"clear", "export", "checkpoint"},
   record |-> {"delete", "trace", "open", "write", "undo"},
   build  |-> {"mkfs", "meta"},
   emit   |-> {"read", "unit", "launcher", "compile"}]

NoSeq == [there |-> FALSE, seed |-> 0, whole |-> FALSE, traced |-> FALSE]

TypeOK ==
  /\ stage \in {"none"} \union Stages /\ step \in StepsOf[stage]
  /\ bundle \in [there : BOOLEAN, rootfs : 0..seeds, snapshot : 0..seeds]
  /\ replay \in {"none", "traced", "left"}
  /\ seq \in [there : BOOLEAN, seed : 0..seeds, whole : BOOLEAN, traced : BOOLEAN]
  /\ image \in [number : 0..images, rootfs : 0..seeds, snapshot : 0..seeds,
                order : 0..seeds, complete : BOOLEAN]
  /\ meta \in [there : BOOLEAN, number : 0..images]
  /\ out \in [unit : 0..images, launcher : 0..images, primer : BOOLEAN]
  /\ {seeds, images} \subseteq Nat /\ runs \in 0..MaxRuns
  /\ progress \in 0..4

Init ==
  /\ stage = "none" /\ step = "none"
  /\ bundle = [there |-> FALSE, rootfs |-> 0, snapshot |-> 0]
  /\ replay = "none" /\ seq = NoSeq
  /\ image = [number |-> 0, rootfs |-> 0, snapshot |-> 0, order |-> 0, complete |-> FALSE]
  /\ meta = [there |-> FALSE, number |-> 0]
  /\ out = [unit |-> 0, launcher |-> 0, primer |-> FALSE]
  /\ seeds = 0 /\ images = 0 /\ runs = 0 /\ progress = 0

-----------------------------------------------------------------------------
(* The operator, and set -eu. *)

Lower(a, b) == IF a < b THEN a ELSE b

(* What the stage finds of the one before it. *)
Found(s) ==
  CASE s = "seed"   -> TRUE
    [] s = "record" -> bundle.there
    [] s = "build"  -> bundle.there /\ seq.there
    [] s = "emit"   -> meta.there

First == [seed |-> "clear", record |-> "delete", build |-> "mkfs", emit |-> "read"]

(* A stage that stops because something is missing changes nothing.          *)
Start(s) ==
  /\ stage = "none" /\ runs < MaxRuns /\ Found(s)
  /\ stage' = s /\ step' = First[s]
  /\ runs' = runs + 1 /\ progress' = Lower(progress, Place[s] - 1)
  /\ UNCHANGED <<files, replay, counts>>

Goto(s) == step' = s /\ UNCHANGED <<stage, runs, progress>>

Failed == stage' = "none" /\ step' = "none" /\ UNCHANGED <<runs, progress>>

(* The last step of a stage; in order, it brings the operator forward. *)
Succeeded ==
  /\ stage' = "none" /\ step' = "none"
  /\ progress' = IF progress = Place[stage] - 1 THEN Place[stage] ELSE progress
  /\ UNCHANGED runs

-----------------------------------------------------------------------------
(* seed.sh *)

(* A plausible bug: the bundle of an earlier seed is not removed. *)
Clear_Kept ==
  /\ step = "clear"
  /\ Goto("export")
  /\ UNCHANGED <<files, replay, counts>>

(* rm -rf $BUNDLE; $SEQ stays. *)
Clear ==
  /\ step = "clear"
  /\ bundle' = [there |-> FALSE, rootfs |-> 0, snapshot |-> 0]
  /\ Goto("export")
  /\ UNCHANGED <<seq, image, meta, out, replay, counts>>

(* Up to runc run; every failure leaves what has been written. *)
Export ==
  /\ step = "export"
  /\ seeds' = seeds + 1
  /\ \/ bundle' = [bundle EXCEPT !.there = TRUE, !.rootfs = seeds'] /\ Goto("checkpoint")
     \/ bundle' = [bundle EXCEPT !.there = TRUE, !.rootfs = 0] /\ Failed
  /\ UNCHANGED <<seq, image, meta, out, replay, images>>

Checkpoint ==
  /\ step = "checkpoint"
  /\ \/ bundle' = [bundle EXCEPT !.snapshot = seeds] /\ Succeeded
     \/ UNCHANGED bundle /\ Failed
  /\ UNCHANGED <<seq, image, meta, out, replay, counts>>

-----------------------------------------------------------------------------
(* record.sh and cmd_record *)

(* runc delete --force ... || true *)
Delete ==
  /\ step = "delete"
  /\ replay' \in {"none"} \union (IF replay = "none" THEN {} ELSE {"left"})
  /\ Goto("trace")
  /\ UNCHANGED <<files, counts>>

(* Whatever the restore command returns, what was opened is the sequence;    *)
(* without the watcher or the command there is an exception.                 *)
Trace ==
  /\ step = "trace"
  /\ \/ UNCHANGED replay
     \/ replay = "none" /\ bundle.snapshot # 0 /\ replay' = "traced"
  /\ Goto("open") \/ Failed
  /\ UNCHANGED <<files, counts>>

(* out.open("w") truncates. *)
Open ==
  /\ step = "open"
  /\ seq' = [there |-> TRUE, seed |-> bundle.rootfs, whole |-> FALSE, traced |-> replay = "traced"]
  /\ Goto("write")
  /\ UNCHANGED <<bundle, image, meta, out, replay, counts>>

Write ==
  /\ step = "write"
  /\ \/ seq' = [seq EXCEPT !.whole = TRUE] /\ Goto("undo")
     \/ UNCHANGED seq /\ Failed
  /\ UNCHANGED <<bundle, image, meta, out, replay, counts>>

Undo ==
  /\ step = "undo"
  /\ replay' \in {replay, "none"}
  /\ Succeeded
  /\ UNCHANGED <<files, counts>>

-----------------------------------------------------------------------------
(* build.sh, cmd_build and build_image *)

(* A file that the sequence does not list is not in the image: only the      *)
(* sequence of the same seed is certain to list them all.                    *)
Packed(n) ==
  [number |-> n, rootfs |-> bundle.rootfs, snapshot |-> bundle.snapshot,
   order |-> seq.seed,
   complete |-> seq.whole /\ bundle.rootfs # 0 /\ seq.seed = bundle.rootfs]

Torn(n) == [number |-> n, rootfs |-> 0, snapshot |-> 0, order |-> 0, complete |-> FALSE]

(* A plausible bug: an image that exists is up to date. *)
Mkfs_Cached ==
  /\ step = "mkfs"
  /\ images' = images + 1
  /\ \/ image' = (IF image.number = 0 THEN Packed(images') ELSE image) /\ Goto("meta")
     \/ image' \in {image, Torn(images')} /\ Failed
  /\ UNCHANGED <<bundle, seq, meta, out, replay, seeds>>

(* mkfs.erofs overwrites the image, also when it fails. *)
Mkfs ==
  /\ step = "mkfs"
  /\ images' = images + 1
  /\ \/ image' = Packed(images') /\ Goto("meta")
     \/ image' \in {image, Torn(images')} /\ Failed
  /\ UNCHANGED <<bundle, seq, meta, out, replay, seeds>>

Meta ==
  /\ step = "meta"
  /\ \/ meta' = [there |-> TRUE, number |-> images] /\ Succeeded
     \/ meta' \in {meta, [there |-> TRUE, number |-> 0]} /\ Failed
  /\ UNCHANGED <<bundle, seq, image, out, replay, counts>>

-----------------------------------------------------------------------------
(* emit.sh, cmd_emit and emit *)

(* Only the boundary is taken from the meta file, which must be valid JSON.  *)
Read ==
  /\ step = "read"
  /\ IF meta.number = 0 THEN Failed ELSE Goto("unit")
  /\ UNCHANGED <<files, replay, counts>>

Unit ==
  /\ step = "unit"
  /\ \/ out' = [out EXCEPT !.unit = meta.number] /\ Goto("launcher")
     \/ out' \in {out, [out EXCEPT !.unit = 0]} /\ Failed
  /\ UNCHANGED <<bundle, seq, image, meta, replay, counts>>

Launcher ==
  /\ step = "launcher"
  /\ \/ out' = [out EXCEPT !.launcher = meta.number] /\ Goto("compile")
     \/ out' \in {out, [out EXCEPT !.launcher = 0]} /\ Failed
  /\ UNCHANGED <<bundle, seq, image, meta, replay, counts>>

Compile ==
  /\ step = "compile"
  /\ \/ out' = [out EXCEPT !.primer = TRUE] /\ Succeeded
     \/ out' \in {out, [out EXCEPT !.primer = FALSE]} /\ Failed
  /\ UNCHANGED <<bundle, seq, image, meta, replay, counts>>

-----------------------------------------------------------------------------
(* A stage is killed.  What it was just writing or removing is incomplete.   *)
Killed ==
  /\ stage # "none" /\ Failed
  /\ IF step = "clear"
       THEN bundle' \in [there : {bundle.there}, rootfs : {bundle.rootfs, 0},
                         snapshot : {bundle.snapshot, 0}]
       ELSE UNCHANGED bundle
  /\ UNCHANGED <<seq, image, meta, out, replay, counts>>

(* A stage that is killed at another step leaves what its failure leaves.    *)
Next ==
  \/ \E s \in Stages : Start(s)
  \/ Clear \/ Export \/ Checkpoint
  \/ Delete \/ Trace \/ Open \/ Write \/ Undo
  \/ Mkfs \/ Meta
  \/ Read \/ Unit \/ Launcher \/ Compile
  \/ Killed

Spec == Init /\ [][Next]_vars

-----------------------------------------------------------------------------
(* Properties *)

(* When the four stages have succeeded in their order, the image holds one   *)
(* seed, its root file system and its snapshot, with every file of it, and   *)
(* unit and launcher have the boundary of that image: whatever was run, went *)
(* wrong or was killed before, and although every stage takes whatever lies  *)
(* where its input should be.                                                *)
OneSeed ==
  progress = 4 =>
    /\ bundle.rootfs # 0 /\ bundle.rootfs = bundle.snapshot
    /\ image.rootfs = bundle.rootfs /\ image.snapshot = bundle.snapshot /\ image.complete
    /\ out.unit = image.number /\ out.launcher = image.number /\ out.primer

(* No image mixes two seeds, in any order of the stages and wherever seed.sh *)
(* was stopped: a whole snapshot and a whole root file system in one image   *)
(* are of the same seed.                                                     *)
NoMixture ==
  image.rootfs # 0 /\ image.snapshot # 0 => image.snapshot = image.rootfs

(* README.md:25: the ground side replays recovery under tracing to identify  *)
(* the order of accesses.  A sequence that record.sh has made is that of a   *)
(* restore.                                                                  *)
Replayed == progress >= 2 => seq.traced
=============================================================================
