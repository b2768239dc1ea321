# A verification project for SatePrime

SatePrime speeds up the start of a containerised Python application on a
satellite. On the ground it runs the application's imports in a container,
checkpoints the process before it reads any input, records which files a
restore touches first, and packs root file system and checkpoint into a
read-only image ordered by that record. On the satellite a shell script,
`launch.sh`, warms the page cache, restores the process and tells it to go on,
or falls back to an ordinary cold start.

This directory holds TLA+ models of that code, the TLC configurations that
check them on small instances, and proofs, checked by TLAPS, that hold for
every value of the models' constants.

## 1. Inventory

### Components, state and operations

| component | source | state it keeps | operations |
|---|---|---|---|
| checkpoint gate | `satecode/agent.py` | position in `main()`, SIGUSR1 disposition, `done`, token file, environment | script lookup and preload, `_gate`, run of the application |
| token wait | `satecode/monitor.py` 17-83 | inotify watch and queue, deadline, poll interval | `_wait_token`, `_inotify_wait`, `_poll_wait` |
| snapshot coordinator | `satecode/monitor.py` 86-182 | snapshot directory | wait, checkpoint, check of the bundle, signal by three commands in turn |
| access recorder | `satecode/monitor.py` 185-387 | log of opens, tiers | inotify or strace recording of a restore, parsing, ordering |
| seed builder | `satecode/seed.py` | bundle (rootfs, `config.json`, snapshot), docker and runc containers | export, wrapper, spec, run, wait, checkpoint, cleanup |
| image patcher | `satecode/runtime.py` 91-304 | image tar: config, manifest, layers | `patch`, `is_patched` for docker and OCI layouts |
| layer extraction | `satecode/runtime.py` 307-373 | directory tree | entries, whiteouts and opaque directories of each layer |
| ordered image | `satecode/runtime.py` 376-506 | tar order, EROFS image, meta file | ordered tar, rounding, boundary, `mkfs.erofs` |
| launcher | `satecode/codegen.py` 81-271 | mounts, bundle under `/run`, container | `_pre` … `_observe`, `_cold` |
| primer, units | `satecode/codegen.py` 7-78, 274-330 | bytes read | read loop; order of the two units |
| command line | `satecode/cli.py`, `config.py` | files handed from one subcommand to the next | `patch`, `seed`, `snapshot`, `record`, `build`, `emit` |
| deployment stages | `deployment/*.sh` | `$WORK`, `$LIB` | seed, record, build, emit |
| telemetry processor | `deployment/tested application/hk_telemetry.py` | per-channel histories and counters | decoding, checks, thread pool |
| application images | `apps/` | | Dockerfiles, samples: no logic of the system |

### How they interact

- *Builder and wrapper.* The builder runs the wrapper under runc and waits for
  the token file that `_gate` writes into the shared rootfs; then it freezes
  the process. Nothing else tells it where the process is.
- *Launcher and wrapper.* The launcher restores that memory and sends SIGUSR1;
  the handler's assignment to `done` is the only way through the gate. A cold
  start runs the same bundle with `CHECKPOINT_ENABLED` rewritten to 0.
- *Launcher and earlier launches.* Container id, mounts and the bundle survive
  the script; `/run` does not survive a reboot.
- *Stages.* Subcommands hand over directories and files and check only that
  they exist.
- *Wrapper and application.* After the gate the wrapper reads `run.json` again
  and runs the application in its own process, with the modules it imported
  before the checkpoint.
- *Image and boot.* The boundary that `build_image` computes from the bytes of
  the hot files is the argument of the primer, which reads a prefix of an image
  that `mkfs.erofs` has laid out; the application's unit requires the primer's.

### What is hard, and what makes each component correct

| component | hard behaviour | correctness |
|---|---|---|
| gate | signals between bytecodes, before the handler and after it; a blocking call | nothing runs unsignalled; a blocked process that is signalled goes on |
| token wait | creation of the file between check and watch; other files; exceptions; a waiter held up at a deadline | True only for the token; False not before the timeout and not long after; no token missed |
| seed builder | stale token; timeout racing the token; failed dump; repeated builds | only a process at the gate is checkpointed; a timeout leaves no container, and any that is left has a reason |
| launcher | every command can fail; kill and restart of the script; reboot; leftovers | at most one start per launch, unless the answer to the release is lost; a warm report means the process goes on; a cold process is not gated |
| coordinator | stale token, signal delivered more than once | a signal reaches the gate once |
| recorder | opens before the watches exist; files outside the bundle | order of first opens, each file that stays once |
| layers, ordered tar | whiteouts, links, order of parents | the tree of the last layer; every path once, parents first |
| patcher | several layouts, patches of patched images | the container runs what it ran; manifests name what is there |
| primer, units | short reads, boundary and padding, a failed unit | hot files are read before the application starts |
| imports, `run.json` | unordered sets, a file written meanwhile | every module within the depth; the newest configuration counts, where it can |
| stages | stale artifacts, crashes between files | an image is built of one seed |
| telemetry | unlocked histories shared by threads | a batch is reported whole or fails; counts never exceed what was found |

The list of hazards, each at its line, with the properties that cover it or
the reason why none does yet, is `PROJECT.json`, key `hazards`.

## 2. Modules

| module | models | extends or composes |
|---|---|---|
| `Agent` | the wrapper process: `main()`, `_gate()`, signals | |
| `Imports` | `_dep_graph` and `_preload` | |
| `Telemetry` | `process_batch` and `pipeline` of the tested application | |
| `Wrapper` | the wrapper with its configuration, imports and application | extends `Agent`, `Imports`, `Telemetry` |
| `TokenWait` | `_wait_token` with time and the directory's events | |
| `Seed` | `SeedBuilder.build` | `Agent` (the process), `TokenWait` (the waiter) |
| `Snapshot` | `SnapshotCoordinator.run` | `Agent` (the task) |
| `Startup` | what a launch promises (abstract) | |
| `Launcher` | `launch.sh` | `Agent`; implements `Startup` |
| `Record` | the recorders by inotify, by strace and from a log, with watcher and tasks | |
| `OrderedTar` | `_build_ordered_tar` | |
| `Layers` | `extract_image` and `_apply_layer_tar` | |
| `Patcher` | `ImagePatcher.patch` | |
| `Primer` | the boundary, `sat_primer`, the two units | |
| `BuildImage` | `build_image`, from an archive or a bundle to the boot | extends `OrderedTar`, `Primer`; composes `Patcher`, `Layers` |
| `Pipeline` | the four stages of `deployment/` | |
| `WrapperProofs`, `TokenWaitProofs`, `SeedProofs`, `SnapshotProofs`, `LauncherProofs`, `RecordProofs`, `BuildImageProofs`, `PipelineProofs` | theorems | the modules they name |
| `MC...` | instances for TLC | |

Modules carry operators named after a definition with a suffix
(`Pause_NoCap`, `Mkfs_Cached`): plausible bugs, next to the code they would be
in. No specification uses them. Each property has one that violates it
(`PROJECT.json`, key `mutants`), which is how we know that it can fail.

**Agent.** `pc` is where the interpreter is: the imports (`import`), the lines
of `_gate` (`create`, `write`, `install`, then the loop `test`, `enter`,
`paused`, `woken`, then `uninstall`, `unlink`), the start of the application
(`launch`, `app`), `ended`. `handler` is the disposition of SIGUSR1 and
`tripped` CPython's flag of a signal that was caught and whose Python handler
has not run. The handler runs between bytecodes (`RunHandler`) or when
`signal.pause()` returns (`Wake`); a signal that arrives after the last
bytecode and before the system call does not interrupt it (`EnterPause` with
`tripped` set): the process blocks until the next signal. Without a handler
SIGUSR1 is ignored by pid 1 of a pid namespace, which is what the seeded
wrapper is (`seed.py:61`), and ends any other process. `sent` and `starts` are
history variables. Script lookup is reduced to whether there is something to
run (`cmd`).

**Wrapper.** `Agent` leaves open what happens in its positions `import`,
`launch` and `app`; `Wrapper` fills them in. `FirstConfig` and `SecondConfig`
are the two readings of `run.json` (`agent.py:217`, `agent.py:236`): each sets
the variables it lists on top of those that are set (`env`), decides the
arguments (`args`) and changes to its working directory (`cwd`), unless that is no
directory. `Reach` says where a name leads from a directory: a relative one is
looked up from where the process is, and that is where the first reading has led.
The directories themselves do not change. `WriteConfig` is anybody writing the
file, which is `Torn` meanwhile. A `scenario` fixes what a behaviour starts from and how often the
world may interfere, so that the scenarios add up instead of multiplying.

**Imports.** A graph says which modules the script and each module import,
whose source can be read, and which are known already. The set that
`_top_imports` returns is put into the queue in any order. `Within` is the
reference, which knows no queue: the modules at the end of a chain of imports of
at most so many steps.

**Telemetry.** Each thread of the pool is a small program over a packet's
values: fetch the channel's history (`Look`), make one if there is none
(`MakeHistory`), test its length, go through it twice (`Statistics`), append,
and count an anomaly by reading and writing. A history is named by the thread
that has made it, so two of one channel can exist. Whether a value is an
anomaly is left open. `found` is a history variable.

**TokenWait.** `wpc` is where `_wait_token` is; `now`, `deadline`, `wake` and
`interval` are in ticks, and `way` is how it came to wait: watched, polled, or
polled after an exception (`broken`). Time passes while the waiter is blocked in
`select` or `sleep` (`Tick`), and anywhere else while it is not scheduled or a call
takes its time (`Delay`): between the test of the deadline and the pause, for
instance. `lag` counts the latter. A pause that is computed after the deadline is
negative, and `sleep` raises (`Pause`): the wait starts again by polling, from inside
`_inotify_wait`, or the exception leaves `_wait_token` (`raised`). A watch reports
creation and close-after-write of every name in the directory. A read takes what
fits in its buffer: some of the events, in any order (`Read`). EAGAIN of a read is
left out, since `select` has just said that there is something, and so is an
overflow of this queue of 16384 events.

**Seed.** `step` is where `build()` is. The bundle's files are written before
they are used within one build, so only what a later step reads of them is
kept: `command`, `snapshot`, the token. `W!TokenOpened` and `W!TokenClosed` are
the wrapper's `CreateToken` and `WriteToken` seen by the watch. `docker create`
and the assignment that remembers its container are two moments: `Create` may have
made a container and failed, or been interrupted, and `created` is a step at which
`Interrupted` may come. `temp` is that container. `left` is a history variable: why
a container was left behind, that one or the seed's.

**Snapshot.** The coordinator waits for the token of a task that somebody else
has started, dumps the task, and delivers SIGUSR1 by three commands in turn.
Only one of them knows the task (`Reaches`); a command that fails, or is killed
by its timeout, may have delivered the signal. The wait is reduced to what
`TokenWait` shows of it: True only if the token is there, False or an exception at
any time. A new task may be started over the same root file
system, with the token of an earlier one in it, and a task may be coordinated
twice. `foreign` and `early` are history variables: the token seen was not a
ready task's own; the signal came before the task blocked.

**Launcher.** `step` is where the script is, `origin` what made the container
that now has the id (this launch by restore, by cold run, or an earlier
launch). `site` is the installation: whether runc, the image and its rootfs are
there, and the memory in the checkpoint. `unsed` says that this launch's `sed`
has failed, `misheard` that its `runc kill` has delivered the signal and reported a
failure. `_prefetch` and `_diag` are left out: nothing depends on them.
`starts` counts from the moment the container of earlier launches is out of
the way.

**Startup** is the promise: the right to start the application is given to the
restored container first, to a cold one only by a launch that does not know of
having released the restored one; the application starts only under a right, once,
or twice if both were given; the report says which it was. Both are given only
when the answer to the release is lost (`ReleaseUnknown`).

**Record.** The recorder, the watcher and the tasks that use the bundle are
three parties. The watcher (external) sets its watches one directory after the
other, and any task may open, create or remove any file at any moment; the
kernel queues the events of the directories watched so far and drops what does
not fit. `opens` and `early` are history variables: the order of the first
opens since the restore command was started, and the files opened before.
Files are numbers in the order of their paths, and each path is spelled in one
way; how a line of the log is taken apart is left out. The walk over the bundle
comes to one directory after the other (`List`) and then to each file it has listed
(`Look`), while tasks go on. `stayed` is a history variable: the files that have
been there since it began. Under strace there is no watcher: lines are written while
the command runs, only by its processes (`traced`), for calls that fail as well
(`Try`), and a line may be split in two halves that match nothing (`split`). A
given log is any sequence of lines.

**OrderedTar.** A bundle is a tree with files, directories, links to
directories and special files, and two tiers. A path is a sequence of names; an
entry of a tier, and a member of the tar, is a string that spells one: the normal
form, `a/b`, which the walk and the joining of a path's parents give, or another
one, such as `a//b` or `./a/b`, which a sequence file may have. The code compares
strings, and `seen` and `sym` hold them; the file system knows only the path.
`_add_ordered` is one action per turn of its loop over the parents (`Known`,
`NewParent`) and one for the entry itself (`Enter`, `Self`). A path that a restore
opened through a link exists in the tree, but is not `real`: the walk over the
bundle does not come to it.

**Layers.** `tree` maps a path to a directory, a link or a file, and a file is
an inode with a content (`text`), so that hard links and writing through a link
are what they are on disk. Each member of a layer is one action, by its kind,
with the exceptions of the code (`torn`). The reference is `Overlay`: what a
layer means as a set, whatever the order of its members: one function, which
gives a path what the layer names there, or what was there and is not hidden,
or a directory on the way. `Odd` and `Clash` name the layers on which the code
differs from it or ends in an exception; every disjunct of both is needed.
`WellMade` says what is asked of a layer (and of the one that the patcher adds):
a file has one entry, by its real path, and a hard link is to a file before it.

**Patcher.** Blobs are names in a set, and the manifests name some of them. The
three layouts are those that `docker save` has written over the years. `Runs` is
what a container of an image runs, as the wrapper puts it together.

**Primer.** `Boundary` is `min(erofs_size, round_up(hot_bytes) + headroom)`; the
primer reads pieces of any length (`Read`), ends at the boundary, at the end of
the image or with an error (`Close`), and `StartApp` is systemd's `After=` with
`Requires=`.

**BuildImage** is the way of an image through all of these. `phase` says where
it is; the archive is patched, its layers are extracted, what is on disk becomes
the bundle of `OrderedTar` with tiers from a sequence, and `Mkfs` (external)
lays the files out in blocks after some blocks of metadata.

**Pipeline.** Every artifact carries what it was made of: the seed in the
bundle's root file system and in its snapshot, the seed the sequence was
recorded of, the seeds in the image, the image of the meta file and of the unit
and launcher; 0 is what is missing or incomplete. A stage may fail or be killed
at each step and leaves what it has written. `progress` is a history variable:
how many stages, in their order, have succeeded since the last run of an
earlier one.

## 3. Runs

| run | instance | shows |
|---|---|---|
| `agent` | pid 1; up to 3 signals; every graph of 3 modules at depth 1; 5 batches of 2 or 3 packets, 2 threads; 2 writes of `run.json`, with directories that exist, do not, or depend on where the process is | `GateHolds`, `WokenStarts`, `SearchComplete`, `ReportWhole`, `RaisesOnlyShared`, `CountsBounded`, `ConfigFresh` |
| `token` | timeout 5, pauses up to 3, 2 events of other files, 4 ticks of lag | `SeenMeansCreated`, `InTime`, `MissOnlyInWindow`, `Ends` |
| `token_missed` | timeout 5, no lag | `NoTokenMissed` is violated |
| `seed` | 2 builds, timeout 2, 2 ticks of lag | `SnapshotAtGate`, `NothingLeft`, `BuildEnds` |
| `snapshot` | 2 runs; the last of the commands knows the task | `SnapshotAtGate`, `ToldGoesOn` |
| `launcher` | 2 launches; every checkpoint of the gate or none, incomplete installations | `AtMostOneStart`, `SettledIsReleased`, `ColdIsNotGated`, `ResumesOwnProcess`, `KeepsPromise`, `LaunchServes` |
| `launcher_stuck` | as `launcher` | `WarmIsReleased` is violated |
| `launcher_bundle` | as `launcher` | `FallbackHasBundle` is violated |
| `record` | 2 files in 2 directories, 4 opens, a queue of 2; inotify, strace, every log of up to 4 lines | `OrderOfOpens`, `TracedOpens`, `EachOnce`, `RecordEnds` |
| `ordered_tar` | 2 bundles, every tier A of up to 3 paths, and of up to 2 in either of 2 spellings; 5 lower layers, every upper one of up to 2 members; 3 layouts, 4 commands, 4 Dockerfiles, up to 2 patches; blocks of 2, headroom 4, buffer 3, up to 2 blocks of metadata | `Once`, `ParentsFirst`, `NothingBelowLinks`, `FilesComplete`, `LayersOverlaid`, `RunsOriginal`, `NamesResolve`, `AppFindsPrimed`, `HotFilesPrimed` |
| `pipeline` | 7 runs of stages | `OneSeed`, `NoMixture` |
| `pipeline_unreplayed` | 3 runs of stages | `Replayed` is violated |

*Bounds.* Three signals cover one before the handler, one in the loop and one
after it. A timeout of five ticks lets the wait turn its loop several times,
pauses grow to their cap, an exception start it again and every event fall on
either side of the deadline; four ticks of lag carry the waiter beyond a deadline
twice, and from well before one; two foreign events fit before and after the
token's. Two builds,
launches or coordinations are enough for the second to meet everything the
first can leave, and none keeps any other memory of earlier ones. Four opens
let two files be opened in one order and again, before and after the watches, and
be created and removed in between; a queue of two overflows; the properties relate
two files at most. Three paths of tier A are a link, a path through it and a path
that repeats or contains another one; two entries are the two spellings of one
path, or one of them and what lies below it. An upper layer of
two members has every pair whose order could matter, and the lower ones differ
in what one of the names is: a file, its second name, a link to a directory, to
a file, to nothing. A headroom of two blocks lets metadata and padding fit and
not fit, and a buffer of three is neither a divisor nor a multiple of a block.
Three modules at depth one have chains that end within the depth and beyond it,
by two ways. Two threads suffice for a second one to come between any two steps
of the first, and `Enough` = 2 (3 in the code) is reached within a packet. Two
writes of `run.json` are one that is torn and one that completes it. Seven runs of
stages are the four in order after three others, enough for a stale artifact of
each of the first three to meet a complete later run.

*Fairness.* The kernel keeps scheduling the wrapper (`WF(Step)`), commands of
builder, coordinator, recorder and launcher return or time out, and time
passes. Nothing is assumed of signals, of the application (it may run for
ever), of kills, interrupts and reboots, of the watcher, or of imports: in
`Seed` the process has no fairness at all. `LaunchServes` is stated of settled
checkpoints (frozen in `signal.pause()`) and a working `sed`; `launcher_stuck`
shows why the first is needed. `Pipeline` and the safety of `OrderedTar` need
no fairness. The whole way of an image (`BuildImage`) goes on when it can, but no
property of it needs that.

## 4. What the models show of the code

Runs that end in a violation:

- `token_missed`: `_wait_token` looks at the file once, before the watch is
  set; a token written in between is missed until the timeout. Setting up the
  watch runs `ctypes.util.find_library`, which itself starts processes, so the
  window is not short. `MissOnlyInWindow` says what else is missed: a token created
  under the watch when the waiter is held up from then to the deadline, since this
  way takes no last look (`monitor.py:39`), as polling does (`monitor.py:72`).
- `launcher_stuck`: the token is written before the handler is installed
  (`agent.py:119`, `agent.py:128`). A process frozen in between is restored,
  ignores SIGUSR1 as pid 1, and waits for ever, while `launch.sh` reports
  success. `SettledIsReleased` says that one frozen in `signal.pause()` is not
  stuck.
- `launcher_bundle`: a fallback entered before `_stage` has no `config.json`.
- `pipeline_unreplayed`: `record_inotify` drops the return code of the restore
  it traces; `record.sh` succeeds with a sequence of nothing.

Seen while modelling, in the code as it is; no run checks them as claims:

- `launch.sh` looks only at what `runc kill` returns (`codegen.py:210`). If it has
  delivered the signal and then fails, the application starts in the restored
  container, is deleted with it, wherever it is, and starts again in a cold one
  (or, if the delete fails too, goes on while the launch reports a failure).
  `AtMostOneStart` and `Startup` say that there is no other way to a second start.
- A poll that is held up beyond the deadline between the test and the pause gives
  `sleep` a negative time (`monitor.py:70`). In `_inotify_wait` the `ValueError` is
  caught with everything else and the wait starts again with a full timeout; in a
  wait that polls for that reason already it leaves `_wait_token`, which the seed
  builder does not expect: the runc container stays, and nothing is cleaned up.
  `InTime` bounds the first and says when the second happens.
- A container of `docker create` that is made before `created` is assigned is not
  removed when the build is interrupted in between, or when the command fails after
  having made it (`seed.py:83`). A checkpoint that fails leaves the seed's container
  (`seed.py:272`). `NothingLeft` has these among its reasons.
- A `workdir` of `run.json` that is no directory is passed over without a word
  (`agent.py:158`), so that the application stays where the first reading has led.
- What is created behind the recorder's walk is in neither tier, and so not in the
  image, and what is removed behind it is in one (`monitor.py:283`): `EachOnce`
  speaks of files that are there from the beginning of the walk to its end. A
  directory that goes meanwhile ends `rglob` in an exception; in the model, tasks
  make and remove files only.
- The tar is ordered by strings (`runtime.py:396`). A path that a sequence names in
  two spellings, or in another one than the walk's, is in the tar twice; of a hot
  file `mkfs.erofs` keeps the second copy, which may be far behind the boundary.
  `Once` says that there is no other way to a path that is there twice, and
  `HotFilesPrimed` is silent then. A sequence that was edited by hand may be such a
  one, and so may one recorded under strace, which keeps the spelling of a relative
  path (`monitor.py:200`).
- A failed `docker inspect` makes a seed without a command (`seed.py:217`).
- The coordinator takes any token for that of its task (`monitor.py:163`); this
  is what `foreign` stands for in its `SnapshotAtGate`.
- A directory without files or links, such as `/tmp` or `/proc` of most
  images, is in neither tier and so not in the image (`monitor.py:284`);
  `FilesComplete` speaks of files and links.
- A watcher that dies, or is not ready in time, is only warned of
  (`monitor.py:366`): `OrderOfOpens` speaks of recordings whose watches were
  confirmed.
- strace splits a line when calls of two processes overlap, and neither half
  matches (`monitor.py:185`): `TracedOpens` speaks of logs without such lines.
  The files are in the second tier all the same (`EachOnce`).
- An image that is patched twice has the wrapper as its original entry point
  and runs itself (`runtime.py:239`; nothing asks `is_patched`): `RunsOriginal`
  speaks of one patch.
- In the layout of `docker save` the new layer is entered under its digest,
  which is no member of the archive (`runtime.py:210`): `extract_image` of such
  an image ends in an exception.
- In a layer (`Odd`, `Clash`): an opaque directory that gets no entry vanishes;
  a whiteout of a link to a directory, or of a dangling one, has no effect; a
  file over a link is written to where the link leads, or raises an exception,
  and a directory over a link to one leaves it; a file with several names that
  is replaced changes under all of them; a directory that is replaced by
  something else, or the other way round, ends in an exception.
- `Boundary` rounds up, but with a headroom that is a multiple of the block
  size, metadata and padding that fit in the headroom are covered without it.
  `hot_bytes` counts neither (`HotFilesPrimed`).
- A primer that cannot open the image fails its unit, and with it the
  application's (`codegen.py:69`): there is no launch, warm or cold.
- `process_batch` fails as a whole if one thread appends to a channel's history
  while another goes through it; the packets of the tested application share
  channels, so this depends on the schedule. Anomalies may go uncounted, and a
  history that two threads make at once loses what is in the first.
- Variables that only the first reading of `run.json` sets stay set after the
  gate, a relative `workdir` is looked up from where that reading has led, and a file that is being written counts as empty (`agent.py:149`).

## 5. Proofs

All hold for every value of the constants.

`WrapperProofs` is about the wrapper process, part by part and as a whole.

- *Gate.* For any bound on signals and either kind of process, `Agent` keeps its
  types and `GateHolds`. The invariant `GateInv` adds where the handler is
  installed (`HandlerScope`), that `tripped` and `done` imply a signal
  (`Caught`), and that a synchronised process past the loop has been signalled
  (`Passed`): without the latter, nothing would link `starts` to `sent`.
- *Search.* For any finite graph of imports and any depth, the search finds the
  modules within the depth, once each, the nearer ones first
  (`SearchComplete`). The invariant is that of a breadth-first search (`Level`):
  at distance *d* all that is nearer has been found, what is at *d* has been
  found or waits in the queue, and so does what the modules found import. That
  an empty queue means that every chain has been found needs an induction over
  the chain, which is done by its least module that is missing (`Smallest`).
- *Batch.* For any packets, threads, channels and number of values that is
  enough, `ReportWhole`, `RaisesOnlyShared` and `CountsBounded`. One lemma per
  action says what it does to the threads (`...Effect`). The invariant says where
  a thread can be with respect to `future` (`Seated`, `Inside`), how a packet
  ends (`Decided`), when a deque may have been appended to while it is gone
  through (`Undisturbed`), and what is found, counted, and read but not yet
  written (`Tally`): a counter is what was found less what a thread is about to
  write, unless a second packet shares the channel.
- *Whole.* `GateHolds` also with arguments that come from `run.json`
  (`LaunchArguments` is the one step of the wrapper that is none of `Agent`), and
  `ConfigFresh`, for any configurations and any writes: `ReadAgain` says that a
  process which has read `run.json` again has been signalled, and that its
  variables and working directory are those of the first reading until then.

`TokenWaitProofs` proves, for every timeout, cap of the pauses, number of events and
lag, the types, `SeenMeansCreated`, `InTime` and `MissOnlyInWindow`. The invariant
fixes the way of waiting by the position (`Ways`), bounds all clocks by the deadline
and the lag (`Timing`), says that only the token puts its name into the queue
(`Honest`), how far a pause can reach beyond the creation of the token (`Prompt`), and
that a token created under the watch is in the queue until it is read, while the
waiter does not block (`Noticed`): so the only ones that are missed are those created
before the watch, and those that come when only lag is left of the time.

`SeedProofs` proves, for any number of builds, timeout, cap of the pauses and lag,
the types, `SnapshotAtGate` and `NothingLeft`. Every step of a build that waits is one
of `TokenWait`, so the invariant of `TokenWaitProofs` is used as it is, through
INSTANCE, while there is a waiter (`Waits`). The rest of the invariant says that the
token the builder sees is of the process of this build, since none is left when that
process is started (`TokenOfThisBuild`), that a wrapper is never signalled while it is
seeded, so that one which has written its token does not leave the gate (`AtGate`),
and that each container is removed, is one the build still has to deal with, or has
its reason in `left` (`TempAccounted`, `Accounted`).

`SnapshotProofs` proves, for any number of tasks and coordinations and any set of
commands that reach the task, the types and `SnapshotAtGate`. The invariant
relates what the coordinator has seen to the position of the task (`SeenAtGate`,
`AtGate`), a dump to the run that made it (`Dumps`), and says that a run dumps and
signals once (`OncePerRun`).

`LauncherProofs` proves, for any set of installations, number of launches and
checkpoint, `TypeOK`, `AtMostOneStart`, `ColdIsNotGated`, `ResumesOwnProcess`,
`SettledIsReleased`, and that each step of the launcher is a step of `Startup`
or none (`Implementation`). The invariant relates the script's position to the
origin of the container (`Ways`), says that a restored process that has not
been signalled is still at the gate (`Gated`), that a live process which has
not reached the application has not started it, or has one start before it that
the script did not hear of (`Once`), which configuration a
cold run uses (`Plain`), and, for settled checkpoints, that a restored process
is blocked with its handler until it is signalled and free from then on
(`Freed`, `Warm`).

`RecordProofs` proves, for any files, directories, length of the kernel's queue and
number of opens, and for each of the three ways to record, the types, `EachOnce`,
`TracedOpens` and `OrderOfOpens`. What the watcher has seen is the lines it has
written and those in its queue (`Seen`). The invariant says when there is a watcher
and what it watches (`Watch`), that nothing is seen which has not been opened
(`SeenOpened`), that no open is missed between the confirmation and the end of the
watch, unless the queue ran over (`AllSeen`), and that what is seen is seen in the
order of the opens, which still holds when the watcher is gone (`SeenInOrder`).
Under strace, the lines are the calls in order unless one was split
(`TracedLog`). `FirstTier` and `Walked` say what the two tiers are made of, at each
point of the walk (`Listing`, `Looking`): a file that stays is yet to be listed, or
listed and yet to be looked at, or in a tier; that there is one
sequence of the files by their first lines, and no second one, is `FirstOfUnique`.

`PipelineProofs` proves, for any number of runs, `TypeOK`, `NoMixture` and
`OneSeed`. The invariant says what each stage has left when the operator has
come that far (`Kept`), what a stage under way has done (`Half`), and that a
stage under way is beyond `progress` (`Behind`): it is what keeps a stage that
spoils a later stage's work from being counted.

`BuildImageProofs` proves the parts of the way to a booted satellite, and then the
way.

- *Tar.* For every bundle (a tree of any size, tiers of any length, order and
  spelling), a path is in the tar twice only in two spellings of which a tier has one
  (`Once`, from `NoneTwice` and `OddListed`), parents come first (`ParentsFirst`), nothing
  lies below a link (`NothingBelowLinks`), and every file and link is there
  (`FilesComplete`); all four are `TarCorrect`. The last needs an invariant over the
  path in progress: its parents up to `depth` are in the tar and are no links, and
  every entry of the tiers before `at` that leads to a file or link is in it.
- *Layers.* Members in any order and number, with white-outs, links and what the
  code refuses, leave a tree: what is above a path is a directory (`LayersInv`).
  It is what *Tar* asks of a bundle. That it is the right tree (`LayersOverlaid`),
  for well-made layers of any number and length, takes an invariant
  (`LayersMeant`) about the members applied so far. For a layer that is not odd
  (`Sofar`): what they name is there with its content, unless it is a directory
  that an opaque marker has emptied since (`EntriesThere`); what was there below,
  is not hidden yet and not named, is there with its content (`LowerThere`); there
  is nothing else but directories on the way (`NothingElse`); and a file under a
  name of the layer is a new one, or was under such a name before (`OwnFiles`).
  Without the latter, a file that is written over could be one that is still
  seen elsewhere. Inodes are numbered by layer and member, for odd layers as
  well, since the next one builds on them (`FilesNumbered`). That an
  exception needs a clash follows from where each path and its kind come from
  (`Sources`). An action is first reduced to what it removes (`Cleared`) or makes
  (`Placed`); the rest is about these two, whatever the action. Nothing is written
  through a link, because a layer that is not odd, or does not clash, has no file or
  directory in place of one (`NoLinks`).
- *Primer.* For every size of block, headroom, buffer and image, `_round_up` rounds
  up by less than a block, hot files which end within their bytes and the
  headroom end below the boundary (`BoundaryCovers`), the types of `Primer`, and
  `AppFindsPrimed`. The invariant (`Progress`) says that the primer never reads more
  than its goal, that it has read all when it is done without an error, and that
  the application's unit waits for it. Division by a block size that is a constant
  is reduced to one lemma (`Division`).
- *Patches.* For every archive, command and Dockerfile, in each layout and after
  any number of patches, the manifests name what is in the archive
  (`NamesResolve`), and an image patched once runs what the original runs
  (`RunsOriginal`), for any arguments (`RunsWithArguments`). The invariant says
  which names each manifest has (`Named`) and that the configuration of a patched
  image puts away what the original would have run (`PutAway`).
- *Way.* For `BuildSpec`, from any archive or bundle: `Once`, `ParentsFirst`,
  `NothingBelowLinks`, `FilesComplete`, `AppFindsPrimed`, and `HotFilesPrimed`, besides
  `RunsOriginal`, `NamesResolve` and `LayersOverlaid`. The
  invariant (`BuildInv`) says which layers of the archive the manifests name
  (`Archived`), that the tar begins with such a bundle (`TarBegun`), that
  the files of tier A come before all others and `hot_bytes` is the sum of their
  sizes (`HotFirst`), and which boundary the image got (`ImageBuilt`). The end of a
  file in the image is a sum over the files before it (`Sums`); that these sums exist,
  grow, and agree on equal beginnings is proved by induction over sets of
  naturals (`UpTo`), which the least-number principle gives without an
  operator as a parameter.

The assumptions are those on the constants: bounds are naturals, sites and
bundles have the stated types, bundles are trees, blocks and buffers are not
empty, layers are sequences of members and are well made, the shim is a path, the modules of a graph
are finitely many and import each other, packets and archives are records of the
stated kind. TLC evaluates all of them.

Every safety property of the runs is proved. Only model-checked is all liveness
(`WokenStarts`, `Ends`, `BuildEnds`, `ToldGoesOn`, `RecordEnds`, `LaunchServes`),
which is out of TLAPS's reach.

## 6. Plan

1. Models: `Record` composed with `OrderedTar` (what an incomplete recording does
   to the order of the image); the `.aux` members of the ordered tar.
2. Proofs: that each condition of `Odd` and `Clash` is needed, with a layer for each
   on which the code differs from `Overlay`.

The reference of `Layers` (`Overlay`) and that of `Imports` (`Within`) are abstract
specifications stated as operators; a launch with its boot, of which `Launcher`
and `Primer` are parts, would be the next one to state as a module.

## 7. Not modelled

- Contents of files and images, wording of messages and logs, argument parsing
  and defaults, and `apps/`, which hold no logic of the system.
- CRIU, runc, docker, `mkfs.erofs` and systemd beyond the success or failure of a
  command and its effect on what the code sees.
- Numbers of the telemetry: calibration, the Western Electric rules, checksums and
  frames of packets, the text of reports. They are pure functions of a packet or
  of a history; `Telemetry` leaves their outcome open, which covers all of them.
- Entries of a sequence that spell the bundle itself as `.`, or have `..` in them,
  and a `workdir` that exists but may not be entered (`chdir` raises).
- `_find_script` (a pure search in the arguments), a `run.json` that is valid JSON
  but no object, one that changes `SATCONTAINER_CONFIG_DIR` itself, and devices
  and pipes in layers, which match no branch of the code.
- `.aux` members: `build.sh` does not ask for them.
