# A TLA+ model of OverWrite

OverWrite is a command line tool in C11 (with a Tk wizard in Python) that
overwrites disks, partition gaps, free space and files with random data, and
drives `fastboot` to wipe Android phones. This directory holds TLA+ modules
that model its control, TLC configurations that check them on small instances,
and proofs of theorems that hold for every instance.

## 1. The system

| component | source | state | operations | interacts with |
|---|---|---|---|---|
| argument parsing | `src/main.c`, `src/common.c` | configuration, target path | one word after the other | the command line run |
| command line run | `src/main.c` | configuration, target, exit code | infer kind, resolve, check, confirm, wipe, format, remove files | calls everything below |
| target resolution | `src/target.c`, `src/slack.c` | `wipe_target_t`: device handle, ranges, filler path | `target_resolve`, `target_cleanup` | platform open/close, partition map, filler |
| safety checks | `src/safety.c` | none | `safety_check`, `safety_confirm` | user at the terminal |
| wipe execution | `src/wipe.c` | `wipe_shared_t` on the stack: pass, failed, bytes done, monitor flag | prepare/reopen/restore disk, pass loop, flush, TRIM, SSD erase, status | engines, monitor thread, platform |
| threaded engine | `src/wipe.c` | worker slots, shared failed flag and byte count | split, create, write chunks, join | `platform_pwrite` |
| sequential engine | `src/wipe.c` | range index, offset | write range after range | `platform_pwrite` |
| progress monitor | `src/wipe.c`, `src/progress.c` | none of its own | read `wipe_shared_t`, update the bar, sleep | the frame and the bar of other threads |
| platform layer | `src/platform_win.c`, `src/platform_linux.c` | handles, last I/O error (global) | open, read, write, flush, discard, dismount, offline/online | operating system, other programs |
| partition map | `src/partition.c` | list of partitions, list of gaps | read GPT/MBR, compute the gaps | platform read |
| filler and shadow | `src/free_space.c` | a file | create filler, remove, rename and delete | file system, open handles |
| format | `src/format.c` | none | may it apply?, run the formatter | operating system |
| Android | `src/android.c` | none | plan, confirm, run fastboot commands | phones that come and go |
| wizard | `gui/overwrite_gui.py` | page, settings, typed text, queue, progress strip | page handlers, start process, drain queue | processes of the command line tool, reader threads |
| random streams | `src/rng.c`, `src/chacha20.c` | key, block counter, seed of each thread's stream | create, reseed for a pass, fill a buffer | engines, the system's random source |
| device list, hidden areas | `src/devlist.c`, `src/hidden_area.c` | none | print what the system says | operating system |

Call structure: the wizard starts `main`; `main` → `target_resolve` →
partition map, filler; `main` → `wipe_execute` → monitor thread and, for every
pass, one of the two engines → `platform_pwrite`; on Windows `wipe_execute` →
`platform_detach_disk_for_wipe`.

What is hard in this code:

- *Concurrency*: workers share a flag and a counter without locks; a monitor
  thread reads the frame of the function that started it; other programs open
  volumes while they are dismounted; several processes of the wizard report to
  one queue.
- *Failure*: nearly every call may fail, with a different clean-up each time:
  a disk taken offline, a filler on the disk, an open handle, a thread never
  created.
- *Ordering*: flush before discard, close before delete, dismount before
  offline, confirm before anything is changed; options and paths in any order.
- *Boundaries*: alignment to sectors of sizes that divide nothing evenly;
  partition entries that overlap or exceed the disk; tails of files, clusters;
  a chunk that is filled from two random sources in three pieces; a block
  counter that wraps.
- *Retries*: three dismount passes, several tries per written block, fallback
  spellings of fastboot commands.

`PROJECT.json` lists the hazards line by line with the properties that cover
each.

`platform_linux.c` does not compile at this commit (`platform_open` is defined
at lines 65 and 309, and the `#endif` at 613 matches nothing). The POSIX halves
of the other files are modelled from their own text, and what they need of the
platform layer (open, write, flush, close may succeed or fail) is the same as
on Windows.

## 2. Modules

| module | models | implements / uses |
|---|---|---|
| `OwArith`, `Geometry` | `ow_min_u64`, `ow_align_down`, `ow_align_up`; sector and chunk size | |
| `PassSpec` | what a pass promises `wipe_execute` | abstract |
| `ThreadedPass` | `run_workers`, `worker_thread` (both builds) | implements `PassSpec`, uses `OwArith` |
| `SequentialPass` | `wipe_ranges_sequential` | implements `PassSpec`, uses `Geometry` |
| `PartitionGaps` | `partition_map_read`, `partition_map_unallocated` | uses `Geometry` |
| `TargetWipe` | the ranges of `target_resolve`, with slack-hunter, and one pass over them | composes `PartitionGaps` and `SequentialPass`, implements `PassSpec` |
| `ExecuteSpec` | how `wipe_execute` may return, as `main` relies on it | abstract |
| `WipeExecute` | `wipe_execute`, disk preparation, monitor | keeps `ExecuteSpec`; a pass is one step, by `PassSpec`; the detach is one step |
| `DiskDetach` | `platform_detach_disk_for_wipe` | |
| `DetachedWipe` | a wipe of a physical drive on Windows, next to other programs | composes `DiskDetach` and `WipeExecute`, implements `WipeExecute` |
| `WinPwrite` | `platform_pwrite` on Windows | step *Write* of the engines |
| `RngStream` | `rng.c` and the block counter of `chacha20.c`, in the engines' loop | what a chunk holds |
| `CliRun` | `main` behind its argument loop, to the exit code | `wipe_execute` is one step, by `ExecuteSpec` |
| `CommandLine` | the argument loop, word by word, and the run it starts | composes with `CliRun` |
| `AndroidWipe` | `android.c` and its part of `main` | |
| `GuiWizard` | the wizard | a process of the tool is opaque |
| `OwArithProofs` | facts about rounding to sectors | used by the proofs about engines and gaps |
| `ThreadedPassProofs`, `WinPwriteProofs`, `AndroidWipeProofs`, `RngStreamProofs` | theorems about their modules | |
| `TargetWipeProofs` | theorems about `TargetWipe` and its two parts, `PartitionGaps` and `SequentialPass` | |
| `DetachedWipeProofs` | theorems about `DetachedWipe` and its parts, `DiskDetach` and `WipeExecute` | |
| `FrontEndProofs` | theorems about `CommandLine` (with `CliRun`) and `GuiWizard` | |
| `MC*` | constant values that a .cfg cannot write | |

Where the two builds of the code differ, the module has one variable or one
field of its configuration that says which one runs (`windows` in
`ThreadedPass`, `cfg.windows` behind the operator `Windows` in `WipeExecute`
and `CliRun`); it is chosen in `Init` and never changes, so that every run
covers both.

There are three levels of abstraction: two are shown as refinements, one as a
property of what a call returns.

- `PassSpec` is what `wipe_execute` relies on: a pass writes only bytes of its
  target; returns success only when all of them are overwritten; and nothing
  writes once it has returned. Until it writes, its target may still be worked
  out (*Settle*), which is what `target_resolve` does. The threaded engine, the
  sequential engine and the whole way from a target to its bytes implement it
  (property `KeepsPromise`), which is what allows `WipeExecute` to take a pass as
  one step.
- `WipeExecute` takes the detach of a drive as one step, too. `DetachedWipe` runs
  the detach in full, letter by letter and retry by retry, and implements
  `WipeExecute` (property `ImplementsExecute`): as long as the detach is under way
  the abstract wipe still stands before *Prepare*, with its handle open; the step
  that decides the result of the detach is *Prepare*. All that `WipeExecute`
  guarantees therefore also holds of the detailed program.
- `ExecuteSpec` is what `main` relies on: which return value of `wipe_execute` goes with
  how far the wipe has come (*no*, *partly*, *all*, or *lost* when a pass failed without
  raising the flag) and with which handle. `WipeExecute` keeps it (property
  `ReturnsAsPromised`), and `CliRun` takes one of these results as its step *Wipe*.

### Correspondence of state and actions

**ThreadedPass.** `pc` is the calling thread (*alloc*, *spawn*, *join*,
*returned*), `wpc[i]` worker i. `first`, `last`, `offset` are the worker's range
and position, `failed`, `done` and `error` the fields of `wipe_shared_t`,
`erred` says whose `args[i].error` is filled; `late` and `wiped` are history. A
worker's loop is cut where it accesses shared state: *Check* (test the flag and
size the chunk), *Write*, *Count*, *Flag* (the interlocked exchange), *Record*
(POSIX). The thread that waits is *JoinWindows* (waits for the created handles)
or *JoinPosix*/*JoinMissing* (joins every slot; joining one that was never filled is
undefined: any outcome that the build can produce). A worker whose buffer could not be
allocated (*CheckNoBuffer*) fails at its first chunk, as `rng_fill` returns at once on a
null buffer and `platform_pwrite` refuses one (`platform_win.c:944`; the system on POSIX).

**SequentialPass.** One process: `index`, `offset`, `failed`, and *Start*,
*NextRange*, *WriteChunk*, *WriteFails*, *RangeDone*, *AllRanges*.

**TargetWipe.** `stage` is where the target stands: *resolve* (*ReadTable* runs
`PartitionGaps` and *TakeGaps* makes ranges of its gaps; *TakeWhole* is the one
range of anything else), *slack* (*Analysis* is `apply_slack_hunter` on a file,
whose cluster size the system gives or not; *NoAnalysis* on anything else), and
*pass*, in which either `SequentialPass` runs on the ranges or the thread pool,
by its promise. `size` is the capacity found, `slackEnd` where the slack of a file
ends.

**WipeExecute.** `pc` walks through the function: *Enter*, *Prepare*, *Reopen*,
*SecureErase*, *StartPass*, *RunEngine*, *JoinMonitor*, *Flush*, *Trim*,
*Finish*, *Restore*, *DestroyBar*, *Exit*. The monitor is a second process
(`mon`: *check*, *report*, *sleep*, *exited*). `disk` is the state of the disk
in the system, `offlined` what the code remembers of it. *Killed* is a signal.

**DiskDetach.** One dismount pass goes through three stages (letters, volumes by
name, GPT partitions); `attempted` and `dismounted` are the counters that live
over the passes; other programs are the actions *AppOpens* and *AppCloses*. A letter
is attempted only if `win_volume_disk_index` says that it is on this disk
(`platform_win.c:568`); where that fails, at its open or at its ioctl, the letter is passed
over in silence, like a volume that cannot be opened by name. `skipped` remembers the
letters that the last pass so passed over. *CannotList* is the failure of
`GetLogicalDriveStrings` (601), after which there is no pass.

**DetachedWipe.** The two machines with `disk` and `offlined` in common. The module
extends `WipeExecute` and takes `DiskDetach` by INSTANCE as `Drive`, whose `pc`, `pass`
and `ret` are here `doing`, `round` and `outcome`. *PrepareDrive* stands where
`WipeExecute` has *Prepare*: it closes the handle (*CloseDevice*), lets the detach run
(*DetachStep*) and takes its result (*DetachReturns*). Other programs go on opening volumes while passes are
written.

**RngStream.** `chacha` and `turbo` are the two generators of each thread; keys and
seeds are numbers of draws from the system's random source. *Create*, *Reseed*
and *Fill* are `rng_create`, `rng_reseed_pass` and `rng_fill`; `output` records of
every block written what it was computed from. The engines set
a thread's salt only after they have reseeded its stream (`wipe.c:205`, `124`), so
that no salt ever reaches a key; as every key is drawn anew, the model does
without salts.

**WinPwrite.** Each writer has a position, a block and a number of tries; the
last I/O error is one global variable that all writers set and read.

**PartitionGaps.** A table is a sequence of entries with start and length in
sectors; *Read*, *Sort*, then one *Visit* per partition and *Finish*.

**CommandLine.** One action per kind of word: *Option* (a flag or a profile),
*ChunkOption*, *ModeOption* (`--free-space` and `--unallocated`, each with its path),
*Positional*, *Divert* (`--list` and the Android commands), *Stop* (an error, or the
help) and *LastWord*, which starts the run. `named` remembers what has named a
target (a plain word, `--free-space`, `--unallocated`), `asked` the chunk size the last `-c` had, before it is cut to 32 bits.

**CliRun.** A path is its form (what the code looks at: `\\.\PhysicalDriveN`,
`\\.\X:`, `X:`, ...). One action per call of `main`: *Infer*, *CreateFiller*,
*OpenTarget*, *Ranges*, *ExtendSlack*, *Check*, *Confirm*, *Wipe*, *Format*,
*Remove*, *Cleanup*; every call may fail; *Interrupted* is Ctrl-C. `wiped` is how far
the wipe came, in the words of `ExecuteSpec`.

**AndroidWipe.** `pc` is the next command; a command goes to the phone named by
the serial number, or to any one in the bootloader when none was given or it was `*`,
for which `append_serial_arg` adds no `-s` (`android.c:78`); a failed one may have done
its work or not.

**GuiWizard.** `step`, `settings`, `typed`, `preview` are the wizard's; each button
is one action, because handlers run in the event loop and dialogs are modal;
processes end at any time or never (*End*), the timer reads the queue (*Drain*). A
target stands for its text without the white space around it: `_run_wipe` compares it
so (1057), and `build_argv` strips it, but not behind `--free-space` and `--unallocated`
(348, 350). What the module says of the target of such a command holds up to that
white space.

History variables (`late`, `wiped`, `consent`, `engine`, `shown`, ...) are
marked as such where they are declared; no guard reads one.

## 3. Runs

Passing runs:

| run | states | shows |
|---|---|---|
| `pass_threaded` | 49377 | both builds, 3 workers, 11 bytes, sectors of 2, chunks of 5: the split, an honest counter, one named error at most and one at least, what is still written after a failure, the refinement of `PassSpec`, termination |
| `target` | 575249 | every table of three entries, GPT and MBR, on a disk of six sectors and a byte; one of them possibly starting behind its end; files and devices with all kinds of tails and clusters; both engines: only what was asked for is written (but for the rest of a file's last cluster, and for gaps in front of a partition behind the end of the disk, see below), success leaves less than a sector, gaps are all of the rest, ranges are written in order, the refinement of `PassSpec`, termination |
| `execute` | 190364 | both builds, every profile and option, one disk for each engine, a failure at every call: the disk is online again, writes only to a prepared disk, success means all passes (or an engine that failed silently), TRIM after flush, no monitor left, what is returned is what `ExecuteSpec` promises, termination |
| `detached` | 817068 | two volumes, three dismount passes, other programs, letters whose disk cannot be read, the whole wipe: what a successful dismount says and what not, letters outlive the retries, writes spare what is mounted, the refinement of `WipeExecute`, the detach ends |
| `cli` | 580648 | every command line in any order of words, both builds, every path form, a failure at every call, Ctrl-C: the options decide what the target is, wherever they stand, consent first, and no blocked target without `--yes`, no handle left, exit code 0, a format and a deletion mean wiped (or a pass lost silently), files removed |
| `pwrite` | 38214 | two writers share the last error; short, empty, denied and failed writes: success means written, a failure has a cause and a bounded number of attempts, termination |
| `rng` | 107549 | two threads, two passes, all four modes, a counter that wraps, failures of the system's source at any call: chunks are filled without gap or overlap, no block comes twice |
| `android` | 320176 | two phones that come and go, with a serial number, without one and with `*`: success means formatted user data, no phone but the named one is touched, termination once the phones stay |
| `gui` | 745984 | every way through the pages, two processes at a time, or one and the unread end of another: what runs was confirmed for its target and previewed; once no process is left the strip comes to rest |

Runs that find a disagreement (one property each; `PROJECT.json` quotes the line
that states it):

| run | what the code does |
|---|---|
| `execute_silent` | an engine fails before its loop, and the wipe reports success; `main` goes on to format and delete, as for any success |
| `cli_dryrun` | a dry run creates the filler, or extends a file to its cluster |
| `target_image` | `--unallocated` with slack-hunter on a disk image gives the first gap the length of the whole file, and the pass overwrites the partitions |

### Further disagreements

The modules state more of what the documents say and the code does not do.
Each has a configuration here that is not in the list of runs, with which
`tlc -config <name>.cfg <module>` shows the counterexample (the module is the
part of the name before the underscore, with `MC` before it where such a module
exists). Paths are those of the repository.

| configuration | property | the code | what says otherwise |
|---|---|---|---|
| `ThreadedPass_chunk` | `SuccessIsComplete` | `src/main.c:194` takes a chunk size below the sector size; every worker ends at once, the wipe reports success and nothing is written | `docs/PROFILES.md:9` "Random overwrite (default)" |
| `WipeExecute_erase` | `EraseOnlyWholeDisk` | `src/wipe.c:543` erases the whole SSD when its gaps are to be wiped | `src/main.c:29` "wipe partition gaps only" |
| `DiskDetach_retry` | `RetryCanSucceed` | `src/platform_win.c:617` adds up attempts and dismounts over the passes, so that a failure in the first makes the sums differ for good | `src/platform_win.c:613` "retrying volume dismount" |
| `DiskDetach_blank` | `ErrorIsTrue` | `src/platform_win.c:624` with no volume on the disk, the detach fails | `src/platform_win.c:659` "could not dismount all volumes" |
| `DiskDetach_skipped` | `AllVolumesDismounted` | `src/platform_win.c:438` passes over a volume it cannot open, and 568 over a letter whose disk it cannot read | `README.md:65` "dismounts volumes before whole-disk wipe" |
| `CliRun_blocked` | `BlockedNeedsForce` | `src/safety.c:184` with `--yes` a blocked system disk passes without `--force` | `README.md:65` "Does not wipe without `--force` on blocked system disks." |
| `CliRun_filler` | `FillerRemoved` | `src/main.c:349` removes the filler while the tool has it open, and forgets its path | `gui/overwrite_gui.py:70` "wipe it, then delete" |
| `CliRun_shadow` | `ShadowDeletes` | `src/main.c:344` likewise for the shadowed file | `docs/PROFILES.md:13` "Wipe, rename, delete" |
| `CliRun_format` | `FormatsWhatWasWiped` | `src/format.c:105` looks at the path, so that a disk is formatted when only its gaps were wiped | `gui/overwrite_gui.py:124` "Not available for files, free space, or unallocated-only wipes." |
| `TargetWipe_table` | `TableSpared` | `src/partition.c:256` starts the first gap at sector 0, where the partition table is | `gui/overwrite_gui.py:71` "Wipe only space between partitions on a disk." |
| `RngStream_os` | `OsChunkIsRandom` | `src/rng.c:179` a failure of the system's source fills the chunk with zeros | `gui/overwrite_gui.py:102` "OS CSPRNG per chunk (slowest, max entropy)" |
| `RngStream_os`, with `-continue` | `NeverTwice` | `src/chacha20.c:65` the 32-bit block counter comes round after 256 GiB of one stream | `docs/PROFILES.md:23` "ChaCha20", as if its stream had no end |
| `AndroidWipe_plan` | `OnlyPlanned` | `src/android.c:376` falls back on commands the plan does not list | `src/android.c:277` "Commands to run:" |
| `AndroidWipe_full` | `FullWipesAll` | `src/android.c:393` success with the cache not wiped | `docs/ANDROID.md:29` "userdata + cache + metadata" |
| `AndroidWipe_format` | `EraseThenFormat` | `src/android.c:338` formats after a failed erase | `src/android.c:286` "fastboot erase userdata && format userdata" |
| `AndroidWipe_plan`, with `-continue` | `DryRunSendsNothing` | `src/android.c:297` queries the phone in a dry run | `src/main.c:245` "no fastboot commands sent" |
| `GuiWizard_progress` | `ProgressAppears` | `gui/overwrite_gui.py:672` the end of a list refresh stops the strip of a wipe | `gui/overwrite_gui.py:931` "Progress appears above" |
| `GuiWizard_confirm` | `ConfirmedAsRun` | `gui/overwrite_gui.py:1057` compares the text with the target only, so that the operation may change after it was typed | `docs/GUI.md:48` "Confirm in GUI step 5; run sends `--yes` to CLI" |
| `GuiWizard_dryrun` | `DryRunOnlyValidates` | `gui/overwrite_gui.py:336` the dry-run button starts the reboot of a phone | `gui/overwrite_gui.py:900` "run dry-run to validate without writing" |

What `OnlyWantedWritten` leaves open when gaps are wiped came out of its proof: a
partition that starts behind the end of the disk (a table from a larger disk)
makes `src/partition.c:278` push a gap up to that start, so that the pass writes
behind the end. A device refuses that and the wipe fails; an image file grows.

In addition `README.md:58` of the repository shows `--format-after
\\.\PhysicalDrive2` although the parser takes the word after the option as a
file system; this is visible in one line and not modelled.

### Bounds, and why they are enough

- *Threads* 3, *Total* 11 with *Sector* 2 and *Chunk* 5: the share of a
  worker is no multiple of the chunk, the last worker gets a remainder, the
  total is no multiple of the sector, the chunk none either. Three workers are
  the fewest where two can fail while a third goes on. The theorems remove
  these bounds.
- *TargetWipe*: sectors of 4 bytes, chunks of 10, a disk of 25, files of 0, 3, 9 and 17
  bytes: empty, less than a sector, with a tail, longer than a chunk and a
  cluster; clusters unknown, smaller than a sector, and no power of two.
- *MaxPasses* 2 in `execute`: the first pass, a later one, and the last. In `detached`
  it is 0, so that a profile's own pass is the only one: what `detached` asks does
  not depend on how many follow, and its refinement is proved for any number.
- *Geometries*: a small rotational disk and an SSD in `execute`, a USB disk and an SSD
  in `detached`: one for each answer of `wipe_use_sequential`, one of them with a
  secure erase.
- *Volumes* 2, one with a letter: a volume can be attempted twice (by letter and by
  name) or once, and one may fail while the other does not. The theorems remove
  this bound.
- Words in `cli`: none; a command line may have any number of them, as a repeated one
  changes nothing.
- *Tries* 2 and extents of 4 and 2 sectors: an extent takes several WriteFile
  calls, a chunk is halved twice, and its tries run out. The theorems remove
  these bounds.
- `rng`: *Piece* 5 blocks in chunks of 3, *Edge* 1: hybrid fills a chunk in three pieces and
  one in a single piece; *Wrap* 4, so that the counter wraps in a pass; two threads and
  two passes for two keys in use at a time and one after the other; *MaxFailures* 2.
- *Entries*: three entries are enough for one nested in the first and one behind
  both; one choice of entry starts behind the end of the disk. The theorems remove the
  bound. `GapsAssumption` asks for entries in whole sectors, as the code multiplies what
  the table says by the sector size.
- *Phones* 2: the one that is meant and another. They are not made symmetric, as
  one is named by the serial number.
- *Slots* 2 in `GuiWizard`: two processes, or a process and the unread end of another,
  or two unread ends; the wizard itself sets no limit. The two *Ops* of the run are the
  kinds of confirmation, of a target and of a phone; the reboot is in
  `GuiWizard_dryrun`. One target is enough, as the text typed for it may also be empty
  or stem from the other operation. The theorems remove these bounds.
- Numbers are mathematical: 64-bit byte counts do not wrap in these functions
  for disks that exist. The cut of the chunk size to 32 bits is represented by the
  small chunks it leads to (`ThreadedPass_chunk`).

Deadlock is checked in every run but `rng`: modules whose process ends have an
explicit stuttering step for it. In `RngStream` a stream that cannot be created ends
the pass, and the model with it.

### Fairness

- `ThreadedPass`: weak fairness of the calling thread and of each worker: the
  operating system schedules every thread, and I/O calls return.
- `TargetWipe`: weak fairness of all steps together, of which one is possible at a
  time, or the pool's, which `ThreadedPass` shows to end.
- `DetachedWipe`: weak fairness of the main thread, in the detach and out of it, and of
  the monitor. Other programs get none: they may hold a volume for ever.
- `WipeExecute`: weak fairness of main thread and monitor; none for *Killed*.
- `WinPwrite`: weak fairness of each writer; a retry is bounded by the code, so
  nothing is assumed of the device but that a call returns.
- `AndroidWipe`: a command proceeds while it has a phone to go to; `AndroidEnds`
  assumes in its statement that the phones stay from some time on.
- `GuiWizard`: the timer fires. The user owes nothing, and no process has to end:
  `run_interactive` waits for its command without a timeout (only the refresh of the list
  has one, `overwrite_gui.py:992`), and `fastboot` for a phone (`android.c:24`). While a
  process runs the strip may run for ever; `StripSettles` begins where none is left.

## 4. Proofs

Constants are arbitrary within the `ASSUME` of their module.

`OwArithProofs` has the lemmas about `AlignDown`: it is the greatest multiple
of the alignment not above the value, multiples are closed under sum,
difference and product. They follow from the definition of `%` for a positive
divisor.

**`ThreadedPassProofs`** proves of `ThreadedPass`, for every number of workers,
total, sector and chunk size and both builds:

- `TypeCorrect`: `TypeOK`, which therefore no run repeats;
- `SplitCorrect`: `RangesPartition`, the ranges are aligned, disjoint, in the
  target and, together, all of it;
- `SuccessComplete`: `SuccessIsComplete`, assuming `Sector <= Chunk`
  (`ThreadedPass_chunk` shows that this is needed);
- `PromiseKept`: `KeepsPromise`, the refinement of `PassSpec`, under the same
  assumption;
- `FailureStopsWorkers`: `StopsAfterFailure`;
- `FailureNamed`: `FailureIsNamed`;
- `ProgressExact`: `ProgressIsHonest`, under the same assumption;
- `PassIsBounded`: each thread has a number of steps left, by the bytes its offset has
  still to go, that every step of it lowers and no other thread raises.

`RangesPartition` is not inductive, as it does not know how the cursor came
about, nor is `SuccessIsComplete`, as it does not know what the joined workers
have done. The invariant `IInv` has three parts: `TypeOK`; `SplitInv`, which
gives the closed form of the split (the cursor is at `spawned` shares, the last
slot has the rest, the ranges tile what is below the cursor); and, for worker
and caller, `WorkerInv` (the bytes from the start of the range to the offset are
wiped, a worker that has ended without a failure has reached its end) and
`CallerInv` (what the caller's position says of the workers). There is one lemma
per action. `StopsAfterFailure` follows with `LateInv` (who still means to write has
written nothing since the flag went up), `FailureIsNamed` with `NameInv` (one worker at
most may claim the error, and it has found the flag clear), `ProgressIsHonest` with
`CountInv`: the counter is the size of the set of bytes between the workers' starts and
offsets, to which a worker adds bytes that are in nobody else's range
(`CountMore`). The refinement follows from `IInv` and `IInv'`: *Write* is an
`Overwrite`, the last join is a `Return`, everything else stutters.

**`TargetWipeProofs`** proves of `TargetWipe`, for every disk, table, file and geometry:
`OnlyWantedWritten`, `GapsComplete` and, assuming `Sector <= Chunk`, `OkLeavesNoSector`,
`InOrder` and the refinement `KeepsPromise`. It has three parts.

- The walk over the partition table (`PartitionGaps`): also `TypeOK` and
  `GapsAvoidPartitions`. `WalkInv` is the argument of the walk: below the cursor
  every sector is in a gap or in a partition (`Covered`), the partitions visited end
  at or below the cursor, and those to come start no earlier than the one at hand,
  as the list is sorted; so what is pushed touches none (`PushFacts`). That sorting
  loses no entry is `Listing`, which *Sort* keeps because it permutes the list. A gap
  begins and ends at a sector, or at the end of the disk (`Shaped`).
- The sequential pass over any list of ranges (`SequentialPass`), stated of the
  instance `Pass`: `TypeOK` (in which `wiped` stays inside the ranges),
  `SilentFailureIsEarly` and, assuming `Sector <= Chunk`, `InOrder` and
  `SuccessIsComplete`. `CursorInv` says that the offset stands a whole number of
  sectors behind the start of its range; when the inner loop ends, less than a
  sector is left, so that the offset is where the whole sectors end (`RangeDoneFacts`,
  from `AlignUnique`).
- Their composition. `TargetInv` holds the invariants of the parts at every stage and
  `AimInv`: once the ranges are there, the bytes of their whole sectors are wanted, or
  one of the excesses that `OnlyWantedWritten` names, and all wanted bytes below the
  last whole sector are among them. `AimInv` is established when the pass begins,
  from `Complement` and `Shaped` for gaps and from the arithmetic of slack-hunter for
  a file (`AnalysisInv`), and nothing changes the ranges after that. With what the
  pass (or the pool, by its promise) says of its target the properties follow.

`WipeIsBounded` says of the whole that it comes to an end. `Distance` is a sequence of
seven numbers: the stages left, the place in the walk, the partitions left, the ranges
left, the place in the loop of the pass, and the bytes left for the pass and for the
pool. In lexicographic order (`Nearer`) it goes down with every step, also where a
chunk holds no sector.

**`WinPwriteProofs`** proves of `WinPwrite`, for any number of writers, extents
and attempts: `TypeOK`, `SuccessMeansWritten` and `FailsForCause`. The count of
the wasted attempts becomes inductive as a budget: at most `Tries` for every
sector gained, and those of the chunk at hand (`Paid`). The steps of a writer
touch of the others' state only the disk, which grows (`OthersInv`). `CallIsBounded`:
the same budget bounds the steps of a call, whatever the other writers leave in the
last error.

**`DetachedWipeProofs`** has two halves. The first proves of `WipeExecute`, which
`DetachedWipe` extends, for any number of passes and any disks:
`TypeOK`, `DiskBackOnline`, `WritesOnlyWhenPrepared`, `SuccessUnlessSilent`,
`TrimAfterFlush` and `MonitorGone`. The invariant says at each place of the main thread
how far the four counts (begun, written, flushed, discarded) are apart, that the
handle is the one for writing, and whether a monitor may be left. None of the
properties is inductive alone: what `Finish` and `Restore` report depends on how the
loop was left. `ReturnInv` adds the promise of `ExecuteSpec` to it, from which
`PromiseKept` follows: the one step that the model of the command line takes for
`wipe_execute` has no result but those, and they are proved for any number of passes.
`GuaranteesCarryOver` says that all of it holds of `DetachedWipe` too: the steps that the
two do not share are those of the detach, which keep the invariant
(`PrepareKeepsReturn`). `WipeIsBounded`: the main thread has a number of steps left
that goes down with each, and while it waits for the monitor, that one's does.

The second proves of `DetachedWipe`, for any number of volumes and passes,
with other programs at any point: `OkMeansDismounted`, `LettersOutliveRetries`,
`WritesSpareMounted`, and `ImplementsExecute`, the refinement. `DetachInv` is about the
cumulative counts: as long as they are equal, no attempt of any pass has failed
(`AttemptKeeps`), and by the end of the first stage every letter has been tried or
passed over. What a success leaves out is in the statements: the letters in `skipped`, and
volumes without a letter.
`WipeInv` ties the wipe to the detach: behind *Prepare* the detach has returned, and
where the wipe goes on it has succeeded. In the refinement each step outside
*Prepare* is the same in both (`MainIsAbstract`, `MonitorIsAbstract`, `KilledIsAbstract`),
and those of the detach stutter but the one that returns (`DetachIsAbstract`).
`DetachIsBounded` counts the steps of the detach from the rounds, the stages and the volumes
that a stage has still to look at; other programs do not set the count back.
`DetachTypesHold` is `TypeOK` of `DiskDetach`, whose bound on the attempts (nine for each
volume) needs another budget (`Budget`): attempts made and attempts still possible
together never exceed it.

**`FrontEndProofs`** proves of `CommandLine`, for every command line and whatever
fails: `TargetAsNamed`, `WipedAsAsked`, `ConsentFirst`, `NoHandleLeft` and `FilesRemoved`,
and of `CliRun` its `TypeOK` (`RunTypes`).
`TargetAsNamed` is about the target alone: that a pass or a secure erase over gaps may reach
further is the subject of `target_image` and `WipeExecute_erase`.
The invariant says what has been understood of the words, what has been done to
the target at each place of `main`, and whose turn it is to remove the filler.
Of `GuiWizard`, which it extends next to `CommandLine`, it proves `ConfirmedTarget` and
`PreviewIsRun` for any operations, targets and number of processes. What carries both is
`PageInv`: from the review page on the preview is the command of the present settings,
because settings change on earlier pages only and every way back leads over the review.
`StripHasCause`: as long as the strip runs, a process has still to end or its message lies in
the queue; so the next turn of the timer finds what stops it.

**`AndroidWipeProofs`** proves of `AndroidWipe`, for any set of phones and however they come
and go: `TypeOK`, `OnlyAgreed`, `SuccessMeansUserdata`, and that the sequence takes
sixteen steps at most (`WipeIsBounded`). The invariant ties the place in the
command sequence to what has been agreed (`PathInv`), what has been touched to the phones
that the commands may go to (`TouchInv`), and whatever comes after userdata to userdata
having been formatted (`UserdataInv`).

**`RngStreamProofs`** proves of `RngStream`, for any number of threads and passes, any chunk
and piece size, and a counter that wraps anywhere: `FilledOnce` and `NoBlockTwice`. The latter is
not inductive, as it does not know where the counters stand. `OwnerInv` says that a key
belongs to one thread in one pass, as every key is drawn anew before the first block;
`CounterInv` that the blocks of a key have, back from the counter, one value each (modulo
`Wrap`), so that two agree only when there are more of them than values; `FreshInv` that
the positions of xoshiro's stream lie below its count of words. The places of a chunk
follow one another whatever its size (`FillForm`, which has the three cases of hybrid mode).

Only model-checked: liveness (`PassEnds`, `WipeEnds`, `Finishes`, `DetachEnds`, `CallsReturn`,
`AndroidEnds`, `StripSettles`), which is out of the proof system's reach under fairness. Of all
of them one half is proved for every value of the constants: the theorems `StripHasCause`,
`PassIsBounded`, `WipeIsBounded` (of `TargetWipe`, `WipeExecute` and `AndroidWipe`),
`DetachIsBounded` and `CallIsBounded` say that none of the threads, calls or command
sequences that must end can take steps for ever, and that the strip has its end before it. The
other half, that as long as the end is not reached a step is possible and fairness makes
it happen, needs ENABLED, and is what TLC checks on the instances of the runs. Every
invariant and every other property of the passing runs is proved. The inductive invariants
were model-checked on the instances of the runs before they were proved.

The type invariants are theorems, or parts of the inductive invariants, of every module but
`GuiWizard`, where `WizardTypeOK` is stated (adding it to a .cfg checks it) and `PageInv` holds
what the proofs need of it.

## 5. Not modelled

- Device listing and hidden areas (`devlist.c`, `hidden_area.c`): they print what the
  system returns, and nothing reads the result.
- `platform_linux.c` and `secure_erase_linux.c`: the first does not compile at this
  commit, the second is a sequence of ioctls; their results are inputs of the
  modules above them.
- Of `platform_win.c`: queries of geometry and volumes, discard and allocation, which
  are single calls to the system, by their results.
- The ciphers: ChaCha20 and xoshiro are functions of key and position.
- Wording, layout and the arithmetic of the progress bar; the bar enters
  `WipeExecute` by its lifetime.
- Decoding of GPT and MBR bytes. A whole sector is read into the 92 bytes of a header
  (`partition.c:102`, `188`, `213`); what that does to the stack is undefined, and enters
  `PartitionGaps` as one more outcome of *Read*, the crash.
- `mkfs`, `diskpart`, `format` and `fastboot` themselves: external, by their results.
- What two wipes of one target do to each other, which the wizard allows
  (`overwrite_gui.py:1048`): `GuiWizard` has both, but as opaque processes of the tool.
- What a process killed in the middle leaves behind, beyond that a disk may
  stay offline and a filler in place: nothing recovers from it.

## 6. What is left

All components whose control is the program's own are modelled, all their safety
properties are proved, and that their loops are bounded. Worth doing next:

1. the composition of `TargetWipe` with `CliRun`, so that exit code 0 is tied to bytes
   through all passes;
2. two processes of the tool on one target, as the wizard allows it.
