# Formal models of the SonoffS60OTA conversion

This directory holds TLA+ models of the program that converts a Sonoff S60
plug from its vendor firmware to Tasmota over the air, the TLC configurations
that check them, and TLAPS proofs about the parts where a mistake costs the
plug. Nothing in the system can be undone by hand: the plug has no accessible
serial port in normal use, its flash is rewritten by a program that runs from
that same flash, and the host can lose the plug, the network, its own process
or its operator at any moment. The models are about exactly that.

## 1. The system

Three kinds of actors, each with state of its own:

    operator --- checklist runner ---- phase runner --- migration server
    (prompts)    (s60_autoflash.py)    (phases.py)      (serve_safeboot_migration.py)
                        |                    |                  ^
                        | OTA, HTTP          | br?c1=...        | chunks, captures, report
                        v                    v                  |
                       plug:  stock / bridge / Tasmota + Berry program

| Component (under `src/`) | State it keeps | Operations | What makes it correct |
|---|---|---|---|
| commit program, `repartition/berry/commit.be.tmpl` | flash sectors, the closure's `armed` flag, buffers in RAM | guards, fetch the table, copy sector by sector, erase tail and otadata, write the table, roll back, report, restart | an overlapping copy loses no sector; a power cut leaves something that starts; PASS and `rollback=true` are true; a closure is used once |
| preflight, stage, restore programs, `repartition/berry/*.be.tmpl` | the settings region, the staging area or the factory partition | guards, fetch/write/read back/upload, verify, erase, report | what is reported is what is in flash, also while the firmware saves settings |
| migration server, `tools/serve_safeboot_migration.py` | phase, session token, captures, evidence files | serve program and chunks, receive captures, judge a report, time out | only a report of this session and phase, backed by the captured bytes, becomes evidence; each phase demands the evidence of the earlier ones |
| phase runner, `tools/autoflash/phases.py` | server process, where the conversation stands | start, load, confirm, arm, wait, clean up | it ends, and what it returns is what the server judged |
| checklist runner, `tools/s60_autoflash.py` | `run.json`, lock files renamed away | 14 steps, resume, `step`, evidence questions, verifiers | a record never runs behind the plug; "conversion complete" is true; running the same command again completes the conversion |
| run state, `tools/autoflash/state.py` and `resolve_run_name` | one state file for each run, the pointer to the current one | resolve a name, load, mark, atomic save | a new run is new; a kill loses one mark at most; plain repetition finishes what was begun |
| recovery bridge, `archive/bridge/main/main.c` | boot selection, peer slot, upload handler, delayed restart tasks | boot, pin, receive, validate, select, answer, restart | the boot selection never points at an image that does not start |
| artifacts and validators, `tools/safeboot_migration.py` | files; the addresses of both layouts | parse a table, check a manifest, judge settings, age of evidence | the regions written do not meet; an accepted table's partitions are apart; settings that pass survive the migration |
| preparation, `tools/prepare_safeboot_migration.py`, `tools/prepare_recovery_safeboot_migration.py` | a directory of artifacts with its manifest | fetch, judge, copy, write, record | a server serves pinned files of one manifest; a directory left half done is mended by preparing again |
| status tool, `tools/safeboot_migration_status.py` | none | validate the bundle, read the evidence, name the next phase | see *Not modelled* |
| device client, `tools/autoflash/device.py` | none | HTTP, upload, wait for a reboot | a restart is seen, and only a restart |
| vendor OTA server, `tools/serve_tasmota_ota.py` | byte ranges served | answer ranges, measure coverage, decide the end | success iff every byte was served |
| imprinting, `tools/autoflash/imprint.py` | an image | find, write and blank fields, seal, compare | exactly the fields change, however often; an accepted bundle is the published image |
| prompts, image building and validation scripts, cloud and discovery tools, archive | - | input and output | see *Not modelled* |

**What is hard.** Two programs on two machines without a common clock, with
answers that can be lost after the request was carried out; a closure that
outlives the server that loaded it; commands a busy plug carries out later;
settings the firmware writes while they are read or while the copy runs over
them; files prepared again while a server reads them; a copy over its own source; a
table whose rewrite cannot be atomic; a process killed between two effects;
evidence that is right when written and stale when used; retries of steps that
have half happened. `PROJECT.json` lists each as a hazard at its line.

## 2. Modules

| Module | Models | Checked by | Proved in |
|---|---|---|---|
| `S60Flash` | flash sectors, the two layouts, what the bootloader can start (external) | through `Commit` | `CommitProofs` |
| `Commit` | the commit program, one action per flash operation | `MCCommit` | `CommitProofs` |
| `LayoutSwitch` | abstract: what the commit program promises of the layout and of its reports | `MCCommit` | `CommitProofs` |
| `Bridge` | bridge: boot, upload handler, delayed restart, power switch | `MCBridge.cfg` | `BridgeProofs` |
| `Phases` | runner, server and Berry programs for all four phases, as a protocol | `MCPhases` | `PhasesProofs` |
| `Autoflash` | the whole checklist against a plug, a process that dies and an operator who runs it again | `MCAutoflash*` | `AutoflashProofs` |
| `PartitionTable` | reading a table sector and bounding its partitions | through `Judgement` | `ArtifactProofs` |
| `Nvs` | the settings analyser, and the storage library it can catch in a save (external) | through `Judgement` | `JudgementProofs` |
| `Judgement` | what the server makes of a preflight, in either mode | `MCJudgement` | `JudgementProofs` |
| `Bundle` | the prepared directory, its two preparation tools, a server that starts on it | `MCBundle.cfg` | `ArtifactProofs` |
| `Promote` | step D4: self-upload until the high slot, and the wait for a reboot, in ticks | `MCPromote.cfg` | `HostProofs` |
| `Runs` | which run a command is about, and how its state file is kept | `MCRuns.cfg` | `RunsProofs` |
| `Delivery` | the vendor OTA server: range coverage and its main loop | `MCDelivery.cfg` | `HostProofs` |
| `Imprint` | credentials in the recovery image, and the bundle's check | `MCImprint` | `JudgementProofs` |
| `Layout` | the addresses of both partition layouts | - | `ArtifactProofs` |

`Commit`, `Phases` and `Autoflash` look at the same conversion at three scales. In
`Commit` a step is one flash operation and the host is only somebody who loads
closures and hears a report. In `Phases` a step is one request, one chunk or
one judgement, and the commit's flash work is one step with the outcomes
`Commit` shows it to have. In `Autoflash` a step of the checklist has one
effect on the plug, with the outcomes `Phases`, `Commit` and `Promote` show.
`Runs` and `Promote` open up two places where `Autoflash` is coarse: the files
behind a record, and what a restart looks like from the host. `Layout` ties
`Commit` to this plug: it instantiates `S60Flash` with the code's addresses.
`Judgement` extends `PartitionTable` and `Nvs` and opens up the preflight verdict
of `Phases`: there a report is judged against captures that are names, here the
captures have slots, pages and entries. `Bundle` opens up what `Phases` takes for
given when a server starts: that there is one manifest and that its files are
what it says.
The three scales share these outcomes and are not instances of one another.
What the larger two take from `Commit` is stated by `LayoutSwitch`, which `Commit`
implements: `Promise` in `Commit` instantiates it.

### Commit

`flash` maps a sector number to an abstract content; `pc` names the next flash
operation of the program. One action stands for one `flash.erase`,
`flash.write`, `flash.read` or hash: `Buffer` (lines that save the old table and
boot records and disarm), `CopyRead`/`CopyErase`/`CopyProgram`/`CopyCheck` (the
loop body; erase and program are separate because power can go between them),
`Verify`, `EraseTail`, `EraseNewOta`, `TableErase`/`TableProgram`/`TableCheck`,
and the rollback in the same granularity. `Raise` is a Berry exception in the
`try` block, the second disjuncts of `CopyProgram`, `TableProgram`,
`EraseAndCheck` and `Restored` are sectors that do not take what is written.
`Save` is the firmware writing a sector of its settings at a `tasmota.yield()`. There
is one after each sector that is copied (line 118) or hashed (line 36), so one in
every check, and the source table's settings partition ends at 0x19000 (`NvsEnd`):
what is written can be a sector of the new Safeboot that has been copied and
compared already. `SaveAhead` is a save that a check still to come looks at: during
the hashing of the staged image after the settings were hashed, and during the copy.
It leaves `Saved`. `SaveUnseen` is one at a yield of the check of the copy or of a
later one (lines 121-140), over a sector that has been hashed; it leaves `Unseen`. No
later check reads that sector, and a damaged Safeboot ends in a PASS. The two
contents are kept apart so that the properties can say which save did what: until the
body is hashed (`Verify`) a copied sector holds the image or a save, nothing goes on
past `Verify` with a save that it saw, and after it the image is in place but for
what was saved unseen (`PutAt`, `Cleared`). `PassTruth` is the truth with that
condition, and `PowerSafe` names the one state in which nothing starts because of it
(`Spoilt`).
`Off` is a power cut or the restart: RAM, and the closure with it, is gone.
`Boot` is the bootloader, external: it starts what `BootChoices` allows.
`Init` allows a staged copy that was damaged since, or settings that changed
since preflight, so the guards have something to refuse.

`LayoutSwitch` has four variables: the layout ("between" while the table's sector is
rewritten), whether the new Safeboot has been put in place, the attempt ("forward", then "none" or
"back") and the host's last word. `Promise` maps the table's sector, `PutAt`, the
program's position (`Attempt`) and `heard` to them. So `SwitchesLayout` says that
the table is left alone until the whole image has been put in place, that an attempt given up
only leads back, and that a report tells which layout it is.

### Bridge

Each call of `update_handler` that changes something is an action, because a
power cut or a failing library call can come after any of them. `Respond`
leaves a task behind (`restarts`), and the handler is free for another request
before it fires - the interleaving a test would hardly produce. `xTaskCreate` can
fail, and main.c:133 does not look: "verified" has been answered and nothing
restarts the plug (`taskless`). `VerifiedBoots` begins where such a task exists, or
where none has failed.

### Phases

`server`, `runner` and `program` are three processes. A request of the plug is
one action with three outcomes (`Request`): answered; lost or refused;
carried out with the answer lost. `queued` holds commands sent to a plug that
is busy or out of reach; they are carried out later, under whichever server has
the port then. `Abandon` is every way out of the runner, also the exception
that leaves the server behind. The server is one thread without a time limit on a
connection: a plug that is cut off in the middle of a request holds it (`Hang`,
`Held`), and then it neither answers nor looks at its clock. The runner's own wait
ends it (`GiveUp`, phases.py:170-175); one that its runner has left behind stays. A
server that finds the port taken has printed what to load before it knows
(`ServeTaken`). `Save` is the firmware writing its settings
between two reads. Two `Manifests` are two migrations prepared with different
Wi-Fi settings, whose images differ in one chunk: a stage of one must not pass
for a stage of the other.

### Autoflash

`record` is `run.json`; `mode` and `at` are where the process is in
`cmd_run`/`cmd_step`/`execute`; `plug` is the plug, and `task` the step it
works on, which goes on without the host. `STEP_INDEX(s)` gives for each step
what it demands of the plug, what it leaves when it succeeds or fails, and the
evidence its server demands. `Disagrees` are the verifiers, `Told` the evidence
questions of an interrupted step that the plug answers, `Finished` what an
operator who looks can find out for the others. Mishaps are pairs of a kind and
a step taken from the constant `Hazards`, so that a run says which ones it
allows. `Refuse` is a step that does not start: a lock that is not there or evidence
that is not fresh ends the process, a port that is taken is a failure of the step.
`Rehearse` is D4 or F2 under `--dry-run` (lines 721-723 and 864-866), which upload
nothing and are recorded done; the other steps do not look at that flag.

### Delivery

`unique_bytes_served` merges the ranges the way the code does: `Extend` is one
turn of its loop, and the fold takes the positions of the list in the order of
`sorted`, the latest last. The main loop, the plug that fetches, the cloud socket that can fail at
any time and Ctrl-C interleave. `conn` is the one server thread with its one
connection; a range is sent and counted in two steps because the main thread
can look in between, and a connection that breaks is never counted.

### Runs

`saved` holds the state file of each run, `data` what the process has in
memory; `pointer` is `.autoflash-current`. `RunNamed`, `RunNew`, `Continue` and
`Begin` are the branches of `resolve_run_name`; a name is a base (an address or
a minute) and a suffix, so that `--new` has names to avoid. A save is
`WriteTemporary` and `Replace`; `Kill` can come between any two steps and can
lose the pointer. `TakeBack` is a verifier that disagrees with a recorded step.
The model shows two things that are no violation of what is promised: a
conversion whose earlier step was taken back after its last was done is
complete to `run_is_complete`, and only `--run` continues it; and "Start a new
conversion" takes a plain name even if a completed run has it, so it can resume
that run's record (`Begin`), which is why `NewIsNew` is about `--new` only.

### Promote

`slot`, `uptime`, `up` and `pending` are the plug; a tick is the unit in which
it delays its restart, starts and is polled. `Answered`, `Unanswered` and
`Lost` are what a request can meet. `step_promote` has an action for each request it makes,
`wait_for_reboot` one for each of its two polls, for a restart seen, the
settling and the deadline. An exception that escapes ends the process like
`Kill`. `dry` is `--dry-run`, chosen with each command: `FirstSlot` then returns
whatever the slot, and D4 is recorded done; a later run takes it up again if it finds
the plug in the low slot. `disturbed` is a history variable: it says that one of the
circumstances occurred under which a restart may be missed.

### Imprint

An image is its bytes and a seal over them; a marker is one byte. `Imprint`
writes both fields and seals; `Alter` and `Reseal` are other people's changes to
the file. `require_imprinted_manifest` is the check a bundle passes without the
credentials being known: the image with its fields blanked is the published
image with its fields blanked.

### PartitionTable, Nvs and Judgement

`ReadPartition`, `ReadMd5` and `ReadOther` are one turn each of the loop of
`parse_partition_sector`; `Bound` is one turn of `validate_partition_bounds`,
which takes the partitions in the order of their addresses and keeps the end of
the last (`previous_end`). `TableSound` says what a caller relies on, pairwise,
and that nothing that satisfies it is refused for its bounds.

`Nvs` has two halves. `Walked`, `invalid_entries`, `complete` and `ready` are
`analyze_canonical_nvs` on pages of entries: the walk that steps over a record's
payload, the chunk numbers that wrap at 256, the sum of the chunks' sizes. The
rest is the plug's storage library as the analyser's format implies it: a blob
is written as chunks and an index beside its old version, the old one is erased
afterwards, and a full page is followed by any empty one, in the window
that the migration keeps or past its end. The last operators (`Whole`) say what
a reader of the window alone would find, without the analyser's walk.

`Judgement` starts with any sector of `Tables` and lets the library work until
the capture, then judges in the order of `_finish_preflight`: table, exact
partitions, settings, report. `PassKeepsSettings` is what an official migration
needs of a PASS: the settings and the Wi-Fi's record can be read from the
retained window, in one version. `FailEarned` is the other direction: a recorded
FAIL names a real defect or a save under way.

### Bundle

`base` and `out` are the two directories, `preparer` the preparation that runs,
`server` one that starts, with what it has read so far. Every file that is
written or read is an action, since nothing locks the directory. `built` is a history of which
image each manifest was written for. `main` verifies the files against the
manifest it loaded; `MigrationState` then hashes the manifest that is on disk by
now (`Identify`) and reads each artifact again against the loaded one
(`AsLoaded`). So a server that is up always serves files of the manifest it
loaded (`ServedPinned`), but may record another's identity: for a preflight that can really happen
(the directory is prepared with another image before `Identify`, and with the
first one again before `ReadImage`), for the later phases `IdentityTruth` shows that the chain of
evidence excludes it.

### Layout

No state: the two partition tables, the addresses the templates are filled in
with, and `SizeAccepted`, what the validator lets pass of a Safeboot.

## 3. What the runs check and show

| Run | Verdict | Shows |
|---|---|---|
| `commit` | pass | copy, power, PASS and rollback properties, with two faults or settings saves (at any yield), two cuts and two loads in any places; every called program ends; and it implements `LayoutSwitch` |
| `bridge` | pass | the boot selection, the honesty of the answers and the boot of a verified image once a task to restart exists |
| `phases` | pass | the evidence chain with lost requests and answers, orphan servers, connections held for ever, late commands, two manifests and settings that change |
| `autoflash` | pass | write-ahead record, truth of completion, truth of the commit's evidence and the guard of the table rewrite, with any three mishaps of any kind at the steps that write, dry runs among them, and steps started out of order |
| `autoflash_mended` | pass | the mishaps that a second run mends, any three: the conversion completes and the locks come home |
| `autoflash_unmended` | **violation** | one of four mishaps that it does not mend (below) |
| `delivery` | pass | coverage is counted exactly, the tool ends, and success is only said when every byte was served |
| `runs` | pass | a run asked for with `--new` is new, a record is never more than one mark behind, repeating the plain command completes everything begun |
| `imprint` | pass | an accepted bundle is the published image with a name written in; rewriting leaves nothing of earlier values |
| `promote` | pass | a restart is believed only if it happened and missed only under named circumstances; D4 done, but for a dry run, means the high slot |
| `judgement` | pass | an accepted table's partitions are placed and apart; a preflight passes only settings that survive, and fails only ones that may not |
| `bundle` | pass | what is served is pinned, what is recorded is of its manifest, a bundle is mended by preparing it again |

`autoflash_unmended` is a disagreement between what the documents promise ("Run the
same command again", "it doesn't matter") and what the code does. `MCAutoflash`
has four sets of one mishap each, and each of them alone violates `Completes`:
put its name for `mcUnmended` in the cfg to see that counterexample. In
`mcReportLost` the commit's PASS is lost: redoing is refused, and the restore has
no commit evidence. In `mcRestoreFault` a restore that stops half way demands,
at the next start, the image it has partly overwritten. In `mcWindowClosed` the
window is closed while a lock is renamed, and the next run cannot rename it. In
`mcDryRun` F2 is rehearsed with `--dry-run`, which records it done; the real run
cannot ask a Safeboot whether the app is there, skips F2 and fails at G1. `findings` in
`PROJECT.json` quotes each line. None of them bricks the plug: in each it runs,
and the checklist does not complete by itself. Modelling met more of the same
family, which are built into the models and have no run of their own:

* A commit that rolls back after overwriting its staged copy cannot be repeated:
  E2 is recorded done and skipped, and the guards of E3 refuse
  (docs/troubleshooting.md:13-14, "Re-running is safe").
* A bridge that loses power over an erased peer comes up and serves nothing
  (main.c:210), although main.c:89 and s60_autoflash.py:648-649 promise that it
  can be run again.
* A cloud stream that is reset instead of closed ends the HTTP delivery, which
  serve_tasmota_ota.py:284-285 says must continue.
* D4 repeated after a restart that was missed, or after any failure that follows
  the swap, finds slot 1 and returns "Nothing to do here" (s60_autoflash.py:718-720)
  without `SaveData 0`, although its title says it freezes the settings: the
  second alternative of `HighSlot`. `wait_for_reboot` misses a restart whose
  baseline is low, and lets a plug that goes away between its two requests end
  the program.
* A second upload that the bridge takes before its delayed restart: the second
  alternative of `VerifiedBoots`.
* Settings saved at a yield of the checks after the copy, over a sector of the new
  Safeboot: the commit's PASS is sent for an image that does not start
  (`SaveUnseen`). D4 turns saving off, when it gets to it.
* The bridge's restart task that cannot be created, after "verified" was answered
  (main.c:133).
* A plug that vanishes in the middle of a request holds the phase server
  (serve_safeboot_migration.py:646-651) until the runner's own wait ends it, or for
  ever if the runner is gone: the exception in `AllEnd`. The vendor OTA server waits
  for such a connection without end (serve_tasmota_ota.py:311).
* The status tool's docstring promises "the next resumable stage", but it looks at
  nothing of the age, the manifest, the image and the settings hash that the server
  demands of the evidence (`Admits`), so it can name a phase whose server refuses.
* Evidence older than two hours between stage and commit, whose step is done and
  skipped; and an app that is up but not seen within five minutes at F2.

The runs state `CHECK_DEADLOCK FALSE` because the modelled systems really may
stop: an idle plug, a dead one, a completed conversion or an exited tool has
nothing left to do once the bounds on mishaps are used up.

### Bounds, and why they are enough

* `commit`: `L` 3 sectors copied down by `D` 2, so that the copy overwrites its
  own head, one sector of old boot records inside the overlap, one sector of tail
  (`T` 4), one of settings and one of new boot records. `L > D` is what makes
  order matter; the proofs cover every `L`, `D` and `T`. `NvsEnd` 4 lets a save
  hit the first sector of the copy. Two faults: one in the
  forward path, or a save at any yield, and one in the rollback it causes. Two cuts and two loads: an
  attempt, its repetition, and an interruption of each.
* `bridge`: three uploads (a second and a third before the first's delayed
  restart), two buffers, two faults, two cuts.
* `phases`: two chunks of which one is imprinted and the last ends inside its
  sector, two settings chunks and two saves (a torn reading needs two chunks
  and a save between), four servers (a whole chain, or repetitions of a part),
  one mishap. A server that finds the port taken sends its command only when no
  other is on its way. Two mishaps give several million states and do not fit a short run.
* `autoflash`: three mishaps, two extra `step` commands. `--dry-run` is a mishap of
  the step it changes.
* `delivery`: an image of four bytes and any three ranges over it, also empty,
  inverted and past the end: three ranges can nest, touch, overlap and leave a
  gap of one byte between two, and the fourth byte leaves one uncovered.
* `runs`: two addresses and a minute, two suffixes, two steps, three commands
  that name or begin a run, two kills: two unfinished runs and a third, an
  interrupted save and an interrupted repetition. The proofs cover the rest.
* `imprint`: nine bytes with fields of three and two; values that are empty,
  short, exactly fill, are too long, consist of filler or hold a marker; two
  alterations, which can move a marker. The proofs cover every image.
* `promote`: `Poll` 1, `Gap` 2, `Settle` 2, `Deadline` 6, `Delay` 1, `BootMin` 1,
  `BootMax` 2, with `Delay <= Settle` as in the code's seconds, two faults and
  two commands. `MaxUptime` 6 is above `BootMax + Gap`, so that both low and high
  baselines exist. The numbers keep the order of the code's, not their ratios.

* `judgement`: the stock table at its real addresses in eight slots, fourteen
  other sectors wrong in one way each (the proof covers every sector); pages of
  six entries, three in the window and one outside, keys of one and two chunks,
  three saves: a first version, its replacement while a page turns, and a second
  key. A record's payload is one entry (`Span`), a page is never reclaimed, and one record
  or header goes bad. The proofs cover any pages,
  entries, keys and numbers of chunks, at a payload of one entry.
* `bundle`: two images, three manifests besides those that mend, four servers (a
  whole chain), one mishap. The proofs cover any number.

### Fairness

* `Commit`, `Bridge`, `Phases`: the Berry program, the bridge's tasks and the
  bootloader run when they can; FreeRTOS schedules ready tasks. In `Bridge`
  the fairness of `Handler` includes a client that goes on or disconnects;
  `VerifiedBoots`, the one liveness property there, begins after the upload and
  uses only that a delayed restart that was scheduled and the boot happen.
* `Phases`: the server's clock runs (`Timeout`, `--wait`) as long as no connection
  holds the server's one thread, the runner's runs always (`GiveUp`,
  `exec_timeout`), and the operator answers the runner's confirmation. Nothing is
  assumed of a held connection.
* `Autoflash`: the operator runs the same command again (`Progress`) and the plug
  ends what it works on. No mishap is fair: they may happen and need not.
* `Delivery`: both threads are scheduled, and the loop's clock runs out. The plug
  need not close its connection, so `ProcessEnds` assumes that it does, and says
  nothing of one that is held for ever.
* `Runs`: the operator repeats the command while something is under way, and the
  process goes on. `TakeBack` and `Kill` are not fair; kills are bounded, and a
  step is taken back only while its loop is at it.
* `Bundle`: a preparation that is not killed goes on, and an operator whose bundle
  is refused prepares it again. The second tool refuses as long as the first
  directory is not whole, so its fairness is strong: the first can be started in
  between over and over.
* `Promote`, `Imprint` and `Judgement` state safety only.

## 4. What is proved

TLAPS checks the following for every value of the constants, from
the assumptions on its constants. They say that the regions do not
overlap where the code's addresses do not, that the bounds are natural numbers,
that a marker is not another marker, what the publisher's own validation
finds of an image, that no migration's image is the official one (the manifest
check refuses it, safeboot_migration.py:306 and :349), that a blob has at most 128
chunks (the library numbers those of one version from 0 to 127, of the next
from 128 to 255), and that a plug takes less
time to restart and answer than D4 waits (device.py:236, four minutes).
`PROJECT.json` lists the theorems. The type invariants of
`Commit`, `Bridge`, `Runs`, `Imprint`, `Bundle` and `Autoflash` are proved and no
longer among the runs' properties.

**CommitProofs.** None of the safety properties of `Commit` is inductive by
itself: that a copied sector is in place depends on the source still holding
what has not been copied, that a rollback restores the truth depends on the
buffers having been filled from an intact table, that a PASS stays true depends
on nothing but settings being written behind the checks. `IInv` is their conjunction with
`ControlInv` (where control can be, and what that says of the closure),
`ForwardInv` (what the guards established and what is installed so far),
`RollbackInv` (what the buffers hold) and `AfterPass`. One lemma per action shows
`IInv` preserved; the heart is `CopyProgram`, where the destination sector
`Dst + off` is a source sector only of chunks already copied because `D > 0`.
From `IInv` follow `TypeCorrect`, `OverlapSafeCopy`, `PassIsTruth`,
`RollbackIsTruth`, `PowerLossSurvivable` and `ClosureIsOneUse`.
`CommitSwitchesLayout` is the refinement: under `IInv` every action is a step of
`LayoutSwitch` or changes nothing of it (`BeginPromise`, `PreparePromise`,
`GiveUpPromise`, `SwitchPromise`, ...). It needs two facts the safety properties do
not, that the table is torn while either rewrite of it is half done.

**BridgeProofs.** `HandlerInv` ties each handler position to what it has
established (pinned, erased, validated); with it `SelectionStarts` and
`FallbackKept` are inductive, and `HonestHandler` follows as an action property.

**AutoflashProofs.** None of the four properties is inductive: that the record
runs ahead depends on a destructive step being marked before it starts, that
completion is true depends on what the running task demanded of the plug still
being so. `ReadyInv` says the latter for each task, `ControlInv` the former and that a
success is acted on before the plug gets another task; `IInv` adds the type and
the three invariants. The theorems hold
for every set `Hazards`, `StepCommands` and every bound: also for mishaps at the
steps the runs leave out. `LocksHome` is not true for every `Hazards`: a window
closed while a lock is renamed leaves it away (`autoflash_unmended`). What is
always true is `LocksAccounted`: a lock is away only while its step is under way
or where such a window can be closed on it. `LocksComeHome` draws the
conclusion when none can, which is the only hypothesis it needs.

**PhasesProofs.** What three processes that share no clock know of each other.
`TInv` types them, with the pairs that belong together: an armed or running
program of a session was loaded by the server of that session, and no session is
newer than the server's. `AgeInv` uses that the settings' versions only grow: what
was read earlier is never newer. `PreflightInv` keeps a witness: between the two
readings of a preflight there was a state of the settings no older than the
first and no newer than the second, so a report that finds them equal has read
that state (`SnapshotIsReal`). `ChainInv` follows the evidence from the server
that checks it to the closure and the program that run on it, over any number of
later servers and other migrations' evidence; `PlugInv` says where each program
finds and leaves the plug. One lemma per action gives what it changes, and one
per part of `IInv` goes through them.
`CommitChain` was stated more strongly before the proof was tried: that the
evidence at the rewrite is of the commit's own migration. That is false, although
four servers and one mishap do not show it. The request that arms a commit is
lost to a busy plug and carried out late; meanwhile another migration is
preflighted and staged, the first one's image is staged again without its report
arriving, and the other one is preflighted again and its commit served: nine
servers, two mishaps. The late closure finds its own image, and any commit's
server gives it the table. The property now says what the code ensures: the
commit's own image is in place, the preflight and the stage are of one migration
and of the settings the commit found, and they are the commit's own unless a
stage has passed since. The run's mutant, a server that accepts a commit without
a stage, still violates it.

**ArtifactProofs.** The files before they meet a plug. `TableInv` says that what
has been bounded lies below `previous_end`, where its last partition ends, and
that what is left begins no earlier; from it follow that no two partitions meet
although only neighbours are compared, and that a refused partition really meets
one before it. `ServerInv` follows a server that starts on a bundle: what it has
read is of the manifest it loaded, its identity is not older than that, and no
record is younger than what it loaded. So when an earlier record carries its
identity, as the phases after preflight demand, the two are one manifest's, and
`IdentityTruth` follows.
`LayoutOfTheCode` discharges `LayoutAssumption` for the addresses of
`safeboot_migration.py` and any Safeboot the validator lets pass, so what
CommitProofs proves is proved of this plug. `AddressesOfTheTables` says that the
addresses are the partitions' and that nothing written reaches the running slot.

**HostProofs.** Two parts of the host. For D4, `PendingInv` bounds how long a
restart can be outstanding at each point of the wait, `ClockInv` says that a clock
read twice has only gone on unless the plug restarted (`RestartReal`), and
`WaitInv` that a plug which was up for long before shows a shorter uptime at the
first poll after it is back, which is `RestartSeen`: it is a race of four
durations, and the assumptions on them are the code's order of them.
For the vendor server, `MergeCountsOnce` is about the algorithm alone: for
every list of ranges, however they overlap, `unique_bytes_served` is the number
of bytes in their union. It needs induction over a list that is sorted by
`CHOOSE`; the library's induction theorems take an operator, which the provers
cannot instantiate, so `SubsetInduction` takes a set: the family of subsets for
which the claim holds is all of them, by the well-foundedness of the strict
subset order (`WFMin`). `FoldUnique` and `FoldExists` then give the fold its
equation, `Counted` is the invariant of the loop: so many bytes are in runs that
are over, and the rest of the union is the run at hand. With it `CoverageIsExact`
and `SuccessIsTruth` follow from `DeliveryInv`, whose core is that the bytes sent
are the union of the ranges counted, but for the one whose answer is written and
not yet counted.

**RunsProofs.** The invariant is `TypeOK`, `SavedInv` (memory and file agree, or
differ by the one mark under way) and `FreshInv` (a run asked for with `--new`
has no file until its process opens it). `SavedInv` gives `AtMostOneLost`,
`FreshInv` gives `NewIsNew`.

**JudgementProofs.** What the server makes of bytes it did not write. For the settings,
`PassKeepsSettings` and `FailEarned` compare two readings of the same pages: the
analyser's, which walks and counts, and `Whole`, which looks at every entry. They
agree only because of what the library can leave behind, so the invariant `NvsInv`
follows a save entry by entry. `FollowInv` says that a header has its payload behind
it, whole or erased, except for the one entry the job writes next; `RecordsInv` that
every record is of the newest version, of the part of the next that the job has
written, or of the part of the last that it has not erased; `OnceInv` that no record
is there twice. From `FollowInv` the walk steps over exactly the payloads (`WalkIs`;
the recursion along a page is unfolded by its least counterexample, `ReachIs`), so the
analyser finds every record and nothing else (`RecordsAre`). Then `NumbersApart`: two
versions that can be there together and have a chunk number in common are the same,
because successive ones count from 0 and from 128, and never more than two are there. So
the chunks that an index picks are those of its own version (`ReadyIsWhole`, hence
`PassIsKept`), and when no save is under way they are all there is, with the sum
of sizes that the index states (`WholeIsReady`, hence `FailIsEarned`).
`JudgementReadsTables` shows that `Judgement` reads tables as `PartitionTable` does, so
`TablesAreJudgedRight` holds of it.
For the imprinted image, `Provenance` needs no invariant: it is a fact about every
file, an image made by `imprint` or not, and rests on `DerivedTruth`, that two
images which agree when blanked have their fields in the same place. `Rewritten`
is inductive with `TypeOK`; its step is that writing again to a written image
gives what writing to the published one gives. `UsableAlways` adds that
credentials without a marker give an image the check accepts.

Only model-checked: the liveness properties (`RunEnds`, `VerifiedBoots`, `AllEnd`,
`Completes`, `Drained`, `ProcessEnds`, `Mended`): fairness and `ENABLED` are outside
the prover. Every safety property of a passing run is proved, `LocksHome` under the
hypothesis above.

## 5. Abstractions to keep in mind

* Flash contents are names, not bytes; a SHA-256 is equality of contents. A body
  hash does not see the padding of the last sector, and the models keep that
  distinction (`BodyAt`/`PadAt`, `region.pad`).
* A power cut while the table sector itself is rewritten starts nothing. `Commit`
  models it and excludes it from `PowerSafe` by name (`tableProgram`,
  `tableCheck`, and a rollback under way); `Phases` and `Autoflash` do not repeat
  it.
* In `Commit` a save at a yield of a check hits a sector that has been hashed
  (`SaveUnseen`); one that hits a sector still to be hashed fails that check, which
  the failing branches have. Saves after the PASS are not modelled: the program
  restarts without one (`Restart 99`).
* `Phases` and `Autoflash` take the commit's PASS for an image that starts; that it
  need not be after an unseen save is `Commit`'s affair alone. D4 turns saving off
  (`SaveData 0`), and `Promote` shows when it does not get to it.
* A connection that is held for ever is in `Phases` and `Delivery`. In `Autoflash` a
  server that outlives its process ends when the plug's task does.
* `Phases` models the recovery mode the checklist uses; the official mode's
  preflight is in `Judgement`.
* In `Nvs` a key stands for its namespace too, and the library neither reclaims a
  page nor loses power: the analyser refuses what such a moment leaves, but that a
  library would read it is its own affair. The analyser does not ask whether
  the entry that defines the namespace lies in the window, and the model cannot say.
* In `Bundle` one preparation and one server run at a time, the official artifacts
  are one file, and servers are started on the second directory, as the recovery mode does.
* In `Autoflash` the promotion step on a converted plug is taken to be refused.
* In `Promote` a command is typed again in no less time than the plug delays its
  restart, and a plug about to restart takes no further upload. `wait_for_reboot`
  without a baseline is modelled as D4 can meet it (an answer without an uptime),
  not with the other callers.
* In `Runs` one process runs at a time, and a rename is durable once it is done:
  `state.py` does not `fsync`, and a power failure of the host is not modelled.

## 6. Not modelled, and why

Prompts, wording and progress displays; the eWeLink session, discovery and key
derivation; the scripts that configure, build, sanitise and validate an image
(straight-line file tools), with `redact_build_paths`, used once when an image is
published; `list`, `status` and the migration's status tool (they only read and
print: a statement about their advice would follow from how it is computed and say
nothing of the system's steps); two `run` processes at the
same time; an address on the command line that differs from the recorded one;
the archive apart from the bridge. `PROJECT.json` gives the reasons.

## 7. Plan

1. *Done:* the modules of section 2, in the order the table lists them, and the
   proofs of section 4.
2. *Done since:* `PartitionTable`, `Nvs`, `Judgement` and `Bundle`; the firmware's
   saves in `Commit`; `LayoutSwitch` and its refinement; the proofs of `Autoflash`,
   `Bundle`, `PartitionTable`, `Phases`, `Promote`, `Delivery` and `Judgement`.
3. Abstract specifications: an evidence log that only grows by true entries,
   implemented by `Phases`; the invariants of `PhasesProofs` are what it needs.
4. The end of uploads in `Bridge` under the fairness its sockets give, and what a
   host's power failure does to a state file that is not synced.
