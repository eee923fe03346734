# dfm in TLA+

Models, checks and proofs of `dfm`, the dotfile manager of this repository.
Paths below are relative to the repository root; "README" with a section or a
line number is the repository's own.

dfm keeps files of a *target* directory (normally `$HOME`) in step with a
*source* directory (normally a git repository).  A managed file has up to two
source files, a plain one (`dot_bashrc`) and an encrypted one
(`dot_bashrc.encrypted`).  For each pair the state file keeps a *sync record*:
the mtime both sides were given at the last synchronization and the SHA-256
of the source.  Every command compares target, source and record, and decides
from the verdict what may be copied, what is a conflict, and what needs
`--force`.  Nothing locks anything: the user's editor, `git pull` and dfm
itself all write the same files.


## 1. Inventory

| component | code | state it keeps | operations |
|---|---|---|---|
| change detection | `src/lib.rs` 1358-1504 | none | `compare_files_by_timestamps`, `compare_files_by_content`, `compare_files` |
| sync core | `src/commands/{add,pull,sync,forget,mod}.rs` | files of both sides, records in memory, queued tasks | `add`, `pull`, `sync`, `forget`; `sync_file_copy`, `update_sync_state`, `remove_sync_state` |
| state file | `src/lib.rs` 187-231, 504-582, `src/main.rs` 348-384 | `state.toml`: directories and records | `read_state`, `write_state`, `with_state`, `with_state_even_if_error` |
| merge | `src/commands/merge.rs`, `mod.rs` 498-650 | scratch copies | `merge` |
| diff | `src/commands/diff.rs` | scratch copies | `diff` (read only), `diff --editable` |
| purge | `src/commands/purge.rs` | config, source and state directory | `purge` |
| encrypted container | `src/crypt.rs` | blobs; a password cache | chunked encryption and decryption, `write_encrypted_file`, `read_encrypted_file`, retry after a wrong password |
| symlinks | `add.rs`, `pull.rs`, `sync.rs` | links, pointer files in the source | `add -s`, `pull -s`, symlink pointers |
| ignore lists | `src/commands/ignore.rs`, `src/lib.rs` 266-490 | two ignore files | add, remove, migrate and prune patterns; component-wise match |
| path mapping | `src/lib.rs` 803-980 | none | target path to source path and back |
| status | `src/commands/status.rs` | none | classification and report |
| init | `src/commands/init.rs` | config, state, ignore file, `.dfm_root` | `init` |
| config, paths, encrypt, decrypt | `src/commands/*.rs` | config file | one property read or rewritten; one file converted |
| dispatch | `src/main.rs`, `src/cli.rs` | none | which state wrapper a command runs in |
| build | `build/man.rs`, `scripts/` | none | man page, release |

### How they interact

* A run is one process: `main` reads `state.toml`, the command walks its paths
  and *checks* every one of them, queueing tasks; conflicts and errors found by
  then end the run unless forced; the tasks are executed in order; the state
  file is written last, after success only (`with_state`), or in any case for
  `forget` (`with_state_even_if_error`).
* The files are shared with the user, who edits before, between and *during*
  runs: a run checks a file first and uses it later.
* A record relates two files and the state: `update_sync_state` computes the
  digest of the source, stores the record in memory, and sets both mtimes.
* `merge` and `diff --editable` copy both sides to a scratch directory, wait
  for an interactive program, and write back what it saved.
* `purge` undoes everything, and knows from the records what is safe to remove.

### What is hard here

* Edits between any two steps of a run; crashes and errors between the copy, the
  record and the state file; a purge killed half way and repeated.
* A verdict that hangs on the order of five mtime comparisons, and sequences of
  runs and edits that end in a record that no longer tells the truth.
* All-or-nothing refusals against partial execution; two sources for one target.
* Links: three system calls where a copy needs one, pointers that spell one
  pointee in several ways.
* Two processes on one state file, through one temporary name.
* Text files edited by hand and by dfm; patterns that match more or less than
  they were made of.

`PROJECT.json` lists each hazard with its line and the properties that cover
it.

### What makes each component correct

* **sync core**: no edit is lost without `--force`; a pair that no command
  will touch is equal; a record's digest is of what the pair had in common; a
  command that succeeds has nothing left to do; a refusal changes nothing; every
  run ends.
* **merge, diff -e**: what is overwritten is what the tool was shown, or was
  edited since; only copies that are equal are recorded; a merged pair stays
  resolved.
* **purge**: what the safety check found safe survives; success means that
  nothing is left, unless the state went first; options are respected.
* **symlinks**: `add -s` never leaves the content without a place, whatever
  step fails; a link that pull manages leads where its pointer says; add and
  sync come to rest.
* **container**: a stream that was cut, reordered, extended or mixed never
  decrypts to success; a failed decryption leaves nothing behind; a failed
  encryption leaves the old blob; only a password typed for this file can be
  held against it.
* **installation**: `state.toml` and the config are whole whatever dies, unless
  two processes write one of them at once; a lone command changes its own entry
  only; a repeated init completes what an earlier one began, but for a list of
  ignored files that was cut short.
* **ignore lists**: a path just ignored is ignored, with everything below and
  nothing beside; no command loses an entry it was not asked to drop.
* **path mapping**: two targets never share a source.
* **status**: what it announces is what the next command finds.


## 2. Modules

| module | models |
|---|---|
| `Compare` | the verdicts of `compare_files`, used by the modules below |
| `Dfm` | the core: `add`, `pull`, `sync`, `forget` on regular files, the state file, the user |
| `DfmProperties` | the properties of the core, and the refinement mapping to `Replicas` |
| `Replicas` | the abstract specification of the core: copies that agree or not |
| `Status` | what `status` lists, over the state of `Dfm` |
| `MCDfm` | the invocations TLC enumerates (core and status) |
| `DfmProofs` | theorems about the core: types, refusals, edits, records |
| `DfmRunProofs` | theorems about its runs: the refinement, what a run leaves in sync |
| `Links`, `MCLinks`, `LinksProofs` | symbolic links and pointer files under the same four commands |
| `EditTools`, `MCEditTools`, `EditToolsProofs` | `merge` and `diff --editable` |
| `Purge`, `MCPurge`, `PurgeProofs` | `purge` |
| `Container`, `MCContainer`, `ContainerProofs` | the encrypted stream, the part file, the password cache |
| `Installation`, `MCInstallation`, `InstallationProofs` | `init`, `config --set` and the state file, under several processes |
| `Paths` | the mapping of target names to source names |
| `Ignore`, `MCIgnore`, `IgnoreProofs` | the two ignore lists and the match; uses `Paths` |

`Status` extends `Dfm`: it has no state of its own, so it is checked in the
states the core reaches, against the checks the commands make there.  `Ignore`
extends `Paths`.  `Links` and `Dfm` both extend `Compare` and are two halves of
the same commands; a name is either a file on both sides (`Dfm`) or may be a
link (`Links`).

### Compare

An *entry* is `[content, mtime]` or `Absent`; a record is `[mtime, sha256]` or
`Absent`.  `CompareByTimestamps` follows the code's order of tests;
`CompareFiles` adds what `compare_files` adds: contents decide for plain files
whenever the times alone say "modified", while an encrypted pair is judged by
the times.  Digests are free of collisions: `sha256` of a file is its content.

### Dfm

* `file` maps `<<f, side>>` to an entry: the target, the plain and the encrypted
  source of `f`.  The content of an encrypted source is its plaintext.
* `disk` is the `syncs` table of `state.toml`, `mem` the run's `StateObject`,
  both indexed by source path (*slot*), as the state keys are.
* `pc`, `run`, `todo`, `tasks`, `task`, `blocked` are the run: the phase, the
  invocation, the paths still to be checked, the tasks queued, the one in hand,
  and whether a conflict or an error was collected.
* `synced`, `raced`, `done` are history for the properties; no step reads them.

| phase | steps | code |
|---|---|---|
| `idle` | `Start`, `Edit`, `Remove`, `Rest` | `main_logic` reads the state; the user |
| `check` | `Check(p)` for each path, `Decide` | the loop over traversed paths, the conflict gate |
| `exec` | `BeginCopy`, `Encrypt`, `RecordOnly`, `Delete`, `SkipTask`, `TasksDone` | the loop over tasks |
| `copy` | `FinishCopy` | `fs::copy`, `restore_streamed` |
| `record` | `Record` | `update_sync_state`: digest and record |
| `stamp` | `Stamp`, `StampDenied` | `update_sync_state`: the mtimes |
| `drop` | `DropPlain` | the plain source an encrypted one replaces |
| `commit`, `failed` | `Commit`, `Fail` | `with_state`, `with_state_even_if_error` |
| any but `idle` | `FailTask`, `Crash` | an error of a task; the process is killed |

`AddCheck`, `PullCheck`, `SyncCheck` and `ForgetCheck` give the *outcome* of one
path - tasks queued, run blocked, run aborted - and are the whole of the
`handle_*` functions.  Paths and tasks are taken in any order: the code's order
is that of the directory walk, which the file system decides.

### Replicas, and the refinement

`Replicas` is what the core promises without timestamps, records, tasks or
phases: every name has a target and sources, the user changes them between
runs, and a run makes one side of a pair equal to the other, notes that they
agree, or gives up a source.  A *careful* run may replace a copy only when the
pair had agreed on its content or another file of the name still holds it; a
*free* run may replace any.

`DfmProperties!ImplementsReplicas` is `Replicas!Spec` under the mapping `Content`
(the file's content, a copy under way counting as made), `Agreed` (`synced`) and
`Mode` (free for `forget`, and for add and pull with `--force`; a forced `sync`
is careful: it only skips conflicts).  So every step of every run is a transfer
between the two files of one pair, an agreement of equal files, or the removal
of a source; no target is ever removed.

### Status

`Report` is the list `status` prints before it is folded, for each set of
category flags: recorded pairs with the code their comparison gives
(`ManagedEntries`), targets no record knows (`UnmanagedEntries`).  Records
whose source is gone are dropped first, which is what makes such a target
unmanaged.

### Links

One name whose target is missing, a file or a link, with a plain source and a
pointer file.  `Pointees` are kinds of places a link may lead to: the plain
source (absolute or relative), another file of the source directory, a file
outside (absolute, relative, relative with `./`).  `add -s` is four steps
(`CopyFirst`, `MoveAside`, `MakeLink`, `DropBackup`), a link made by pull is two
(`RemoveOld`, `CreateLink`), a pointer file written by add or sync is two
(`TruncatePointer`, `WritePointer`); between any two the process may die.
`touched` and `stamped` stand for the mtimes; `run.here` is whether add runs in
the target's directory, because it resolves relative pointees against the
current directory.  `denied` says what was refused permission and skipped while
the run goes on: the look at a path, or a task of any of the three commands.

### EditTools

One source per file.  `pick` is the test of one candidate, `copy` the scratch
copies, `tool` the time the program is open, `write`/`write2` the two sides
written back, `sync` the record.  `blob` remembers whose name and mode an
encrypted source records.  `copies` and `saved` are the scratch copies before
and after the tool.  `unseen` are the sides of the pair in hand that the user has
touched since they were copied out, `overlooked` the pairs recorded with such a
side and left alone since: both are history.

### Purge

`target` may also be a `Link` to the source or a link `Outside` of it; `dirs`
says which of config file, source and state directory still exist.  `named`
is whether the run maps state keys to the right names: the config, which sets
the dot prefix, is removed before the links are replaced, and a repeated purge
works with the defaults.  `stranded` (history): the state directory went while
the source directory was left.

### Container

A container is a header and a sequence of chunks.  The header declares the
length of the input, taken when its encryption begins; a chunk is the last if
the declared length says so.  A chunk authenticates header,
index and last flag (nonce and associated data), and opens only under those and
the password it was sealed with.  The process works through `todo`, one `file` at a time:

| phase | steps | code |
|---|---|---|
| `next` | `Take`, `Finish` | the loop over files |
| `ask` | `AskToDecrypt`, `AskToEncrypt`, `NoInput` | `obtain_password` |
| `open` | `Open`, `AskAgain`, `GiveUp`, `Unreadable` | `open_with_retry`: the first chunk |
| `restore` | `Truncate` | the target is opened, truncated |
| `opened` | `StreamRest`, `StreamEnd`, `StreamFails` | the other chunks |
| `modes` | `RestoreModes`, `FlushFails` | flush, recorded modes |
| `seal` | `Seal`, `SealFails` | header and chunks into the part file |
| `close`, `rename` | `DropWriter`, `RenamePart`, `RenameFails` | the writer is dropped, the part renamed |

Between runs `Damage` may cut a container, append, replace or exchange chunks,
with those of another container or garbage, or give it another header.

An input edited while it is encrypted fails if it ends before its declared length
(`Short`, `src/crypt.rs:479-499`) and is read up to it if it has grown.  Nobody
else writes a target while it is decrypted into (`ContainerAssumption`).

### Installation

Any number of processes.  `disk` and `tmp` hold the texts of the state and the
config file and of their temporary names; `fd` says what an open descriptor
leads to, since a temporary file that another process renames over the file is
then written *in* the file.  A command reads the whole file (`Begin`,
`Base`), works (`Work`), and writes (`Open`, `Write`, `Rename`, their failures).  `init` looks at what exists
(`InitCheck`), then does its tasks in order; `cut` (history) is whether one was
stopped between two ignore records.

### Paths and Ignore

A name is a sequence of marks (`.`, the dot prefix, `~`) and a stem, so that
`.dot_~x` and the like are covered at every length.  `Encode` and `Decode` work
on one component, `SourceOf`, `TargetOf` and `Dotless` on paths.

A pattern is a sequence of sub-patterns between slashes, each given by the names
it matches as a whole and within, with flags for `^`, `$` and a leading glob.
`Matching` is the code's two tests, the set over the whole path and the
components one by one.  A list is its lines and whether the last is `open`
(without a newline).


## 3. Runs

`expect: pass` unless marked.  Bounds are in the `.cfg` files.

| run | shows |
|---|---|
| `one_file` | from a new installation, every command, forced or not, with or without PATH, both source variants, `add --encrypt`: `TypeOK`, `RecordIsSynced`, `RunConverges`, `StatusForetells`, and the refinement `ImplementsReplicas` |
| `two_files` | two pairs in one walk, and dry runs: `SyncConverges`, `SyncRespectsConflicts`, `RefusalWritesNothing` |
| `faults` | from an encrypted pair, a crash, a denied permission or an error at any step and both sides edited before, between and during runs (checks and copies): `UnmodifiedIsEqual`, `NoLostEdit`, `StoresTheSynced` |
| `edits_plain` | the target edited or removed between any two steps: `NoLostEdit`, and `RunEnds` under scheduling fairness |
| `links` | files, links, pointers and plain sources of one name, moved by the user and by every command, with refusals, errors and crashes at every step: `AddKeepsContent`, `PulledLinkLeads`, `AddSettles` |
| `tools_sessions` | `merge` and `diff -e` repeated, with edits before, between and during the runs, also while the tool is open, between the two saves and before the record, and every fault at every step: `UnmodifiedIsEqual`, `MergeResolves`, `OverwritesWhatWasShown` |
| `purge_survives` | `CheckedSurvives`, `PurgeCompletes`, `KeepsWhatItShould`: every way to be managed, every option, errors, crashes, repetition |
| `container` | two files, damaged blobs, right, wrong, cached and repeated passwords, errors and crashes: `OpenedIsWhole`, `ContainerWhole`, `FailedDecryptLeavesNothing`, `OnlyTypedPasswordFails`, `RunEnds` |
| `processes` | two processes at once, three commands in all, errors and crashes between all system calls: `TornOnlyByRace`, `LoneRunIsExact`, `InitCompletes` |
| `ignore_lists` | four commands or edits on lists of up to three lines: `IgnoreHolds`, `IgnoreIsExact`, `EntriesKept` |
| `container_cut`, `ignore_probe` | *violation*: the first two disagreements of section 5 |

One run of every module with state also checks its type invariant.

### Bounds, and why they are enough

* **One file** in most runs: the code treats pairs independently but for the
  gate after the checks, the failure of a task and the cached password, for
  which `two_files`, `tools_sessions`, `purge_survives` and `container` take two.
* **Contents**: two are enough to differ; three where an edit must differ from
  both the recorded and the other side's content.
* **`MaxClock`** counts edits and writes together; no edit or run starts at
  the bound, but a run started before it goes on to its end.  With 3 to 6
  instants two or three complete runs with edits between and inside them fit,
  and every violation found needs fewer.
* **`EditPhases`, `EditSides`** say when and where the user interferes.  The
  runs of the core leave out exactly what section 5 says is not safe (the source
  between copy and digest, the target of an encrypted pair before its mtime).
  `tools_sessions` leaves out none; its contents are symmetric (`Alike`).
* **`Reverts = FALSE`** (`faults`, `edits_plain`) keeps an edit from restoring
  a content that some record already holds, which by design compares as
  unmodified.  `one_file` and `two_files` have reverts.
* **`MaxActs`** (5 in `links`, 4 in `ignore_lists`) counts acts of the user and
  runs: three runs with two acts between them reach every combination of
  target, plain source and pointer.
* **`MaxChunks` = 2, `MaxSeals` = 2**: a first, a last and a sole chunk, and a
  second container to mix the first with.
* **`MaxRuns` = 3** (`processes`): two commands that meet and one more.
* **`MaxRecords` = 2** of the six lines init appends: none, some or all.
* **Names in `ignore_lists`**: a file at the root, and one two directories down
  below a hidden one, in a directory named like the first (`.etc/log/x`), with
  the patterns `^log$`, `^log` and `.*log`: of each anchor and of none.  In
  `ignore_probe` the deep file is named like the probe.
* The end of time is not a deadlock: `Rest` lets an idle program rest.

### Fairness

`edits_plain` and `container` use `WF_vars(Process)`: a started process is
scheduled until it ends.  Nothing is assumed of the user, of faults, of the
passwords typed, or of which of several enabled steps is taken.


## 4. Proofs

Every theorem holds for all values of the constants: any files, contents,
names, passwords, processes, invocations, edits, faults and bounds.  What is
assumed of the constants is named in the module that declares them, and is no
more than their types and that the markers are no data:

| assumption | says |
|---|---|
| `CoreAssumption` | constants have their types; `Absent` and `Torn` are no content |
| `ContainerAssumption` | the same; the user changes an input only between runs or while an encryption reads it |
| `InstallationAssumption` | finitely many processes and keys |
| `LinksAssumption`, `PurgeAssumption`, `ToolsAssumption` | `Absent` is no entry and no record |
| `IgnoreAssumption` | a regular expression matches within every name that it matches as a whole; no pattern is empty, none is the marker of a line without one |

Some theorems about the core need a hypothesis on the *user* or
the *faults*, a condition on `EditPhases`, `EditSides`, `Faults` and `Reverts`.
Each is there because without it TLC finds the property violated:

| hypothesis | says | without it |
|---|---|---|
| `NoEditWhileRecording` | no edit in the phases `record` and `stamp` | an edit between copy and mtime gets the record's mtime and is not seen again |
| `SourcesLeft` | instead of it: no source is encrypted and `--encrypt` is not used, so that records are of sources alone; and while a run is under way the user edits targets only | a source edited while it is recorded counts as synchronized |
| `Undisturbed` | one of the two | as above |
| `IdenticalSourceKept` | the user does not edit a plain source while a run checks, copies or drops | `add` queues a `record` task for a plain source it found identical, which reads the source again: an edit in between is recorded as synchronized, and the next sync overwrites it |
| `~Reverts` | the user does not restore an old content | a crash between copy and record, and then the recorded content restored on one side: that side compares as unmodified, and sync overwrites it |
| `Attentive` | `Undisturbed` and `IdenticalSourceKept` | as above |
| `Considerate` | `Attentive` and `~Reverts`, or `Quiet` | as above |
| `Quiet` | the user waits until a run is over, nothing fails | a crash in a copy leaves a torn file, which is no step of `Replicas` |
| `NeverDenied` | no path and no task is refused permission | a refused path is left out with a warning, a refused task skipped, and the run succeeds |

The runs of section 3 satisfy the hypotheses of the theorems about what they
check: `faults` has no edits in `record` and `stamp`, `edits_plain` edits the
target of a plain source only.  `RunsAreBounded` takes finitely many files.

### The core: `DfmProofs`

* `TypeCorrect`: `TypeOK` is not inductive, since `Stamp` reads the record that
  `Record` has made; `TypeInv` adds `RecordMade`.  Lemmas on the outcome of each
  command's check give well-typed tasks.
* `RefusedRunWritesNothing`, from `Refusal`: while a run checks, its records are
  the stored ones, and a refused run still has them at its end, so that even
  `forget`, which writes the state after an error, writes back what was there.
* `EditsAreKept` [`Considerate`]: no edit is lost, by any history of runs,
  faults and edits.
* `NotModifiedMeansEqual` [`Undisturbed`]: what compares as not modified is
  equal.  For an encrypted pair only the times say so.
* `RecordsAreOfTheSynced`, no hypothesis: whatever fails, is restored or edited,
  a record that is stored has the digest of the content the pair last had in
  common, unless that very source was edited during the run.
  `EditsBeforeTheDigestAreHarmless` [`Attentive`]: then such an edit does no harm
  either (`StoresTheSynced`), which leaves the window of `mod.rs:160` and the
  `record` task of `IdenticalSourceKept`.

The last four come from one invariant, `SafetyInv`, since each needs the
others' parts.  `TimeInv` orders the instants: nothing is newer than the clock,
a copy in progress is newer than every record.  `QueueInv` says what tasks a
command queues, one for a name at most in add and sync.  `MemInv` ties the
run's records to the stored ones, `HandInv` the files of the task in hand to
what was copied, for a source that is `Calm` (not edited in the run, or
`Attentive`).  `PlainInv` says that where nothing is encrypted to begin with
nothing ever is: there a target is compared by its content alone, which is why
`SourcesLeft` can let it be edited while its pair is being recorded.  On these
rest `StampInv` (a file of an encrypted pair not
newer than its record has the recorded content: `UnmodifiedIsEqual`),
`SyncedInv` (a file that has a recorded content has the content last in
common), `RecordsInv` and `PresentInv` (what holds in quiet), and `SparedInv`:
for each task still to do, unless the user has edited the name meanwhile, what
it is going to destroy is held elsewhere or was in common.  `NoLostEdit` is the
conclusion of `SparedInv` in the step that destroys.

### Runs of the core: `DfmRunProofs`

* `CoreImplementsReplicas` [`Quiet`]: every step of the core is a step of
  `Replicas` or a stutter.  Beyond `SafetyInv` it needs `WholeInv`, that only the
  copy in progress leaves a torn file.  `BeginCopy` is the abstract transfer,
  `Record` the agreement, `DropPlain` and `Delete` the removal; all else stutters.
* `RunsConverge`, `SyncLeavesAllConverged`, `ConflictsRespected` [`NeverDenied`],
  with edits at any time, errors and crashes allowed for: `DoneInv` carries from
  the check to the commit that a finished task has left its pair in sync unless
  another task is of the same name; `WalkInv` that every managed pair `sync` has
  walked over is not modified, has its task, or blocks the run.
* `StatusTellsTheTruth` [`Undisturbed`]: `StatusForetells`.  While a run
  checks, its records are the stored ones (`MemInv`), so the codes of the report
  and the verdicts of the checks are the same comparisons; that an unlisted
  target has its source's content is the step lemma of `NotModifiedMeansEqual`.
* `RunsAreBounded` [finitely many files]: `Advances`.  `Remaining` counts the
  paths still to check, the tasks still to do (no more than `Tasks` has) and the
  steps left of the one in hand; every step of a run makes it smaller, and an
  edit leaves it as it is: no run goes on for ever, without any fairness.

### The other components

* `LinksProofs`, no hypotheses: `TypeCorrect`, `AddKeepsTheContent` (from
  `KeptInv`: where the target's content is in each of the four steps of
  `add -s`), `PullFollowsThePointer` (`LeadsInv`), `AddAndSyncSettle`
  (`SettledInv`: the one task an add or sync queues does all there is to do,
  unless a path or the task was refused; a refused task is still queued by the
  next run, although this one succeeds).
* `EditToolsProofs`, no hypotheses, with edits at any time: `TypeCorrect`;
  `MergesResolve` (`MergeInv`: what has been merged so far is in sync, what has
  not is as it was in the records); `NotModifiedMeansEqual` and
  `OverwritesOnlyTheShown`, from `AgeInv` (sides of an age are equal, unless
  overlooked) and `HandInv` (what each side of the pair in hand that is not
  `unseen` holds in each phase).
* `PurgeProofs`, no hypotheses: `TypeCorrect`, `PurgesComplete`, `KeepsAsAsked` (from
  `OrderInv`), `CheckedNamesSurvive` (from `SecuredInv`: a checked name is held by
  its target, or its link is still to be replaced; and `AgeInv`, that a file as
  old as its record has the recorded content, on which the safety check relies).
* `ContainerProofs`, no hypotheses: `TypeCorrect`; `DecryptsTheWhole`, from
  `StreamInv` (what was streamed so far is the first chunks of what was sealed
  under the header) and `StoreInv` (storage can rearrange chunks, but makes none
  that open); `ReplacesByTheWhole`, from `WritingInv` (the part file is the first
  chunks of its header, in order); `LeavesNoPart`, from `PriorInv`;
  `RefusesOnlyTyped`, from `PasswordInv` (a password tried a second time was typed
  for this file); and `RunsAreBounded` [finitely many files], where a file has at
  most two passwords and `MaxChunks` chunks to go through.
* `InstallationProofs`, no hypotheses: `TypeCorrect`, where the counts are
  bounded by the runs that have left the phase `work` (`Counts`);
  `NeverTornAlone`, from `TornInv` (of a file no two processes were replacing at
  once, one process at most is at it, and it holds the only open temporary
  file); `LoneRunsAreExact` and `InitsComplete`, from `AloneInv` (what a process
  that has the installation for itself has read is what is on the disk), the
  latter from `CutInv` too (only a `cut` leaves a list begun and not finished).
* `IgnoreProofs`, no hypotheses: `TypeCorrect`; `IgnoredHolds` (a path just
  ignored is ignored, with everything below it), `IgnoredIsExact` (and nothing
  else is), `NoEntryLost`, and `MappingIsInjective`.

### How the lists are reasoned about

`IgnoreProofs` is about lists of lines of any length and paths of any depth.
The lists are filtered by a recursive function, `Filtered`.  The library's
induction theorems take the induction hypothesis as an operator, which the
provers cannot instantiate; but a property of all n is also proved from a least
counterexample, and `WFMin` of `WellFoundedInduction`, which speaks of a set,
gives one (lemma `Least`).  From `FilteredFacts`, its one use, follows what
each command does to the *set* of entries (`AppendedFacts`, `PrunedFacts`,
`MigratedFacts`), and the rest of the proof is about sets of patterns.

`LiteralReaches` and `LiteralIsExact` say which paths the pattern of a line that
`ignore` writes matches, `CanonicalReaches` and `UnanchoredReaches` the same of
the dotless and of the migrated form.

`MappingIsInjective`, for every set of stems and names of any number of marks,
follows from the lemma `DecodeEncode`, that decoding undoes the encoding of a
component, by cases on the mark a name begins with.  This is what
`src/lib.rs:857` asks of the encoding (of the names, not of the postfixes: see
section 5).

### What stays with TLC

* Liveness: `RunEnds` of `Dfm` and of `Container`.  Proved is that a run has a
  bounded number of steps (`RunsAreBounded`); that there always is a next one
  speaks of `ENABLED`, which the provers cannot expand.
* The two properties with a run that violates them.


## 5. Disagreements between the code and what it says

Two have a run that ends in a violation and an entry in `PROJECT.json`:

1. `container_cut`: an encryption writes through a `BufWriter` that is dropped
   without a flush (`src/crypt.rs:938-940`); an error of the last write is lost
   in the drop, and the cut part file is renamed over the blob.  Lines 915-916
   promise that "a failure never leaves a truncated output file behind".
2. `ignore_probe`: `ignore etc/x` hides the whole of `etc` from add, because
   directories are probed with a child named `x` (`src/lib.rs:1254`, 204) that
   lines 1245-1247 say no real sub-pattern matches.

The next have a property in the modules that TLC finds violated when it is put
into the `.cfg` named, with the invocations named for `Runs`:

3. `TornNeverSpreads` (`Dfm_Faults.cfg`, INVARIANT; `Managed <- PlainSlots`,
   `Runs <- PoliteRuns`): plain copies are made in place
   (`src/commands/mod.rs:459`), not "atomic per file" (README line 302); a crash
   leaves a truncated file that the next run takes for an edit and copies to
   the other side.
4. `ForgetNeedsForce` (`Dfm_OneFile.cfg`, PROPERTY; `Runs <- PoliteRuns`):
   `forget` of a source path or of a missing target deletes a modified source
   without `--force` (`src/commands/forget.rs:171`, 152; README lines 149-150).
5. `NoDanglingLink` (`Purge_Survives.cfg`, INVARIANT; `Runs <- UnforcedRuns`): links
   of `pull -s` have no record and are left dangling
   (`src/commands/purge.rs:277`; README line 186).
6. `UnpulledIsKept` (same, PROPERTY): sources never pulled do not stop an unforced purge
   (`purge.rs:90`, 115-120; README lines 186, 204).
7. `BlobDescribesTarget` (`EditTools_Sessions.cfg`, INVARIANT): an encrypted merge result
   records the scratch file's name, mode and directories (`mod.rs:634`;
   `src/crypt.rs:854-856`).
8. `ForgetTakesTheLink` (`Links_Runs.cfg`, PROPERTY; `Runs <- ForgetRuns`):
   `forget` of a link `add -s` made deletes the source and leaves the link
   dangling, its pointee being relative (`src/commands/forget.rs:90`; README
   2.6 removes "the source file and the symlink").
9. `NothingUnseenIsOverwritten` (`EditTools_Sessions.cfg`, PROPERTY) and
   `SynchronizationIsHonest` (INVARIANT): an edit while the tool is open is
   overwritten unseen, or recorded as synced; the scratch copies are compared,
   not the files (`src/commands/diff.rs:832`, `mod.rs:636`; line 826: "only
   honest when the saved files hold equal content").
10. `RepeatedPurgeChecks` (`Purge_Survives.cfg`, PROPERTY): a purge repeated after
   the config with its dot prefix is gone looks for other targets, and deletes
   what it would have refused or replaced (`purge.rs:167`, 103).
   `CheckedSurvives` speaks of runs that still find the config.
11. `ErrorsLoseNothing`, `StateGoesLast` (same): after a failed replacement of a
   link the source goes all the same (`purge.rs:339`; 203-205 promise not to
   "lose the files they point to"), and after a failed removal of the source
   the state, without which it is not found again (`purge.rs:231`, 248).
12. `InitCompletesTheList` (`Installation_Processes.cfg`, PROPERTY): an init killed
   after the first ignore record leaves the list short for good, only
   `.dfm_root` being looked for (`init.rs:129`).

And some the models show or had to follow that no property states:

* `restore_streamed` returns from a failed flush (`src/crypt.rs:1081`) without
  removing the partial target, although its comment promises to: the last
  disjunct of `FailedDecryptLeavesNothing`.  An input that grows while it is
  encrypted is cut at its first length (`crypt.rs:482`).
* `.dfm_root` with a name in it always fails: `init.rs:97` joins the name onto
  the pointer *file*.  An init killed between the truncation and the write of
  `.dfm_root` makes every later init fail on the empty pointer
  (`InvalidPointer`); `InitCompletes` speaks of inits that succeed.  The records name
  `.dfm_ignore_source`; the file is `.dfm_ignore_file` (`lib.rs:200`).
* Two processes share one temporary file, so that one may rename or truncate
  what the other is writing; the comment at `lib.rs:95-99` promises a whole file
  after a crash, not under concurrency.  `TornOnlyByRace` leaves out files that
  two processes were writing at once.
* A task of add or sync that is denied permission is skipped with a warning, the
  pointer perhaps truncated already, and the run succeeds with the task still
  to do (`add.rs:675`, 691; `sync.rs:425`, 442, 495): `denied` in `AddSettles`.
* A pointer file is truncated before it is written (`add.rs:770`,
  `sync.rs:485`).  A link is removed before it is made anew
  (`pull.rs:784`).  `./` is stripped from a pointee when a link is made, so link
  and pointer then differ in spelling (`pull.rs:796`), and the pointee of a
  relative link is resolved against the current directory (`add.rs:137`).
* pull replaces a link that leads to another source without `--force`
  (`pull.rs:377`, README line 105), and copies through a dangling link.
* `status` does not show a source without a record, although README 2.12 has
  "unpulled (target missing, source exists)", and with both a plain and an
  encrypted source lists both records while sync looks at the encrypted one.
* Targets whose names end in `.encrypted` or `.symlink` collide with the
  sources of others (`lib.rs:880-890`).
* `ignore` of a source directory writes `^dir$`, which matches no file below it;
  the dotless form gives `log` and `.log` one entry; pull's filter
  `^(.+/)?[^.][^/]+$` skips names of one character (`pull.rs:27`).
* `add --force` drops only the first pattern that matches a path, and none that
  is followed by a comment (`mod.rs:358-364`); a pattern with a note after it
  keeps the blank before the `#` and matches nothing (`lib.rs:308-315`).
* A pattern anchored at its start (`^log`) is tried on the components of a path
  at any depth, but the set over whole paths that comes first only lets paths
  pass that begin so (`lib.rs:476-490`).  With `log$` also in the list the
  directory `.etc/log` passes, matches `^log` by a component, and counts as
  ignored already, so `ignore .etc/log` writes nothing, while `.etc/log/x` does
  not pass and is not ignored.  `IgnoreHolds` leaves out paths that a pattern
  anchored by hand matches.

### Interleavings that are not safe

dfm takes no locks, and some windows are open by construction.  The passing
runs leave them out, one edit of a `.cfg` brings each back:

* Between the copy and the digest (`mod.rs:160`) an edit of the source is
  recorded as synced although the target never held it: in `Dfm_OneFile.cfg`,
  `EditPhases = {"idle", "record"}` and `EditSides = {"plain"}` violate
  `RecordIsSynced`.  `StoresTheSynced` says that earlier edits do not.
* Between the copy and `set_file_mtime` (`mod.rs:175`) an edit of the target of
  an encrypted source gets the record's mtime and is invisible from then on: in
  `Dfm_Faults.cfg`, `"stamp"` added to `EditPhases` violates
  `UnmodifiedIsEqual`.
* A purge killed between removing a link and copying its pointee
  (`purge.rs:317`) leaves the source as the only copy, and a repeated purge
  deletes it, a missing target being left out of its safety check:
  `CheckedSurvives` speaks of the targets a run found.
* Two processes on one state file (`lib.rs:105`): the records of the first to
  finish are lost with the write of the second.  `LoneRunIsExact` and
  `TornOnlyByRace` say how far the damage goes.

## 6. Abstractions

* Contents are model values; SHA-256 does not collide; a chunk is opened only by
  what it was sealed with.
* Every edit and every write of dfm gets an instant of its own: two writes
  within one tick of the file system's clock are not modelled.  Mtimes are set
  exactly.
* A truncated file is one content, `Torn`, whatever is left of it.
* The order of the walk and of the tasks is left open in `Dfm`; in `Links` the
  tasks are in the order they were queued.
* The target directory exists and the paths given are inside the tree.
* `EditTools` and `Purge` give every name one source, plain or encrypted; the
  user edits between the runs of purge, not between its steps.
* In `EditTools` the interval between record and mtimes is one step: `Dfm`
  has that race.  In `Links` the copy of a regular file is one step.
* A plain name or a word in a pattern is a stem; no stem contains another or
  ends in `$` (`lib.rs:365` would take that for an anchor).  A regular expression
  is the set of names it matches, and none is spelled as the path of a file, so
  that the two forms `--remove` drops are one.
* In `Installation` a state or config text is a bag of entries; a text that was
  cut or mixed either still parses, with some of the entries, or is `Torn`.

## 7. Not modelled, and why

* `paths`, read-only `diff`, `decrypt` to stdout, `config` without `--set`:
  nothing is written.
* Command-line parsing, value syntax of `config --set`, output, the folding of
  `status`, git information, man page, scripts, the root check: no state.
* `status` of links and of ignored entries: `Status` covers regular files.
* `file_path_relative_to` and `remove_dots_from_path`: lexical; paths are given
  here as components below a root.
* The composition of all modules in one: what couples them (an error of the
  container, an error after the last task) is a fault of the core's runs.

## 8. Plan

Done: the modules of section 2, the refinement of the core, and the theorems of
section 4: every invariant and action property that a passing run checks is
proved (`RecordIsSynced` in its step form), and of the liveness properties the part that needs no `ENABLED`.

Next, in this order:

1. `EditsAreKept` with contents that are restored: `synced` as a history of all
   contents the pair had in common instead of the last.
2. `ImplementsReplicas` with a crash allowed for: a torn file has no counterpart
   in `Replicas`, which would need a step that loses a copy.
3. `Links` and `Dfm` composed, so that a name can change from a file to a link
   between two runs.

Out of the prover's reach, and left to TLC: liveness under fairness, and what an
operator declared `RECURSIVE` computes.
