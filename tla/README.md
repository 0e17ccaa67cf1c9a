# TLA+ verification of the Tokitoki tray agent for Windows

The repository is a Windows tray program in C17 (`src/*.c`, `src/ui/`,
`src/util/`; paths below are relative to the repository's `src/` directory).  It
watches the session directories of AI assistants, runs the shared `tokitoki`
command-line program (the CLI) to send what changed, keeps two preferences, and
updates itself.  It holds no upload logic of its own: every operation on the
server, except the update check and download, is a child process.

This directory models the program's threads, files, processes and windows in
TLA+, checks them with TLC and proves theorems about the core with TLAPS.
`PROJECT.json` lists the components, runs, mutants, findings, hazards and
theorems, and maps every definition to the source lines it stands for.

1. [The system](#the-system)
2. [Modules and the code](#modules-and-the-code)
3. [Runs](#runs)
4. [Fairness](#fairness)
5. [Proofs](#proofs)
6. [Where the code and its documents part](#where-the-code-and-its-documents-part)
7. [What is not modelled](#what-is-not-modelled)
8. [Plan](#plan)

## The system

| Component | Source | State | Operations | What makes it correct |
|---|---|---|---|---|
| Syncer | `syncer.c` | `pending`, `stopping`, an SRW lock, a condition variable, the ticker's event, two threads | start, start the ticker, trigger, stop | no trigger lost or served twice, no missed wake-up, triggers never wait for a run, a stop leaves no thread, triggers later than the stop are safe |
| Watcher | `watcher.c` | up to 32 roots with an overlapped read each, three events, two threads | start, restart, stop; completion, reset, reissue; debounce | every change leads to a callback, no root goes deaf, nothing is used after it is closed or freed |
| App coordinator | `app.c` | tracking and automatic-updates flags, their lock, the CLI-update thread and its event | start, stop, toggle either flag, save the API key, one sync run | data is sent in the end; turning tracking off stops the scans; quitting joins everything in an order that works |
| Settings persistence | `settings.c` | one JSON file and its temporary file | load, save (write, rename) | the file is always a whole save; saves do not clobber each other |
| CLI runner and operations | `agent_cli.c` | per call: two pipes, a child, two reader threads | run a command line, sync, set or get or verify the key, update, seed the bundled CLI | a successful call has all the output; a call always returns; nothing writes into its freed buffers (violated); arguments arrive as they are; no downgrade (violated) |
| Provider directories | `data_dirs.c` | none (a table of 15 providers) | candidates, resolve, watch paths | what a sync scans is watched, as far as the roots go |
| Self-update | `app_update.c` | the executable, `.old`, the download | check, install, clean up, relaunch | a whole verified build is always on disk; a restart runs the newer one |
| Process lifecycle | `main.c`, `instance.c` | the named mutex, the restart request | start, second start, quit, hand over | one instance; the hand-over is not turned away |
| Update announcements | `ui/updater.c`, `ui/ui.c` | the pending slot, `offered_version`, the install guard | background check, manual check, announce, menu, install, restart | one install at a time, what was offered is installed, each release announced once |
| Settings dialog | `ui/settings_dialog.c` | the window guard, the field, `last_saved_key`, the verdict | open, type, save, verify, close | keys are stored in the order they were entered; a verdict is about the key last asked |
| Launch at login | `launch.c`, `ui/settings_dialog.c` | the value in the Run key, the check box | reconcile at start, enable, disable | the entry is what the user last asked for, and points at the running copy |
| Tray icon and theme | `ui/tray.c`, `ui/theme.c`, `ui/ui.c` | the icon, its handle, the theme it was drawn for | add, set the version, refresh, remove | one icon, in the taskbar's theme, however often Explorer restarts |
| JSON and text | `util/json.c`, `util/wstr.c` | none | find a member, read a string, a number, a Boolean; trim, truncate | what is read is what was meant, or nothing |
| Download and decompression | `util/http.c`, `util/inflate.c` | none | request, download to a sink, inflate | whole or not at all |
| Thin wrappers | `util/sha256.c`, `util/buf.c`, `ui/task_dialog.c`, `logo.c` | none of interest | calls of Windows and of the allocator | their outcomes are choices in the modules above |

How they interact.  The main thread runs the message loop and the tray menu.
The watcher's debounce thread, the syncer's ticker, the menu (`Tracking enabled`)
and the settings thread (a saved key) all call `syncer_trigger`; the syncer's worker runs `sync_run`, which reads the flag and runs the CLI.  The
settings dialog lives on a thread of its own, its verify and update checks on
further threads that answer by posting messages.  The update loop and the
install thread are never joined: they die with the process.  `app_stop` joins
the CLI-update thread, then the watcher, then the syncer.

What is hard to test is listed with its line under `hazards` in `PROJECT.json`:
wake-ups between a test and a sleep, event resets around an overlapped read,
stops in the middle of a burst, triggers after the stop, the process dying
between two renames, a child that inherits another call's pipe, answers that
come back to a closed dialog, a shared slot that changes during an install, an
icon that Explorer forgets while it is being added, an answer cut off in the
middle of a string.

## Modules and the code

Program counters name places between two statements that another thread, the
kernel or a crash can tell apart; what runs under one lock, or touches only its
own thread's state, is one step.  Variables keep the names of the fields they
stand for; `history` variables are marked in the declarations.

**`CoalescingRunner`** is the abstract specification of what `syncer.h` promises:
requests coalesce, at most one run at a time, and a request during a run leads
to one more run, until the runner is halted.

**`Syncer`** is `syncer.c` statement by statement: the worker
(`WorkerAcquire`, `WorkerSleep`, `WorkerTake`, `WorkerFinishRun`, `WorkerExit`,
and spurious wake-ups), `syncer_trigger` in its three steps (lock, set and
unlock, wake) for any number of calling threads and the ticker, the start with
each of its failures, and `syncer_stop` in its six.  `requested` and `served`
number the triggers.  `Promise` instantiates `CoalescingRunner` with
`running <- pc[Worker] = "run"` and `halted <- stopping`.

**`WatcherPromise`** is the abstract specification of what `watcher.h` promises:
after a change in a watched directory the callback is owed; it is called once for
the changes owed by then, again for a change during the call, never without one
and never begun after a stop.  Only a root that cannot be read any more, and a
stop, cancel the debt.

**`Watcher`** has the watch thread, the debounce thread and the owner in
`watcher_start` and `watcher_stop`, and the kernel's side of the overlapped
read: a read is outstanding, canceling or done; changes that happen while none
is outstanding are buffered for the next one; a cancelled read completes some
time later.  A directory can vanish (its reissued read fails) and reappear.
`Promise` instantiates `WatcherPromise`: a directory owes its changes from the
moment its read would see them, whether they are in a completed read, in the
kernel's buffer or in the change event.
Allocation of the watcher itself, and `watcher_destroy`, which the program never
calls, are left out.

**`PreferenceStore`** is the abstract specification of the preferences: a change
of one flag is one step that stores both, or stores nothing because the save
failed; a session starts from what is stored, or from the defaults if it cannot
be read; its end, at any moment, takes nothing away.

**`Preferences`** composes `app.c` and `settings.c`: the two setters on two
threads under `g_app.lock`, the save in its steps (create, write, rename) with a
failure at each, the load with its failure, and the process ending at any step.
The lock is what an `SRWLOCK` is to two writers.  `Store` instantiates
`PreferenceStore`: readers wait for the lock, so a change counts from the rename,
or from the failure of its save.

**`TrayService`** composes the coordinator's operations over what the other
modules show of their components: the syncer is its two flags, the watcher the
callback it owes, the flag with its save one step.  `StartStep` is `app_start`
with `agent_bootstrap` (skip, probe, stage, rename, give up), `StopStep` is
`app_stop`, `ToggleStep` is `app_set_tracking_enabled`, `RunStep` is `sync_run`
on the worker, and `CliUpdate...` the daily update thread.  `unsent` says whether
session data has been sent, has been read by a run in progress, or not.

**`CliCalls`** is `run_cmdline` for several calls at once.  The two streams of a
call are alike and one stands for both.  `holders` is the set of processes with
the write end of a call's pipe: the program, the child, any other child started
while the program held it, and a process the child leaves behind (`heir`), which
may go on writing.  What it writes lies in the pipe behind the child's own output:
`late` counts it, so that the reader is known to be at the child's output or past
it.  A chunk has left the pipe when `ReadFile` returns and is `stored` by a step of
its own (`buf_push`), between which the call may close the read end and return.

**`SelfUpdate`** has any number of processes, each with its main thread, its
install thread and the image it executes.  Windows lets the image of a running
process be renamed, not replaced or deleted (`InUse`, `Moved`).

**`Updater`** has the background loop, the workers of manual checks, the install
threads, the slot with its flag and `offered_version`, the balloon, the menu and
the restart request.  The install itself is one step here.

**`SettingsDialog`** has the startup check, the dialog with its field and
buttons, the save (a process run while the settings thread waits), the verify
threads, and the messages in the window's queue.  A window has a number, so that
an answer to a closed window is not taken for one to the next.

**`Desktop`** has sessions of the program that start from different places, the
registry value with the box of the Settings dialog, and the UI thread from
`theme_taskbar_light` to `tray_remove`, against an Explorer that ends, starts and
rescales its taskbar at any moment and a theme that changes.  A call of the shell
or the registry may fail; `faults` and `registryFailed` remember what a failure
has spoiled until a later call repairs it.

**`Parts`** puts the desktop and the pure functions below into one specification:
a behaviour is about the desktop, or about one input of a function.  It says what
an input is in general (`PartsConstants`) and states what the functions are for;
`MCParts` lists the inputs for TLC, and has the property of the JSON answers, which
is about how an input was made.  There a behaviour may be one of `CliCalls` too.

The other modules are pure functions.

* **`CommandLine`**: the quoting of an argument, against the C runtime's own
  parsing.  A name is a sequence of the characters that matter (blank, tab,
  quote, backslash, another one).  The sync's buffer has the size the code
  computes, its fixed part (4096, and 64 for each directory) scaled down to the
  length of the names, and must suffice.
* **`DataDirs`**: the candidates of a provider, the one a sync scans, the ones that
  are to be watched, and the `MaxRoots` of them that `watcher_start` opens (32 in the
  code; any choice of so many, as which ones come first depends on how the names
  sort); a path is a sequence of names.
* **`JsonReader`**: `json.c` over sequences of bytes: the scanner, the lookup of a
  member, numbers with their overflow (64 bits scaled down to 8), strings with
  their escapes and surrogates.  A code above those of the characters is a word,
  a run of plain text, which keeps documents short.
* **`Answers`** uses it as the program does: the update server's answer and the
  digest, the verdict on a key, the results of the CLI, the settings file, the
  dashboard's address and the server's base address.
* **`StartupWarning`**: the CLI's error output cut at a number of bytes
  (`AGENT_DETAIL_CHARS`, 200 in the code and 5 here) and then of characters (160,
  and 4 here).
* **`Seeding`**: `parse_version3` with its 32-bit parts (`UnsignedSize` values, 16
  for TLC), `version_less`, `update_semverish`, `gzip_header` and `gzip_inflate`
  around the vendored inflater, and the decision of `agent_bootstrap`.  `TextSize`
  is the 64 bytes of the two buffers for a version: a bundled version that does not
  fit is refused, the program's own is cut.  `present` says whether a CLI is
  installed.  What a
  text says for a version (`VersionOf` in `Parts`) is put in terms of the text
  between the dots, without a cursor that moves.
* **`Download`**: `update_trusted_transport` over hosts that are sequences of labels,
  of which a number up to 255 is itself and any other stands for a name (`Localhost`
  is `localhost` or `::1`); `http_request` and `http_download` over what a server and a
  connection may do, `download_sink` over a disk that may be full, and the checks
  of `app_update_install` on size and digest.

**`MC...`** modules instantiate these for TLC.  A definition with an underscore
(`WorkerTake_PendingFirst`) is a variation of the definition of the same name
with a plausible mistake; `PROJECT.json` says which property must fail when it
takes the definition's place.

## Runs

Each passing run checks its properties over every interleaving of the instance;
each property is also shown to fail for one of the variations.  Deadlock is
checked everywhere; a state in which the program has come to rest stutters by an
explicit step (`AtRest`, `Ended` and the like).

| Run | Instance | Distinct states | Shows |
|---|---|---|---|
| `syncer` | 2 callers, ticker, worker, owner; 3 triggers | 9,474 | `pending` is set exactly when a trigger is owed a run; the worker never sleeps on work; late triggers use live storage; no run begins after the stop; calls return; the coalescing promise, its liveness included |
| `watcher` | 3 directories, 2 roots, 3 changes, 2 calls | 335,118 | `WatcherPromise`: every change is called back, nothing else is, and nothing after a stop; no root goes deaf; nothing freed is used; start and stop return |
| `tray` | one caller; a ticker with a watcher and two syncs that may fail, or no ticker and nothing that fails; 2 changes, 3 toggles | 183,849 | everything is sent; watching follows tracking; one scan at most after disabling; a clean, terminating stop |
| `updater` | 1 manual check, 2 install threads, 2 releases | 555,426 | the guard; the version offered is the one installed; announced once; the newest is announced |
| `on_disk` | the settings file: 2 setters, 4 toggles, 2 ends of the process; the API key: 2 keys (one valid), 2 verify threads, 3 windows; the executable: 3 processes, 2 newer builds, 3 starts, 2 installs, 1 crash | 364,697 | `PreferenceStore`: the file is the last whole save and a save writes what is in memory; a save never undoes the other flag's choice in a session that could read the file; keys stored in order; verdicts about the key last asked; a whole, verified build on disk; one instance; restarts upgrade; the parent never turns its child away |
| `parts` | the desktop: 2 places, 2 starts, 2 clicks, 3 events; the calls: 2 at a time, one with output larger than its pipe and a process left behind; the functions: 119,000 inputs | 670,351 | the login entry follows the user; one icon that serves the user; success means whole output, which is settled before it is used; calls and readers end; arguments survive quoting; what is scanned is watched; answers are understood; warnings are readable; a seed is newer and whole; a download is whole |
| `preferences_unreadable` | as in `on_disk`, 3 toggles | violation | the exception of `NoChoiceClobberedOnceRead` is real |
| `update_quit` | 2 processes, 1 build, no crash | violation | quitting during the swap leaves the path empty |
| `updater_lost` | 1 manual check, 1 install thread, 2 releases | violation | an announced release can lose its menu entry |
| `calls_late_reader` | the calls of `parts` | violation | a reader left behind stores into the buffer of a call that has returned |
| `parts_cleartext` | the downloads of `parts` | violation | `http://127.` and a name passes for this computer |
| `tray_downgrade` | as `tray` | violation | a version probe without an answer lets an older CLI replace a newer one |

`on_disk` and `parts` hold components that do not touch each other's state: in a
behaviour one of them moves, and the others rest in their initial state, so that
each is checked in all its interleavings and none is multiplied by another.

Why the bounds are enough for the questions asked (all safety properties but
`AnswersUnderstood` are proved for every bound, see [Proofs](#proofs); the bounds
decide what the liveness properties cover, and that every step and every variation
is reached):

* `syncer`: one trigger can be served, one can arrive during that run, one
  during or after the stop; with two callers two of them race.
* `watcher`: the third directory overflows the two roots; a change can come
  before, during and after the debounce; two calls make a restart, or a start
  and a stop, with the first one's reads still being cancelled.
* `on_disk`, preferences: with four toggles one setter can follow a failed save of the
  other and be followed by it again, and a dead session's last choice remains to
  be made once more; two ends let the file of a dead session be read and extended.
* `tray`: three toggles are off, on, off; the two setups separate the guarantee
  that rests on the ticker from the one that rests on the order of watching and
  triggering, so that neither hides a flaw of the other.
* `on_disk`, executable: two builds make the second install of a chain, where `.old` is
  occupied; three processes are a parent, its child and a second start.
* `parts`, calls: cross-inheritance needs two calls; a pipe of one chunk and an
  output of two make the child block on its reader; what is left behind writes as
  much as the pipe takes.
* `updater`: two releases are needed for one to overtake the other; two install
  threads for the guard to matter.
* `on_disk`, API key: two keys and two threads for one answer to overtake the
  other, three windows so that an answer can come two dialogs late.
* `parts`, desktop: two starts from two places make the second reconcile the
  first one's entry; three events are Explorer's end and a change of the theme
  before and after it.
* `parts`, functions: a watcher of four roots has exactly as many as the table's
  defaults and fewer than some environments name.  Quoting looks at most at a run of
  backslashes and what follows it, three characters hold a run of two before a quote
  or the end.
  Answers have each field present, absent or of another type, a decoy (the same
  keys in a nested object, in an escaped string, as an escaped key) in each
  place, and are cut off at every position; versions have parts on both sides of
  ten, and texts on both sides of the limit; payloads have every set of header fields
  and every cut up to sixteen bytes.

Counters of the bounds (`MaxTriggers`, `MaxChanges`, `MaxToggles`, ...) occur in
guards of the environment's steps only: they limit what users, files and servers
do, never what the program does about it.

## Fairness

Liveness is checked under the fairness the code's scheduling justifies:

* A thread that can run does run: weak fairness of every thread's steps.
* A thread waiting for the SRW lock gets it if it is free again and again:
  strong fairness of `WorkerAcquire`, `TriggerLock` and `StopLock`.  The lock is
  held for a few statements (`LockIsShort`, proved).
* A sync run ends: `agent_sync` is bounded by its two-minute timeout.  Other CLI
  calls are bounded by fifteen seconds, which `CliCalls!CallsReturn` shows of
  `run_cmdline` itself: a child may hang for ever there, and only the timeouts
  end the call.
* The kernel completes a cancelled read; a terminated process dies; a process a
  child leaves behind ends some day, whether or not it writes until then.
* `CloseHandle` on a pipe returns once no read of it is in progress; while one is,
  it may return or wait.
* Changes are finitely many in every behaviour of the instances, so the debounce
  ends.  Endless changes do postpone the callback for ever (`watcher.c:75-78`);
  the ticker is what sends then.
* The ticker ticks; update checks that are made again and again do not all fail
  (strong fairness of `LoopAnswered`); the user answers the install and restart
  dialogs.

Nothing is assumed that makes the user, an assistant, the server or the network
do anything else, and nothing that wakes a sleeping worker by itself.
`Preferences`, `SelfUpdate`, `SettingsDialog`, `Desktop` and the pure modules
have no fairness and no liveness property.

## Proofs

Eight modules hold the theorems.  Each invariant was checked with TLC over the
run of its component before it was proved; each theorem holds for every value of
the constants that satisfies the assumptions named here.  A proof that a step
preserves an invariant goes by the actions, after lemmas that say what an action
leaves alone.

### Syncer

`SyncerProofs` proves about `Syncer`, for every set of callers and every bound on
the triggers, from the assumptions the module names (the identities of the
threads are distinct, the bound is a natural number):

| Theorem | Statement |
|---|---|
| `SyncerInvariant` | `Safety => []IInv` |
| `SyncerTypeOK` | `Safety => []TypeOK` |
| `TriggersNeitherLostNorRepeated` | `Safety => []PendingIffUnserved` |
| `WorkerNeverSleepsOnWork` | `Safety => []NoLostWakeup` |
| `LockIsShort` | `Safety => []LockOnlyInCriticalSections` |
| `LateTriggersAreSafe` | `Safety => []StorageOutlivesTriggers` |
| `StopLeavesNoThread` | `Safety => []StopJoinsThreads` |
| `NothingRunsAfterStop` | `Safety => NoRunAfterStop` |
| `SyncerImplementsPromise` | `Safety => Promise!AbsSafety` |

`Safety` is the specification without its fairness, so each of these holds of
`Spec` too.

The invariant `IInv` conjoins `TypeOK`, `Lifecycle`, `StopProgress`,
`PendingIffUnserved`, `NoLostWakeup` and `LockOnlyInCriticalSections`.  None of
the three properties is inductive alone:

* `NoLostWakeup` needs the lock.  The worker goes to sleep from `check`, where
  it holds the lock and has found both flags down; that no trigger sets
  `pending` in between is `LockOnlyInCriticalSections`, and that the owner does
  not is the same for `setStop`.
* `PendingIffUnserved` and `NoLostWakeup` start from a worker that does not run
  before its storage exists; `Lifecycle` says so, and that the storage is there
  from the start on.  `LateTriggersAreSafe` follows from it.
* `StopProgress` ties the owner's place in `syncer_stop` to what has ended: past
  `joinTicker` the ticker is gone, past `setStop` the flag is up, past
  `joinWorker` the worker is gone.  `StopLeavesNoThread` follows from it, and
  without it the flag might be up before the owner has a wake-up to send.

The proof that a step preserves `IInv` has one step per action.
`SyncerImplementsPromise` maps every step of `Syncer` to a step of
`CoalescingRunner` or a stutter: `TriggerSet` to `Request`, `WorkerTake` to
`Begin`, `WorkerFinishRun` to `Finish`, `StopSet` to `Halt`.

### Preferences

`PreferencesProofs` proves about `Preferences`, for every bound on toggles and
ends of the process, from `PreferencesConstants` (the two setters are distinct and
neither stands for no thread, a failing read is allowed or not,
the bounds are natural numbers):

| Theorem | Statement |
|---|---|
| `PreferencesInvariant` | `PreferencesSpec => []IInv` |
| `PreferencesImplementStore` | `PreferencesSpec => ImplementsStore` |
| `ChoicesSurviveOnceRead` | `PreferencesSpec => NoChoiceClobberedOnceRead` |

Its `IInv` conjoins `TypeOK` with `SaverHoldsLock` (a thread between its change
and its unlock is the one that holds the lock, so there is one), `DownIsQuiet`,
`SavesAreWhole` (the file is whole, and at the rename the temporary file is the
flags in memory, which no other setter can have changed because of
`SaverHoldsLock`) and `MemoryFollowsChoice` (what the user has chosen is the file
before a session and the memory in one that has read it).  The refinement maps
`Rename` to `Set`, `SaveFails` to `SetUnsaved`, `Load` and `LoadFails` to `Start`
and `End` to `End`; every other step stutters, the change of the flag included,
because the store sees memory without the change that is being saved.

### Desktop and the pure functions

`PartsProofs` proves about `Parts`.  The desktop comes first, for any set of places
to start from and any bounds, from `DesktopConstants` (a path is none of the other
values of the entry, the bounds are natural numbers):

| Theorem | Statement |
|---|---|
| `LoginEntryFollowsUser` | `Spec => []EntryFollowsUser` |
| `IconServesTheUser` | `Spec => []IconServesUser` |
| `PartsImplementDesktop` | `PartsSpec => Spec` |

The first is inductive together with types and `DialogNeedsLoop`: the check box
exists only while the message loop runs, so after the entry was reconciled.  The
second needs an account of what is still under way.  `IconComesBack`: an icon
that is missing has a TaskbarCreated in the queue.  `ThemeIsNoticed`: a theme
that is not the known one has a WM_SETTINGCHANGE in the queue, and the icon has
the known one.  `BalloonsClickable`: an icon has its version set wherever it is
not just about to have it set.  `IconKept`: there is one icon from NIM_ADD to
tray_remove.  In the message loop with nothing queued they are the property.

The functions follow, for inputs of any length:

| Theorem | Statement |
|---|---|
| `ArgumentsAreRead` | `PartsSpec => []ArgumentsSurvive` |
| `ScansAreWatched` | `PartsSpec => []ScannedIsWatched` |
| `WarningsAreReadable` | `PartsSpec => []WarningReadable` |
| `DownloadsAreWhole` | `PartsSpec => []DownloadIsWhole` |
| `SeedsAreNewerAndWhole` | `PartsSpec => []SeedIsNewerAndWhole` |

They rest on `PartsConstants`, which says what an input is: a path and provider
names that leave room in 4096 and 64 characters (a path of `MAX_PATH` does, and
so does a name of 45 characters; the longest has ten); an environment and file
system with absolute paths, because of a file without a directory in front of it
there would be nothing to watch; characters of one to four bytes; any offer,
transfer and disk; any version texts and any gzip member, cut off anywhere.
`SeedingConstants` is about the sizes of an unsigned and of a version's buffer,
`DataDirsConstants` about the limits of candidates and roots, `CommandLineConstants`
and `StartupWarningConstants` about the alphabet and the two limits of a warning.

* *Induction.*  The functions are folds, whose definition chooses a function on
  sets of places.  `FoldOverSets` shows that there is one, `...Runs` that each
  fold of the models goes through its sequence element by element, and
  `Induction` (from `LeastNumber`, the library's well-foundedness of `<`) carries
  a statement over the elements.
* *Arguments.*  `EscapeStepRead` is the heart: what has been written of an
  argument, the runtime has read of it, and both count the same backslashes
  before the next character.  `QuotedRead` and `PlainRead` close an argument,
  quoted or not.  `ArgLength` bounds what is written by twice the argument, less
  its plain prefix, `LineSurvives` adds up the lengths against the computed
  buffer: `AppendArg` never fails.
* *Directories.*  `RootsSuffice`: as long as there are no more candidates than roots,
  there are no more paths to watch than roots either, and all of them are opened.
* *Downloads.*  `SinkWhole`: as long as the sink is well, the file and the digest
  are the same prefix of the body; it is well when the disk has room and the hash
  does not fail.
* *Warnings.*  `StartsOneMore` and `EncodeTyped`: a text has as many places where
  a character starts as it has characters.  `EncodeGoesOn` says where the next one
  starts, `CutToCharacters` that a cut there leaves whole characters, also when
  the bytes had been cut before in the middle of one; `WarningWhole` puts the two
  cuts together, of which the second never reaches the dots of the first.
* *Versions.*  `VersionRead`: reading from left to right, from dot to dot, comes
  to what `VersionOf` says of the whole text; `NewerIsLarger` that comparing
  part by part is comparing one number; `SemverishIs` that an update check looks
  at the version, or as much of it as fits, up to its first + or -.
* *Payloads.*  `PackedIs` says what stands where in a gzip member with any of its
  optional parts, `HeaderSkipped` that skipping them one by one ends where they
  do, or not at all if what was cut off leaves the trailer in the way, and
  `InflatedIs` that a member with a byte missing is not unpacked.

### Watcher

`WatcherProofs` proves about `Watcher`, for any directories, lists and number of
roots, from `WatcherConstants`: a list names no directory twice, which is what
`data_dirs.c:291-303` sees to, and there is room for one root.

| Theorem | Statement |
|---|---|
| `WatcherTypeOK` | `Spec => []TypeOK` |
| `NoRootDeaf` | `Spec => []NoRootGoesDeaf` |
| `NothingFreedUsed` | `Spec => []NothingFreedIsUsed` |
| `KeepsItsPromise` | `Spec => Promise!Init /\ [][Promise!Next]_(Promise!promise)` |

The invariant has these parts, none of them inductive without the ones before.

* `Threads`: `watcher_stop` waits for a thread before it takes away what the
  thread uses; an event that is closed has no thread waiting on it.
* `Roots`: the roots in use are the first `rootCount`, also while the owner's
  loop opens, cancels or closes them, and the watch thread handles one of them.
* `Reads`: an event that is set says that its read has completed, and a read is
  cancelled only while `watcher_stop` waits for it.
* `OneRootEach`: no two open roots are on one directory.  It is why one change
  completes at most one read.
* `Paid`: the completed reads the watch thread has not passed on, the changes the
  kernel buffers, the changed event and the burst are together no more than the
  changes that had no callback yet.  This is what `KeepsItsPromise` needs to say
  that a callback is never made without a change: each step of the watch and
  debounce threads moves one unit from one of these places to the next.

The refinement maps `StartCreatesEvents` to `Start`, a change that some root
would see to `Change`, `DebounceFires` to `CallBack`, `DebounceReturns` to
`Return`, `WatchGivesUp` to `GiveUp` and `StopSignals` to `Stop`.  Its fairness
part stays with TLC.

A change belongs to one directory of `Paths`; that a read also reports changes
of subdirectories (`watcher.c` asks for the subtree), so that a change below two
nested directories completes two reads, is not modelled.

### Self-update

`SelfUpdateProofs` proves about `SelfUpdate`, for any finite set of processes,
any number of newer builds and any bounds, from `SelfUpdateConstants`:

| Theorem | Statement |
|---|---|
| `SelfUpdateTypeOK` | `Spec => []TypeOK` |
| `BuildSurvives` | `Spec => []BuildNeverLost` |
| `OneInstance` | `Spec => []AtMostOneInstance` |
| `RestartsUpgrade` | `Spec => []RestartUpgrades` |
| `OnlyVerified` | `DigestPublished` implies `Spec => []OnlyVerifiedInstalled` |
| `ParentLetsGo` | `Spec => NotTurnedAwayByParent` |

`OnlyVerified` assumes that the server publishes digests: without one
`app_update_install` has nothing to compare a download with.  The invariant they
share:

* `Running`: a living process executes a file that is there, at the executable's
  path or at `.old`; only a running process installs.  Windows does not let that
  file be deleted or replaced, so `BuildNeverLost` is a step away.
* `MutexHeld`: the named mutex is open in exactly the processes that run, stop or
  have still to be turned away.  With it the guard admits one process, and the
  parent of a hand-over, which has let go, turns nobody away.
* `Staging`: an install in progress is of a newer build, and what it moves in is
  that build once its digest was compared.
* `OneSwap`: one process at a time is between the two renames, because it
  executes from `.old` there and `.old` is occupied for everyone else; a process
  that asks for a restart executes from `.old` and has a newer build at the path.

### App coordinator

`TrayServiceProofs` proves about `TrayService`, for any setups and bounds, from
`TrayConstants`:

| Theorem | Statement |
|---|---|
| `OneScanLeft` | `Spec => []OneScanAfterDisable` |
| `WatcherFollowsTracking` | `Callers = {Main}` implies `Spec => []WatchingFollowsTracking` |
| `NothingLeft` | `Callers = {Main}` implies `Spec => []NothingLeftAfterStop` |

`OneScanLeft` holds whichever threads toggle tracking: `ScansBounded` says that
the one scan after the switch belongs to the run that had passed its check.  The
others are false for two threads that toggle at once (TLC shows it with a second
member of `Callers`), and are stated for the tray menu alone, which is the
program's only caller.  `WatcherFollows`
follows the preference through `app_start` and a toggle, up to the step that
starts or stops the watcher; `Stopped` says what each step of `app_stop` has
ended.

### Update announcements

`UpdaterProofs` proves about `Updater`, for any number of releases, manual checks
and install threads, from `UpdaterAssumption` (there is a release):

| Theorem | Statement |
|---|---|
| `UpdaterTypeOK` | `Spec => []TypeOK` |
| `GuardMeansOneInstall` | `Spec => []GuardIsTheInstaller` |
| `NeverAnnouncedTwice` | `Spec => AnnouncedAtMostOnce` |
| `InstalledAsOffered` | `Spec => InstallsWhatWasOffered` |

`GuardIsHeld` says that at most one thread is at work and that the guard is taken
exactly then; `OffersGrow` that the background check sees releases in order and
has announced none newer than `offered_version`, the one it is about to post
excepted.  The model's releases only get newer; one that is withdrawn and
published again is announced again.

### Settings dialog and the calls of the CLI

`SettingsDialogProofs` proves about `SettingsDialog`, for any keys, verify threads
and number of windows, from `SettingsAssumption`, and about `CliCalls`, for any
calls, outputs and pipe capacity, from `CliCallsConstants`.  A save and a verification
are such calls.

| Theorem | Statement |
|---|---|
| `SettingsInvariant` | `DialogSpec => []IInv` |
| `KeysStoredInOrder` | `DialogSpec => []StoredIsLastSaved` |
| `VerdictsNeverStale` | `DialogSpec => []VerdictIsTheLastAsked` |
| `CallsInvariant` | `CallsSpec => [](CallsTypeOK /\ CallInv)` |
| `SuccessIsWhole` | `CallsSpec => []OkMeansWhole` |
| `AnswersAreSettled` | `CallsSpec => AnswerSettled` |

* `OneSaveAtATime`: the settings thread waits for the call that stores a key, so
  one call runs and carries the key that is wanted.
* `VerifiersKnowTheirWindow` and `OneVerdictAtATime`: a verify thread keeps the
  window it was started for, and what it posts to a later one does not arrive; of
  the open window one verification is under way, in a thread or in the queue, and
  the button is disabled until it is shown.
* `CallInv` is about each call.  `ChildHoldsPipe`: a running child has the write
  end of its pipe, so its reader cannot see the end too early, whatever other
  children do.  `OkIsEarned`: a success is the exit of a child that had written
  everything.  `Drained`: after the join a reader that still reads has taken
  everything the child wrote, and what is left in the pipe is an heir's; both theorems
  follow.  `HeirWritesLast` keeps an heir's output behind the child's.  A step of
  one call changes of another's state only who holds its pipe (`OtherCalls`).

### Only model-checked

* Liveness (`CallsReturn`, the fairness part of the two `ImplementsPromise`,
  `EverythingSent`, `StopReturns`, `NewestIsAnnounced`), because liveness under
  fairness and `ENABLED` are out of the prover's reach.
* `AnswersUnderstood`: it compares what is read with how the text was made, and
  `Answers` reads with RECURSIVE operators, which the prover does not take.

## Where the code and its documents part

Six runs end in a violation, each of one property that a comment states:

* `preferences_unreadable`: `app.c:119-121` avoids re-reading the file before a
  save so that a transient read failure cannot feed defaults into it; a failure
  of the one read at startup does feed them into the next save.
* `update_quit`: `app_update.c:158` wants the executable's path never empty; the
  install thread is not joined, so quitting between the two renames leaves it
  empty.  `BuildNeverLost` still holds: the running build is whole at `.old`.
* `updater_lost`: `settings_dialog.c:349-351` wants every announced update to
  have an install path; the install thread clears the slot for whatever it holds.
* `calls_late_reader`: `agent_cli.c:322` moves the ownership of the buffer to the
  caller.  A reader that a process left behind keeps waiting is given up after five
  seconds (`agent_cli.c:294`), and what it reads as its pipe is being closed goes
  into a buffer that is no longer its own.  `AnswerSettled` still holds: what the
  CLI itself has written is all in the buffer by then.
* `parts_cleartext`: `app_update.c:53-55` says of `http://127.evil.example/` that it
  is not loopback, and `app_update.c:71` that cleartext downloads only ever leave
  loopback; `app_update.c:76` looks at the first four characters of the host.
* `tray_downgrade`: `agent_cli.h:64` says that `agent_bootstrap` never downgrades; a
  version probe that times out or fails (`agent_cli.c:491-497`, `535`) lets it
  replace a newer CLI.  So does an installed pre-release such as `1.2.3-rc.1`, which
  `parse_version3` rejects for its fourth dot.  `SeedIsNewerAndWhole` says "newer" of
  versions that can be read.

Seen while modelling, and part of the models without a run of their own:

* `run_cmdline` does not look at whether its reader threads could be created
  (`agent_cli.c:281-284`) or ran out of memory (`215`): the call is then successful
  without output, or with a part of it.  `OkMeansWhole` excepts such a call.
* The environment can name up to 16 directories for each of 15 providers; the
  watcher opens the first 32 roots in the order of their names (`watcher.c:8`,
  `113`), and what a sync scans beyond them is not watched.  The defaults are 23.
* `json.h` says `json_bool_is_true` is true only when the document parses; the
  lookup stops at the key, so a cut-off `{"ok":true` is true, and an update's
  answer cut off behind its address is offered without size and digest.
* `settings.h:18-19` says an unreadable or invalid file fails to load; any text
  with a brace in it loads as defaults.
* The Settings dialog's login box stays as it was clicked when the registry
  cannot be written (`settings_dialog.c:412`).
* A taskbar that announces itself while it still has the icon (after a change of
  the display's scale) makes `tray_add` fail and the remembered theme change, so
  a pending theme change leaves the old glyph (`ui.c:151-156`, `184`).  A theme
  that changes between `ui.c:202` and the creation of the window is missed until
  the next change; an icon that could not be added again is not retried.
* `agent_cli.c:228` says only the child inherits the write end.  A child that
  another thread starts at that moment inherits it as well; the call then ends
  through its five-second join.
* A start that is about to turn itself away has a handle on the instance mutex
  (`instance.c:6-12`).  If the running instance hands over at that moment, its
  child can find the mutex and quit too, and nobody runs.
* `app.h` calls its functions thread-safe.  Two threads that toggle tracking at
  once could leave the watcher opposite to the flag; the program toggles from
  the menu only, and `TrayService` is instantiated so.
* A key whose save failed is not saved again for the same text, since
  `last_saved_key` is set first (`settings_dialog.c:279`).
* A manual check that answers late stores the older release over a newer one;
  a release that is withdrawn and published again is announced again.
* A candidate directory created after monitoring has started is not watched
  until it starts again; the ticker covers it.

## What is not modelled

* The wrapper of BCrypt, the vendored inflater and the opening of WinHTTP handles:
  no state that a property could relate to anything.  Where their outcome matters
  it is a choice (a digest is equality of contents, and may fail).
* `util/buf.c` and the conversions between UTF-8 and UTF-16: bytes are sequences
  and texts keep their encoding in the models.
* Drawing and layout: the building, fonts and colours of the dialog, the glyph and
  the logo, the task dialogs, the texts of balloons and menus, the opening of the
  dashboard in a browser.
* The path of the shared CLI, `version.c`, the build scripts and the tests.
* A window class or a window that cannot be created (`ui.c:206-216`): the program
  ends at once.
* Allocation failures, except where a thread, event or handle is what is not
  created.
* Power loss: a write that has returned is taken to be on the disk, and a rename
  to be atomic for a process that dies.

## Plan

The order is by what would hurt most if it were wrong.

Done: every component with state is modelled, checked and has theorems: `Syncer`,
`Watcher` and `Preferences` with their abstract specifications and the safety of
the refinements; `Desktop`, `SelfUpdate`, `TrayService`, `Updater`,
`SettingsDialog` and `CliCalls` with all the safety properties their runs check.
The pure functions are checked, and `CommandLine`, `DataDirs`, `StartupWarning`,
`Download` and `Seeding` proved for inputs of any length.

Next:

1. What the theorems about `Watcher` leave out: directories nested in each other,
   whose changes complete the reads of both.
2. `JsonReader` and `Answers`: the scanner without recursion, and that what it reads
   of a document is what was written, for documents of any size.
3. `TrayService` over the abstract specifications of `Syncer` and `Watcher`: that
   the two flags and the owed callback it keeps of them are what
   `CoalescingRunner` and `WatcherPromise` allow.
