# RuyiSeek: specification, model checking and proofs

RuyiSeek (如意寻) is a file search for the Deepin/UOS desktop: a daemon keeps an
index of the file names below some roots, a launcher asks it over a Unix socket,
and a double press of Control brings the launcher up. This directory holds TLA+
models of it, the TLC configurations that check them and the proofs that TLAPS
checks. All paths below are relative to the repository (`src/` in
`PROJECT.json`).

## The system

| Component | Code | State | Operations | Hard behaviour |
|---|---|---|---|---|
| Index and refresh monitor | `apps/ruyiseekd/src/main.rs`, `crates/ruyiseek-index` | the index behind an `RwLock`, an inotify watcher, the stop flag | initial walk, poll, rebuild, switch of watchers, publish, shutdown | events racing with walk and watch, lost or failed watches, volumes that come and go, also inside the home, queue overflow, join in the middle of a rebuild |
| Double-Control recognizer | `crates/ruyiseek-platform/src/hotkey.rs` | `State`, `last_event_at` | `handle`, `expire`, `reset` | long sequences of presses, times at the limits |
| Launcher, event pump, search worker | `apps/ruyiseek-ui/src/main.rs`, `ui/*.slint` | text, generation, rows, selection, windows, two channels | callbacks, events, commands, coalescing, quitting | late answers, dropped commands, rows that change under an open menu |
| Daemon instance | `apps/ruyiseekd/src/main.rs`, `ensure_daemon_running` of the UI | the socket file, listeners, backlog | bind, accept, serve, guard, probe and spawn | two starters on a stale socket, a client of a daemon that is leaving |
| Session bus | `session_bus.rs`, `run_launcher` | the bus name, calls, the event channel | claim, forward, service, event loop, end | a process that leaves while another forwards to it; answers that take too long |
| Hotkey listener, session lock | `x11_hotkey.rs`, `session_lock.rs` | two preference atomics, the lock flag, `fullscreen_blocked` | raw events, mapping change, preference update, lock signal | flags read at different moments |
| Settings | `config.rs`, `autostart.rs`, `on_save_settings` | the configuration, its `.previous`, the autostart file | load, save, enable, disable | crash or error between two file operations |
| Clipboard | `x11_clipboard.rs`, `copy_*_to_clipboard` | the selection owner, one window and thread per copy | set, serve, release, join | giving up a selection that is somebody else's; joining a thread in the UI thread |
| IPC codec, query scoring | `ruyiseek-ipc`, `ruyiseek-query` | none | encode, decode, frame, score, sort | overlapping score cases, bytes that delimit lines, the frame limit |

The launcher's worker, the CLI and a starting UI are clients of the daemon; tray,
session bus and hotkey thread only put events into the UI's queue; the settings
change the hotkey listener's atomics.

What makes each of them correct: the index agrees with the disk wherever it is
watched and converges everywhere; the gesture fires exactly for double taps; an
outdated answer never replaces the rows; QuitAll ends both processes or says why
not; there is at most one daemon; a saved setting survives a crash; a start that asks
for a window gets one or a reason; a paste gets what was on the clipboard when it was
asked for; the best matches come first and arrive as they were found. `PROJECT.json`
lists the hazards line by line with the properties that cover them.

## Modules

* `FileTree` - paths of a disk, their kinds, what a walk lists of a directory, and
  what a walk of the whole disk would find. Used by `IndexRefresh`.
* `IndexRefresh` - the daemon's two threads, inotify and the disk.
  `MCIndexRefresh` gives small disks.
* `IndexRefreshProofs` - its theorems.
* `DoubleCtrl` and `DoubleCtrlProofs` - the recognizer and its theorems.
* `HotkeyListener` - the X11 listener, the lock monitor and the two preferences, around
  the actions of `DoubleCtrl` (`R == INSTANCE DoubleCtrl`). `MCHotkeyListener` gives it
  two keys whose meanings may be swapped. `HotkeyListenerProofs` - its theorems.
* `SearchView` - what the launcher promises to its user, in four actions: a text, rows,
  and the text these rows answer.
* `DaemonInstance` - the daemons that start, hold and give up the socket, a launcher
  that looks for one, and a user who stops it. `DaemonInstanceProofs` - its theorems.
* `ConfigStore` - the settings on disk, one file operation per step.
  `ConfigStoreProofs` - its theorems.
* `Launcher` - UI thread, search worker, their channels, and the daemon as far as
  they see it; implements `SearchView`. `MCLauncher` gives it texts and answers.
  `LauncherProofs` - its theorems.
* `UiProcess` - the set of interface processes, which the next three share.
* `SessionBus` - the starts of the interface in one session: who gets the name, who
  forwards, who goes on without it.
* `Clipboard` - copies of those interfaces, the threads that serve them, other programs,
  and the X server.
* `Desktop` - the composition of `SessionBus` and `Clipboard`: a process that ends
  takes its window with it, and a UI thread that copies pumps no event meanwhile.
  `DesktopProofs` - the theorems of all three.
* `SearchRequest` - one search from the request's frame to the decoded answer: codec,
  limits, scoring and sorting. `SearchRequestProofs` - its theorems.
* `MCSequential` - checks `DoubleCtrl`, `SearchRequest` and `ConfigStore` in one run. None of
  them waits for anybody, and a behaviour is one of one of the three.

### IndexRefresh and the code

`main` is the point the main thread has reached: `start` (the socket is bound),
`scan` (the first `build_index_state`), `serve` (the accept loop), `join`
(`RefreshMonitor::drop`), `exit`. `monitor` is the point of the monitor thread:
`first_watch` and `watch` are the loops of `FileWatcher::new`, `park` is
`park_timeout`, `poll` and `decide` the two halves of an iteration up to `continue`,
`scan` the rebuild, `follow_up` between the two operands of the `||` at main.rs:269-280,
`publish` before the write lock.

A walk reads one directory per step, so every change of the disk can fall between
two directories; it can also fall between any two `inotify_add_watch` calls. The
order of the `VecDeque` only matters when the walk is truncated, and any order is
allowed. An index is kept as one listing per directory read rather than as one list
of items: two roots inside one another then show whether a directory was lost.
Reading one directory is one step (the code iterates `read_dir`; a change in the
middle of one directory is taken to fall before or after it).

The inotify queue is a number, for `has_changes` looks at nothing else; at
`QueueLimit` it overflows, which is one more unread event. A read takes at most one
buffer (`BufferEvents`). Old and new watcher share `WatchLimit`. A watch follows the
inode, so it ends with the directory (`Detached`). Mode changes are not in the mask and
not modelled: `Unreadable` is fixed.

A volume may be mounted on any root but the home, inside the home as outside it and on
another volume: mounts.rs:83-86 keeps such volumes as roots, and only refuses mount
points above the home. `present` is what a path leads to now; `under[r]` is the tree the
volume on r is mounted over. `Mount` tells inotify nothing, though the listing of a
directory that is being watched becomes another one. The watches on what it hides stay
(`hidden`): they hear nothing, for nobody reaches what they watch, and count
against the limit. `Unmount` ends the watches on the volume, which each queue an event,
and what was hidden is back with its watches (`Reveal`). That the roots follow is
`Available`: of the mounted volumes those that `read_dir` opens.

Three things are left out. A tree with a mounted volume in it is not moved, removed or
mounted over, and a volume is not unmounted while another one is mounted in it, which
the kernel refuses (moving a tree or a lazy unmount aside). No two volumes are mounted
on the same point. File systems that do not become roots (bind mounts, network file
systems, loop devices) are not mounted over indexed directories: such a mount would
neither be told nor change the roots, and the index lists what it hides until the
fallback.

`bridged` and `covered` are history variables: directories the old watcher watched
when they were read, on the roots the walk was given, and those of them the new watcher
went on to watch. `InSight` are the covered ones that no volume hides.

### DoubleCtrl and the code

One action for each way through `handle`. `heard` is a history variable: the Control
events since anything interrupted the gesture. Inputs are unrestricted: presses
without releases, releases without presses, any times.

### HotkeyListener and the code

`listener` is the point of `run_event_loop`: `wait` is `wait_for_event`, `query` the
request of `is_fullscreen` in between, `handle` the call of the recognizer; before
that `off` and `load` are `spawn_double_ctrl_listener`, which selects the events
first and loads the mapping after. Everything the listener reads belongs to somebody
else and is read at a moment of its own: `suppress` when a press is taken, the window
when the X server answers, `enabled` and `flag` when the event is handled, and the time
after all requests. `monitor` is the point of `session_lock::spawn` and its thread;
logind's signals wait in `signals` and either carry the value or only say that the
old one is void, after which the value is read again. `update` is two stores.

`queue` are the events of the X connection, with what the user meant by them: the key
by the mapping in force when it moved, and the time. The listener sees only the code.
`real`, `behind` and `missed` are history: the Control events as they were typed since
anything ended the gesture, whether the listener was ever late or without the
mapping in force, and whether the session changed between the monitor's `get` and its
`match_signal`. Arrow keys are events of `Launcher`.

### Launcher and the code

One action per callback, per kind of event in the pump and per step of the worker. The worker
takes commands one by one (`Receive`, `Coalesce`), so the UI can add some while it drains; a
request has one step, in which the daemon answers anything it may answer or the request fails.
`Blank` text stands for every text that trims to nothing. Typing leaves the rows of the text
before where they are, until the answer (main.rs:321-327), and Enter opens them. `awaiting` and
`answered` are history: whether the text has had its answer, and which text the rows answer. The
context menu's window, `popup-index` and `result-index` are one variable; hiding that window is
taken to succeed, the launcher's own windows may fail (`WindowMayFail`). Status texts are left
out. The pump handles a batch of events per tick, the model one event per step: events that
arrive later give the same interleavings.

### DaemonInstance and the code

`pc[d]` is the point a process has reached in `main`: `exists` to `chmod` are the
system calls of `bind_single_instance` one by one (`UnixListener::bind` is two,
bind(2) and listen(2)), `scan` the first walk, `serve` the accept loop, `join`, `guard`
and `close` the destructors in the order Rust runs them (monitor, socket guard,
listener). `file` is what the path names, not a lock: whoever unlinks or binds it acts
on the name, so a daemon may remove another's socket. `backlog[d]` holds the
connections the kernel has accepted for d; a client that gave up stays in it as
`Gone`. `answer` is the outcome of `request_daemon`: only a failed connect is
`unreachable`, every later failure is `error`, as in `ClientError`. The launcher's
`stage` follows `ensure_daemon_running`; the five seconds of `wait_for_daemon` are
`MaxProbes` probes, any of which may take its whole timeout.

`raced`, `met` and `host` are history: whether a daemon started while another was
still inside `bind_single_instance`, which daemons had the path when one started, and
which daemon has kept the path since the launcher first reached it.

### ConfigStore and the code

`now` is what each path names; `old` what it may name again after a power cut,
because its directory was not synced since. An inode is a text and whether it was
synced; contents that were not may be cut short, and a text cut at the end of a line is
a configuration with defaults for the fields that are missing (`serde(default)`).
`pc` is the next file operation and `job` what it belongs to: `write_atomic` serves
the entry, the configuration and the rollback of the entry. Removing the entry reads it
(`FindMarker`) and then unlinks what the path names by then (`RemoveEntry`); somebody else may
replace it at any moment (`EntryReplaced`). Temporary files carry the
process number, which a later process may have again (`StartUi`). Any operation may
fail, except that what ends a failed `write_atomic` is its guard; `Killed` and
`PowerCut` may come between any two. `committed` and `tried` are history: the settings
last reported as saved, and those whose save began since.

### SessionBus, Clipboard, Desktop and the code

`stage[u]` is the point of `run_launcher`: `forward` is the method call that waits for
its answer (`taken` once the callee's service thread has put the action into the
channel), `early` everything between the claim and the event loop, `run` the loop, `leave`
from the drop of the timer, with which the receiver goes, to the end of the process, which
gives up the name. `calls[v]` is what waits in v's connection, `events[v]` its channel. A
call that is not answered within two seconds stays where it is while its caller goes on
(`TimeOut`). `Show` stands for `Toggle` and `Settings`, which take the same ways. What
`Quit` leads to comes back from the worker, as `AskToExit`, like an exit in the menu.
`unseen` is history: the start of u asks for a window, and its action has neither been
applied nor lost with the process that had accepted it.

`owner` and `inbox` are the X server's; a window is named by its interface, which has
one at a time. `caller[u]` is the point of the UI thread in `copy_*_to_clipboard`
(`join` in `ClipboardOwner::drop`, `set` before `set_selection_owner`, `verify` before
`get_selection_owner`), `thread[u]` that of `serve_selection_events`: `loop` the
deadline and the flag, `poll` the match on the next event, `release` before
`release_owner`. All operations take `CURRENT_TIME`, so whoever comes last owns the selection.
`data` is known by the number of the copy, and a request remembers which one was on
offer when it was made. The half second after a request may be over at any poll.

### SearchRequest and the code

Texts are abstracted to what `score` finds out about them: for each token the best way
in which it matches (`Quality`, in the order of the documentation), whether the joined
tokens are in the name, and in how many places the initials spell the query. Scores are
hundredths, where the code has `f32`: sums that round differently there could only
change the order of items that are equal here. The name is also a sequence of bytes, for its
length breaks ties and it goes through the codec: bytes are 0 to 8 instead of 0 to 255,
the first three of them the digits of an escape, so that every kind of byte (plain,
digit, `%`, tab, line feed, other) is there. The path is a sequence of bytes, too, and goes
through the codec as the name does; how paths compare is a number of its own (`rank`). A
hit is written as one flag, name and path; id, score and the other flag are three more
fields of bounded length without a separator. Only the number of hits is a `Symbol`, which is
none of these bytes: it is written in decimal digits.

`sort_by` is the stable order `Precedes`: the place of a hit is one more than the number of
hits that precede it, and `Sorted` puts each at its place. The loops of `decode_bytes` and
of `split` are recursive functions over the number of rounds. `Index` is what the engine
may hold, in the order a walk met it; no two items of it have the same path.

## Runs

| Run | Properties | Result |
|---|---|---|
| `refresh_volumes` | `CoveredListingsAreCurrent`, `FullCoverageIsFresh`, `FailedWatchSparesTheOthers`, `QuietAfterExit` | a home with a directory in a directory, volumes mounted over either and on one another; 3 changes, everything may fail: holds |
| `refresh_nested` | `TypeOK`, `TruncationIsExact`, `EventuallyFresh`, `RebuildsSettle`, `ShutdownCompletes` | a volume in the home, a file and an unreadable directory on it or under it, a limit of two items, 2 changes, under `FairSpec`: holds |
| `refresh_race` | `RacingEventLeavesNoStaleListing` | **violated**, see below |
| `sequential` | `TypeOK`, `TriggerNeedsDoubleTap`, `DoubleTapTriggers` | `DoubleCtrl`: six events, four times, hold and gap 1: holds |
| | `BetterMatchRanksFirst`, `WalkOrderDoesNotMatter`, `UiGetsTheHits` | `SearchRequest`: two items, one or two tokens, any limit: holds |
| | `StoreTypeOK`, `SavedSettingsSurvive`, `EntryFollowsSettings`, `NoTemporaryLeft` | `ConfigStore`: two saves, and up to three of two failures, a kill, a power cut and a file damaged or replaced: holds |
| `desktop` | `TypeOK`, `RivalOnlyOfLeaver`, `AnswersAreOfTheirTime`, `OthersSelectionOnlyWhileUntold`, `RequestsConclude`, `CopiesConclude`, `EveryShowConcludes` | two processes, a start each or one that starts twice, an exit, two copies, two requests, a copy of another program, failing bus and X server, under `FairSpec`: holds |
| `hotkey` | `TypeOK`, `TriggerNeedsRealDoubleTap`, `LockedSessionIsLeftAlone` | two keys, four events, two changes around them, every signal and failure: holds |
| `launcher` | `TypeOK`, `SelectionInRange`, `BlankQueryShowsNothing`, `QuitAllLeavesNoDaemon`, `OutdatedAnswersAreDropped`, `SearchesSettle` | three edits, one request, under `FairSpec`: holds |
| `launcher_quit` | `QuitAllConcludes` | **violated**, see below |
| `daemon` | `TypeOK`, `ClaimIsExclusive`, `SteadyDaemonGetsNoRival`, `LauncherFindsDaemon` | a daemon of systemd started up to three times and the launcher's, a fault, a Shutdown, under `FairSpec`: holds |
| `daemon_late` | `LaterStarterFailsFast` | **violated**, see below |
| `config_backup` | `ValidConfigRemains` | **violated**, see below |
| `config_foreign` | `ForeignEntryIsKept` | **violated**, see below |

`OutdatedAnswersAreDropped` is the refinement of `SearchView`: the text, the rows, two
history variables for "not answered yet" and for the text the rows answer, and the running
event loop are the abstract state. It does not say that the rows are the answer to the text
in the box: those of the text before stay below it until its own answer comes. It
says that nothing else ever replaces them (`RowsAnswer`).

An index that is truncated without being called so is found by `EventuallyFresh`, which asks for
all items then; `TruncationIsExact` is about the other direction and the limit itself.

Every property of a passing run has a mutant in `PROJECT.json`: an operator,
defined just before the one it replaces, that a plausible mistake would have
produced; under it the run fails.

### Bounds

* Disks have 3 or 4 paths. Two directories in a chain are the smallest disk on which
  a watch, a listing and a descent concern different directories; a third one is there for
  volumes that hide more than their mount point, and for a volume on a volume. A
  volume brings every tree that fits below its mount point, and so does what it hides.
* `MaxChanges` 2 or 3: one change to make the index stale, one to race with the
  repair, one to race with the follow-up.
* `QueueLimit` 2 and `BufferEvents` 1 make both overflow and a queue that one read
  does not drain happen.
* Six keyboard events hold a double tap with up to two more before or after it; four
  times with limits of 1 give holds and gaps below, at and above them.
* In `hotkey` the limits are 0 and the times 0 and 1, so a hold or a gap is either within
  its limit or not; the arithmetic at the limits is `sequential`'s. Four events are one
  double tap; one event waits while one is handled; two changes are, for instance, a
  swap of the keys between the taps and a lock, or a lock and an unlock.
* Two texts, lists of no, one and two rows that share a path; two requests (in `launcher_quit`)
  suffice for quitting and coming back; three edits for two stale answers on their way.
* The passing run of the daemon has two processes, of which one may start three
  times: both start at once over a dead socket, one starts while the other leaves, or
  after it was killed or asked to stop. One fault and one Shutdown each make every order
  of the destructors and every dead socket happen; two probes give a first verdict, a
  wait and the end of the wait. Three processes, for `daemon_late`, are one that is
  binding, one that takes its socket for a dead one, and one that starts afterwards;
  with three at once the liveness run takes too long. `ClaimIsExclusive` is proved for
  any number.
* Two saves: one that must survive, one that is interrupted; two failures, so that the
  rollback of a failed save fails too; one kill, one power cut and one file
  that somebody else damages or replaces, before, between and after; at most three of all these
  (`MaxDisasters`) in one behaviour. The proofs have no such bound.
* In `refresh_nested` there are three directories and `WatchLimit` is 5, so that old and new
  watcher together can exceed it; in `refresh_volumes` it is 6, the allowance that
  `FailedWatchSparesTheOthers` asks for, and a watch fails for a directory that is gone. An
  index that is truncated is only asked, by `EventuallyFresh`, to hold nothing that is gone.
* Two interfaces are one that has the name and one that wants it, and the second start
  may be of the same process after it ended. The modes are `Show` and `ExitUi`: `Hide`
  and `Quit` take the ways of `ExitUi` or of an exit, and a start in the background only
  differs from `Show` in that it forwards nothing; the modules have all of them, and the run
  leaves them out because with them it takes too long. Two copies are one that is served while the
  next joins it; two requests let the second come after the half second began, or wait behind
  the first; one copy of another program takes the selection away. Five minutes
  (`LongServing`) are left out of the run: they end in the same release as the flag.
* Two items of any two of the eight ways to match, with and without the bonus for
  directories and the malus for hidden ones, with two lengths of name, cover every pair that the
  order compares; properties of an order between pairs need no third. A frame of the run
  holds one hit of any name and path, or two if they are short. Limits go from 0 to one that
  `decode_request` refuses.

Deadlock is checked in the refresh runs (`Exited` stutters when the process has
ended). The recognizer and the listener stop at `MaxEvents`, a search ends with its answer, an
idle launcher waits for its user, a desktop for both, daemons for clients and the
settings for a save: these configurations switch the
check off.

### Fairness

`IndexRefresh`: weak fairness of each thread (`MainStep`, `ScanDirectory`,
`MonitorStep`: the threads hold no lock while they wait, `park_timeout` returns
after 500 ms at the latest) and of the passage of five minutes. None for the disk,
nor for a client that sends Shutdown. `Launcher`: weak fairness of the pump (a
repeating timer) and of the worker (every request ends by the 5 s timeout). None for
the user, the tray, the bus, or the daemon. `DaemonInstance`: weak fairness of each
daemon's own steps (walks end, the accept loop takes whatever is queued), of the
clients' read timeouts and of the launcher; none for systemd, faults or the user.
`Desktop`: weak fairness, for each process, of its bus steps (the bus delivers, the
service thread and the pump take what is there), of the UI thread inside a copy, of the
serving thread, whose loop never blocks, and of the way out of the process once it has begun;
none for starts, exits, copies, pastes, nor for any particular failure.
`LauncherFindsDaemon` exempts behaviours with a fault or a Shutdown: then there may be
no daemon at all.

## What the violations show

* `refresh_race`: a directory unknown to the old watcher is walked, gets a file, and
  then its watch. Neither watcher reports the file, so no follow-up is scheduled
  although main.rs:266-268 says that a racing event cannot leave a stale snapshot.
  The index is right again after the fallback (`EventuallyFresh`).
* `launcher_quit`: a worker that is draining its queue after a search drops a
  Shutdown for a later search (main.rs:741-745). QuitAll then neither stops the daemon
  nor ends the interface nor reports an error, against README.md:114.
* `daemon_late`: a starter that connects between another's bind(2) and listen(2) is
  refused, takes the fresh socket for a dead one and removes it; a daemon that starts
  after the path was claimed then finds nothing there and binds it too, while the
  first one scans. main.rs:50-53 says that every later starter fails fast.
* `config_foreign`: launch at login is turned on while there is an entry of that name without
  the marker, and `write_atomic` renames over it (autostart.rs:13-15).
  docs/implementation-status.md:52 says that a foreign file is neither overwritten nor
  removed, README.md:116 that only entries with the marker are modified. Removal does check the
  marker; between the look and the `remove_file` the entry may be replaced, and is then removed.
* `config_backup`: a save while the configuration is damaged first copies the damage
  over the valid backup. If it ends there, the next start has neither, and the fall
  back of docs/implementation-status.md:51 leads to the defaults.

More came up that no property forbids. The context menu goes by the index of its row: when an
answer comes while it is open, its entries act on whatever row has the index now. A launcher
that starts just after an acknowledged Shutdown meets a daemon that still listens while it joins
its monitor, takes it for one that initializes, waits and starts none. A kill between the entry
and the configuration leaves them apart, and a later save that does not change launch at login
reports "saved and in effect" beside it. A session that locks after the monitor's `get` and
before its `match_signal` counts as unlocked until it changes again, and
`LockedSessionIsLeftAlone` exempts that. A listener that is late stamps events with the time at
which it gets to them, so that a long hold may measure as a short one;
`TriggerNeedsRealDoubleTap` speaks of one that keeps up.

Of the index: a volume in the home that is unmounted and mounted again between two looks at the
mount table leaves the roots as they were. A walk in between lists what was under it, and if the
old watcher had no watch on the volume nobody is told; the index is right again after the fallback.

Of the desktop: a start that asks for a window while the owner of the name is on its
way out (a `--hide`, an exit) is told that it was forwarded, and nothing opens. One that is
refused goes on without the name, as it does when the bus is slow, and then a third start may claim
the name beside it: two interfaces, where README.md:19 speaks of one. `release_owner`
does not ask who owns the selection: another program that copied since the last poll
loses its selection (`OthersSelectionOnlyWhileUntold` confines it to that). A mere request for
the list of types starts the half second after which the selection is given up, although
x11_clipboard.rs:36 says that the data never gets lost; a paste after it gets nothing.
The list of types itself is written with the bytes of each atom in big-endian order,
whatever the order of the machine is (not modelled).

Of the search: the last resort for a single token in capitals
(`crates/ruyiseek-query/src/lib.rs:155-179`) is meant for names that do not match, but its guard
also lets a name through that equals the token: if the initials fit, it drops from 1.0
to 0.46, below every prefix. The density branch of `token_score` is never reached, because the
name is itself a segment of the path. `ruyi --limit 1000` may find more than fits into a
frame; the daemon then closes the connection without an answer, and the client advises
to start the daemon.

## Proofs

`tlapm` checks every step of these theorems; none is assumed.

* `IndexRefreshProofs`, for every tree, every limit, any failures and any number of
  changes: `TypeCorrect`, `Inductive` (`Spec => []IndInv`), `CoveredListingsAreAlwaysCurrent`,
  `QuietAfterExitHolds`, `TruncationIsAlwaysExact`, `FollowInductive`,
  `FailedWatchAlwaysSparesTheOthers` and `FullCoverageIsAlwaysFresh`. Assumed are
  `TreeAssumption` (finitely many paths; what a path that is no root is in, is a directory
  of the tree, and so is what a root below something else is in) and `RefreshAssumption`
  (limits are numbers; no mount point lies above the home, which mounts.rs:83-86 refuses).
  Mount points may lie below each other and below the home, and the roots may come from the
  mount table or from the command line; TLC's runs all have the former.
* `DoubleCtrlProofs`, for every configuration, all times in Nat and any number of events:
  `RecognizerTypeCorrect`, `TriggerAlwaysNeedsDoubleTap` and, the other way round,
  `DoubleTapAlwaysTriggers`.
* `HotkeyListenerProofs`, for every keyboard and clock, and any number of events, signals,
  failures and changes: `TypeCorrect`, `LockedSessionIsAlwaysLeftAlone`,
  `TriggersOnlyOnWhatWasTyped`, and `ListenerImplementsRecognizer`: every step of the
  listener is one of `DoubleCtrl`, or none.
* `LauncherProofs`, for any texts, answers and lengths of the channels: `TypeCorrect`,
  `Inductive`, `SelectionIsAlwaysInRange`, `BlankQueryAlwaysShowsNothing`,
  `QuitAllNeverLeavesTheDaemon`, the refinement `LauncherImplementsSearchView`, and
  `RowsAlwaysAnswer`, which it carries over from `SearchView`.
* `DesktopProofs`, for any number of processes, starts, copies and requests: `TypeCorrect`,
  `Inductive`, `RivalsAreOnlyOfLeavers`, `AnswersAreAlwaysOfTheirTime` and
  `SelectionsAreOnlyReleasedUntold`.
* `DaemonInstanceProofs`, for any set of processes and any number of starts, kills,
  requests and probes: `TypeCorrect`, `ClaimIsAlwaysExclusive` and
  `SteadyDaemonNeverGetsARival`.
* `ConfigStoreProofs`, for any settings and any number of saves, failures, kills and power
  cuts: `TypeCorrect`, `SavedSettingsAlwaysSurvive`,
  `NoTemporaryEverLeft` and `EntryAlwaysFollowsSettings`.
* `SearchRequestProofs`, for every index and request of any size, any names and limits:
  `SearchInvariant`, `BetterMatchesRankFirst`, `NoWalkMatters` and `UiAlwaysGetsTheHits`; and,
  of the codec, `BytesComeBack` and `AnswerComesBack`. Assumed is `SearchAssumption`: the index
  holds no path twice, no name is longer than `MaxName` and no path longer than `MaxPath`, the
  interface's limit is one the daemon takes, and that many hits with names and paths all of
  whose bytes are escaped fit into a frame. In the code 50 hits have 1 MiB: each has a name of
  at most 255 bytes, of which `to_string_lossy` may make 765, and a path of at most some 4400;
  the codec writes at most three bytes for each of them, and there are four short fields. That
  is less than 800 KB.

`CoveredListingsAreCurrent` only speaks of the monitor at rest, and is not
inductive. `IndInv` says what holds elsewhere: `PhaseInv`, which variables are in use
at which point of the two threads; `WatchInv`, that bridged and covered directories
are watched and exist; and `CoverInv`, that at every point a change of a covered
directory since it was read is still known to something: the watcher's queue,
`refresh_pending`, `file_changed` or the walk in progress. Each action either keeps the one
that knows or hands over to another; the proof has one step per action.

Volumes make the disk one of layers: the tree on top, in which paths are found, and the tree
that each mounted volume hides (`Fits`: each directory a watcher has lies in the tree of one
layer, none in two, and only mounted volumes hide anything). `CoverInv` speaks of each layer:
what the index has of a covered directory is what the directory's own layer has, or something
knows. `Placed` adds where the index may have got it from: no root the directory is on has lost
its volume, and what hides the directory is not one of those roots. So a hidden directory is not
wrong, only out of sight, and with the roots of the moment none is hidden: a volume that hides
it would be one of them. What a change of the disk must keep is the same for its four actions
(`DiskStep`: `KeepsTelling`, what is watched in a layer keeps its entries or its queue grows,
and `PlacesKept`, what was in place stays so), and is proved once for each.

The other three theorems about the index need to know how a walk proceeds. `WalkInv` says
that no directory is visited twice, that one that is no root was found in the listing of
another, that readable, indexable directories join each of them to a root, and that the
items stay within the limit: an entry lies in one directory only, so reading a directory
adds as many items as it takes entries. `FollowInv` goes with `CoverInv` through the
monitor's code: what was found in a bridged directory was entered, and is watched or still
to be watched, or something knows of a change there. At rest nothing knows of one. Then
the directories that were read are those a walk would read now. One way this is `WalkInv`; the
other, take a directory that is missing and has no missing one above it: the directory it is in
was read, its listing is current, so it was entered. That such a directory exists is the
well-foundedness of the finite sets of paths above a path.

For the recognizer, `TapInv` says what the state remembers of the events: a press
that is not a chord is the last Control event, a second one follows a tap within the
gap, and an armed state is a tap. For the converse, `CompleteInv` says what the events
say of the state: whatever `EndsInDoubleTap` asks of the last one, two, three and four
events puts the recognizer into the state that goes with it.

For the listener, `MonitorInv` says what the flag is worth: with no signal waiting it is set
whenever the session is locked, unless the change was missed; otherwise the last signal carries
the value in force or makes the monitor read it again. A monitor that failed has set it, and a
listener only starts beside one of the two. What the user typed and what the recognizer is told
agree as long as the listener keeps up (`KeepsUpInv`): the key in hand was given its meaning by
the mapping the listener has, and that is the one in force unless a change of it waits in the
queue. The rest is the recognizer's own invariant: its lemmas are taken from `DoubleCtrlProofs`
by `INSTANCE`, because each step of the listener is a step of the recognizer.

For the launcher, `ChannelInv` says that nothing in the two channels or in the worker's
hands is of a later text than the one in the box, and that what is of this one asks for it or
answers it; `AskedOnce`, that there is at most one command or answer of it anywhere. So
an answer of the current generation is the answer to the text in the box, and taking it ends the
wait. `TextInv` adds that a blank text has no rows and waits for none.

For the desktop, `BusInv` says who has the name and who may still wait for whom: a
start that was refused was refused by a process that leaves or has ended. `ClipInv` says that a
request in the inbox of a window that still waits was made of the data this window
serves (`WaitingInv`), and that a thread that serves a window which is no longer the owner
has the news in its inbox (`OwnerInv`).

For the daemon, `ClaimInv` says why a claim is exclusive when starters come one after
the other: at most one process is inside `bind_single_instance`, whoever has bound a
socket is the one the path names, and a process that has looked and found a dead
socket, or nothing, is beside nobody who has bound one. Destructors keep it because the
listener closes after the path was removed. `HostInv` follows the launcher: as long as a
daemon it has found keeps the path, no probe was refused and no refusal is on its way.

For the settings, `CommitInv` strengthens what a start finds to every entry the
configuration may have after a power cut: each is synced and accepted. The
temporary file is synced before the rename (`PhaseInv`), so the rename adds only such
an entry; the sync of the directory leaves only the new one, and only then is the save
reported. `EntryInv` says at each point of a save, and of its rollback, what the entry is
and what it is about to become; `TemporaryInv`, that a temporary file exists between its
creation and its rename only.

For the search, `SearchInv` says what is known at each point: the hits are those of the index
that was read, the frame is theirs, the answer is what `decode_response` makes of it. The
work is in the operators. No library theorem that takes an operator can be used here,
so the inductions over names, lines and hits go back to two lemmas about sets: that a set of numbers
which is not empty has a smallest (`SmallestNumber`, from the well-foundedness of `<`), and that
a function defined by recursion over `0..N` exists and obeys its equations
(`Recursion`, `Recurses`). With them:

* `decode_bytes` is the inverse of `encode_bytes` (`BytesComeBack`): after the rounds of the
  first k bytes the loop stands at the offset of the next one and has put out those k.
* `split` finds the fields and lines that were written (`SplitPieces`), because no piece
  has a separator in it: a name or a path leaves `encode_bytes` without one.
* A frame of n hits is at most 1 + n * (4 + 3 * `MaxName` + 3 * `MaxPath`) long (`FrameLength`).
* `sort_by` sorts (`SortingSorts`). Among items with paths of their own its order is total
  (`BeforeDecides`), so the places are a numbering of the hits (`Ranks`), and a permutation of
  the index moves each hit to the same place (`AnotherWalk`).
* A better match of a single token, not in capitals, has a score that is higher by more than
  the two hundredths of a directory (`WorseScoresLess`).

TLC checked each of these invariants before it was proved, on the instances above or on smaller
ones. Three attempts that failed showed mistakes of the model, which are corrected: the count in
the header of an answer was the bare number, so that of five hits was a line feed (`Symbol` in
`SearchRequest`; the run's frames never hold five); a start that ended without the name kept its
refusal into its next life (`Unguarded` in `SessionBus`; TLC finds it with four starts, more
than the run has), and a `CASE` of `GetVerdict` in `DaemonInstance` had guards that overlap.
Assumptions were added where a proof showed that they had been made silently: on `None` in
`Clipboard`, on times and limits in `HotkeyListener`, on the parents of paths in `FileTree`.

Only model-checked: the liveness properties (`EventuallyFresh`, `RebuildsSettle`,
`ShutdownCompletes`, `SearchesSettle`, `LauncherFindsDaemon`, `RequestsConclude`,
`CopiesConclude`, `EveryShowConcludes`): liveness under fairness is out of the prover's
reach. Every safety invariant, every action property and the refinement that a passing run
checks is stated by a theorem.

## Not modelled

File contents and metadata, status texts, layout, the tray's icon, packaging, opening a
result (`xdg-open`), arguments and output of the command line client, and the parsing of
`mountinfo` (its result is an input). Of the daemon's instances: `--once`, the five
seconds a silent client may hold the accept loop (its request just takes long), and time
itself, of which only the number of probes is left. Of the settings: two interfaces that
save at once (the session bus keeps them apart as long as it can be reached), and a
configuration path that cannot be determined, which saves nothing. Of the hotkey:
`activate_window`, the refusal under Wayland, and the tables of keysyms, of which only the
kind of key is left. Of the clipboard: the bytes of the type list, and
`set_clipboard_async`, which nothing calls. Of the codec: the messages that carry no text
or only a status, and malformed messages other than limits and truncated escapes. Of the
scoring: lower-casing, the cutting of texts into tokens and segments, and the comparison of
characters.

## Plan

1. `MountTable`, a pure module: which mounts of `mountinfo` become roots.
