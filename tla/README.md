# Verification of mir-ci

mir-ci is a test harness for Mir-based Wayland compositors: it starts compositors and
client programs as process trees, measures them through their control groups, drives them
over Wayland (pointer, screenshots) from pytest and Robot Framework, and triggers snap
builds when something new is to be tested. This directory holds TLA+ models of it, the
TLC configurations that check them, and proofs for TLAPS.

Paths below are relative to `src/mir-ci/mir_ci/` unless they start with `src/`.

## The system

Everything in the harness runs on one asyncio event loop per test process. What makes it
hard are the things that do not: the process tree, the child watcher, systemd, the
kernel's accounting, the compositor. A method of the harness is atomic between two points
where it gives way to the loop; between those points the others act.

| Part | State | Operations | What is hard | What makes it correct |
|---|---|---|---|---|
| **Program** `program/program.py` | the process and its exit code, the `process_end` coroutine, the signals task, `sigkill_sent`, the control group task | `__aenter__`, `wait`, `kill`, `__aexit__`, `send_kill_signals`, `communicate` | death at any moment; the loop learns of it later; descendants that hold stdout; a cancelled wait; a coroutine that can be awaited once | dead and reaped when the block is left; no task outlives its call; errors only where they are deserved; SIGKILL after SIGTERM; calls end |
| **Cgroup** `lib/cgroups.py` | the path of the group | `create`, `get_cgroup_dir`, three reads | systemd moves the process some time after it started, or it is gone before | the search ends, with the program's own group or with an error |
| **Benchmarkable** `interfaces/benchmarkable.py` | | `__aenter__`, `__aexit__` | | what it owned is dead when `__aexit__` has ended |
| **Benchmarker** `lib/benchmarker.py` | `running`, `running_programs`, the poll task, the backend | `__aenter__`, `__aexit__`, `_run` | partial failure of enters and exits, nesting, reuse, cancelling a task that may be anywhere | every program that was entered is exited, in reverse, whichever exits fail; the poll task lives only while all are entered; no failure is silent |
| **CgroupsBackend** `lib/benchmarker.py` | one record per program | `add`, `poll`, `generate_report` | three reads of files that change between them; reads that fail | whole samples; no average above the maximum |
| **DisplayServer** `program/display_server.py` | a Program, the socket, `start_time` | `__aenter__`, `__aexit__`, `wait_for_wayland_display`, `clear_wayland_display` | a synchronous wait that blocks the loop while the server creates its socket or dies; a stale socket | the socket is never missed and never a stale one; no way out leaves the server alive, but for a test cancelled while it waits for the server to end |
| **ScreencopyTracker** `wayland/screencopy_tracker.py` | frame count, flags, damage, one shared buffer | frame callbacks, `copy_frame`, `connected`, `disconnected` | a compositor that copies into the buffer at its own pace; a chain of requests that must not break | flags and damage belong to the frame they are counted with; every change is counted |
| **Screencopy** `tests/robot/platforms/wayland/Screencopy.py` | the last frame compared | `match`, `grab_screenshot`, `connect`, `disconnect` | the buffer is read while it is written; a loop that must let the event loop run | what is compared is not stale; a template on the screen is found |
| **WaylandClient** `wayland/wayland_client.py` | the display and its descriptor in the loop | `connect`, `disconnect`, `_dispatch` | a callback that raises ends the dispatching | every event is handled once, in order |
| **OutputWatcher**, **await_call** `wayland/output_watcher.py`, `lib/__init__.py` | the first mode, an event, recorded calls | `registry_global`, `on_mode`, `on_done`, `wait_done`, `await_call` | events before anyone waits for them; calls from before that look like the answer; a timeout of zero turns | what a test goes on with is so |
| **VirtualPointer**, **WaylandHid**, **Vnc** `wayland/virtual_pointer.py`, `tests/robot/platforms/` | cached output size, scale, remembered position | connect, move, walk, press, release, `set_output_scale` | the size is cached when the output reports one, the scale set at any time; a walk that fails half way; rounding | the size follows the output; a walk starts where the last one ended and goes step by step |
| **pytest plugin** `pytest_plugin.py` | per-session sets of installed packages, the set of fixtures evaluated, `os.environ` | `_deps_install`, `_deps_skip`, fixtures | the order of fixtures; a failure half way through an installation | a test that is skipped has what it needs; a test that runs has its environment, and the next one has it not |
| **process_snaps** `src/bin/process_snaps.py` | the list of errors | one pass over snaps and channels | many early exits over the states of several builds and stores | nothing is rebuilt before all of it is out, the store catches up and the builds end, no failure goes unsaid |

They interact by calls and by shared state. A Benchmarker enters Benchmarkables (Programs
and DisplayServers) and its poll task awaits their control group tasks. A DisplayServer
owns a Program, which it ends with `kill()`, never with its `__aexit__`. Screencopy is a
ScreencopyTracker whose callbacks run whenever a keyword gives way to the loop.

The parts that are left out altogether are named in `PROJECT.json`: records of parameters
(App, the fixtures), the debugging tool, the build hook and the workflows, which keep no
state worth a model, and the protocol files, which appear as the external side of
ScreencopyTracker, Pointer and OutputWatcher.

## The modules

| Module | Models | Builds on |
|---|---|---|
| `Benchmarkable` | abstract: what a user relies on | |
| `Cgroup` | the task that looks for a control group | |
| `Program` | one program, its tree, its tasks and its test | `Cgroup`; implements `Benchmarkable` |
| `ProgramProofs` | theorems about `Program` | `Program` |
| `Benchmarker` | the Benchmarker and its poll task | programs as Benchmarkables |
| `BenchmarkerProofs` | theorems about `Benchmarker` | `Benchmarker` |
| `CgroupsBackend` | records, samples, reports, the kernel | |
| `CgroupsBackendProofs` | theorems about `CgroupsBackend` | `CgroupsBackend` |
| `DisplayServer` | the server, its socket, its wait | instance of `Program`; implements `Benchmarkable` |
| `DisplayServerProofs` | theorems about `DisplayServer` | `DisplayServer`, instance of `ProgramProofs` |
| `ScreencopyTracker` | the tracker and its compositor | |
| `Screencopy` | the keyword library | `ScreencopyTracker` |
| `ScreencopyProofs` | theorems about both | `Screencopy` |
| `ProcessSnaps` | the hourly rounds, Launchpad, the PPA and the store | |
| `ProcessSnapsProofs` | theorems about `ProcessSnaps` | `ProcessSnaps` |
| `Deps` | a pytest session, its fixtures and what they install | |
| `DepsProofs` | theorems about `Deps` | `Deps` |
| `Pointer` | VirtualPointer with WaylandHid, and Vnc | |
| `OutputWatcher` | the watcher, `await_call` and the tests that use them | |
| `OutputTests` | the test with its watcher and the suite with its pointer, on one output | `Pointer`, instance of `OutputWatcher` |
| `OutputTestsProofs` | theorems about `Pointer` and `OutputTests` | `OutputTests` |
| `MC*` | the instances TLC checks | |

### Program

`leader`, `child` and `sig` are the process tree: the program itself, one descendant, and
the strongest signal its group was sent. One descendant is enough: properties ask whether
*somebody* still holds stdout or *somebody* in the group is alive, and the descendant may
exit and be forked again as one of another kind. The three kinds are those the code tells
apart: in the group and holding stdout, in the group with stdout closed, and out of the
group (`setsid`) but holding stdout.

`returncode` is what the event loop knows; it lags behind `leader`, and in between the pid
may have been reaped or not (`MayBeReaped`, `MayBeUnreaped`), which decides how `killpg`
and the reads of `/proc` fare. `process_end` is the coroutine: `unawaited`, `awaited`,
`spent` (awaited once, or cancelled), `None`. `tasks` are all signals tasks ever created,
`ntasks` the one `send_signals_task` holds; their states are the places in
`send_kill_signals`: before its first step (with or without an initial delay), the delay,
the grace between the two signals, the last second, and how it ended.

`Await` is the body of `wait`, used by `Wait`, `Kill` and `ExitKill`; `Resume` is all that
happens when `communicate()` has read the end of the output and the loop knows the exit
code: the task is cancelled, the coroutine ends, the caller goes on. Nothing there gives
way to the loop. `Cancel` is the cancellation of a test that awaits, as by
`asyncio.wait_for`.

Time is not modelled: a sleep may end at any moment after it began, so what holds, holds
for every value of the timeouts. The output is text and left out.

### Benchmarker and CgroupsBackend

A program is a Benchmarkable here: entering may fail, its exit may raise, after its exit
it is dead. `pc` and `next` are the places in `__aenter__` and `__aexit__`; `task` and
`target` the poll task. A poll runs to its end without giving way, unless it meets a
control group task that is still pending: `PollFrom` is that stretch, and the choice of
`stop` is where it ends. An exception leaves the nested blocks one `__aexit__` at a time:
one of `__aexit__` finds the outer ones not running any more and passes them (`LeaveAll`),
one of `__aenter__` leaves `running` true, so that the outer `__aexit__` goes through
`running_programs` once more (`Raise`). The data the poll records is the other module's:
`CgroupsBackend` splits a sample into its three reads with the kernel in between.

### DisplayServer

`InEnter` is `__aenter__`. While `dpc` is in `Blocking` the event loop does not run, so the
child watcher, the signals tasks and the control group task do not, while the server, its
descendants and other users of the directory do. `events` is the inotify queue. `Cancel` is
the cancellation of the test in one of its awaits: in `asyncio.sleep`, where `__aexit__`
gives the server time to settle, or in `kill()`, in `__aexit__` or in the handler of the
failed wait. `abandoned` is history: the test left by a cancellation.

### ScreencopyTracker and Screencopy

`screen` numbers the pictures shown; `buffer` is the picture in the shared memory and
whether it is whole. `stage` is how far the compositor is with the request, `events` what
it has sent and the client has not handled. `sent` is history: each frame with its picture,
flags and the damage so far, which the client's own variables are compared with. Regions
are areas: `total_damage` is all the client keeps of them. In `Screencopy`, `LoopRuns` says
when the loop can dispatch. `WaitForYields` is a fact about asyncio: until Python 3.11
`wait_for` put what it awaits in a task of its own and so gave way to the loop, since 3.12
it awaits it in place.

### ProcessSnaps

`pc` and `channel` are the place in the two loops; each question to Launchpad or the store
is a step, and what it answered stays in `latest_source` and `store_snaps` until the next
channel. `Continue` is every `continue` of the loop and its end, with or without an error
appended. The other half is external: an upload goes from Pending to Published to
Superseded, its builds and then its binaries follow per architecture, and a build that was
requested is dispatched, built from what the PPA offers at that time, and released. The
state `other` of a build is any that is in neither `PENDING_BUILD` nor `FAILED_BUILD`, such
as a cancelled one: the script goes on as if it were done. `standing` is history: which
channels have been wrong without a break since the round began, each for one and the same
reason, and, where the reason is the versions in the store, with the same ones there.

Left out: the two channels of mesa-2404 and of mesa-2604 that share a recipe (the stable
ones have no PPA and no USN check and so never request anything), the text of versions
(uploads of the same `mir_version` differ in packaging only), and what `check_paths`
compares: the lists are equal or not. The notices of an architecture are the set of USNs
that affect what it has in the store. As the script compares them, builds are requested
when these sets are equal and not empty (`Affected`); different ones are an error, and no
builds.

### Deps

`test` and `pc` are where the session is: it chooses a fixture, or is in the middle of
`_deps_install` (`fixture`, `spec`), or tears the fixtures on `stack` down. pytest orders
the fixtures by rules of its own (scopes, marks, parameters, signatures), so any order is
possible. Each command that is run is a step and may fail: `Raise` is what an exception
does to a test. `depfixtures`, `checked_debs` and `checked_snaps` are the plugin's own
records; `dpkg`, `snapd`, `prepared`, `modules` are the host they speak of, and `change` is
snapd at work, which goes on when the session does not wait for it. `Skip` is `_deps_skip`
with the exception that pytest makes of it. The first of the marks an iterator gives is the
closest: `deps` installs it last, `env` applies it last, too (`Applied`).

The tools, `strict` (warnings are errors, as in `pytest.ini`) and what the host has to
begin with are chosen at the start.

### Pointer, OutputWatcher and OutputTests

`Pointer` has one axis, in pixels, and the scale in halves: the other axis does the same
and can only make a walk longer, which is why `steps` may be more than one axis needs. A
keyword is atomic but for the roundtrips of `connect` and the sleeps of a walk; a request
handles what the compositor has sent in the roundtrip after it (`Heard`). `changed` is a
size that was sent and not handled. `Rounded` is what truncation makes of floating-point
interpolation: the exact position, or a pixel less where it is a whole number.
`OffTheEdge` is the opposite error, which only matters at the edge: with a width of 1280
and seven steps, `(1 - t) * 1280 + t * 1280` exceeds 1280 at one of them. The assertion on
the range is made before the truncation (`OnOutput`): a step that is a fraction of a pixel
beyond an output that has shrunk fails. `sent`, `astray`
and `rescaled` are history.

In `OutputWatcher` the variables `bound`, `mode`, `done_event` and `calls` are those of the
watcher and of the mock it is given; `queue` are the scales it has not handled. The test
looks once a second, as often as `int(5 * SLOWDOWN)` says. `OutputTests` puts the two on
the same output: `test_osk` starts its suite when `wait_done` has returned, the other
suites start at once.

Left out: the second output, the mode changing, the geometry (`test_can_update_position`
waits for it as `test_can_update_scale` does for the scale), `Vnc.match`, `type_string`.

## What is checked

| Run | Instance | Shows |
|---|---|---|
| `program` | a descendant of any kind, cancellation, 3 signals tasks, 2 polls | everything about one program, below |
| `benchmarker` | 3 programs, 3 enters, nesting of 2, cancellation, warnings raise | order and completeness of the unwinding |
| `backend` | 2 programs, 2 samples each, memory up to 2 | soundness of the report |
| `display` | a descendant of any kind, 2 other files, cancellation | the wait and the ways out |
| `screencopy` | 3 pictures, damage up to 2, failures, timeouts | tracking and matching |
| `snaps` | a snap from the PPA on 2 architectures, one with paths; 2 uploads, 1 failure or batch of USNs | rounds beside uploads, builds and releases; the store catches up, the builds end |
| `deps` | 3 tests that share a snap and two debs, with and without `--deps`; 3 failures or interrupts | what a skipped test asked for is installed, with four exceptions, what runs has its environment |
| `outputs` | an output 6 pixels wide scaled by 1 or 2, scales 1 and 2, steps of 3 pixels, 3 steps; 2 unhandled scales | where walks go; what a test concludes |
| `program_straggler`, `benchmarker_warnings`, `benchmarker_unwind`, `screencopy_spin` | small | a disagreement each, below |

`program` checks the safety of one program (`TreeGoneOnLeave`, `NoStragglers`,
`DeservedErrors`, `TermBeforeKill`), the inductive invariant of the proofs (`IInv`, which
contains the type invariant), that it implements `Benchmarkable`, and what must happen:
`WaitReturns`, `DeathIsReported`, `CancelledStillDies`. Liveness properties that need an
assumption on the descendants state it as the antecedent, so that one instance checks them
all.

`benchmarker` checks `AllUnwound`, `ExitsInReverse`, `PollOnlyWhileEntered`,
`NothingSilent`, the inductive `BenchmarkerInv`, and that exits end. `backend` checks
`ReportIsSound`, `WholeSamples` and the inductive `BackendInv`. `display` checks
`SeenByOneOfThem` (a comment of the code), `EnteredMeansMade`, `ServerIsGone`, the
refinement of `Benchmarkable`, the inductive `DisplayInv`, and that `__aenter__` and
`__aexit__` end (`CallsEnd`), with a server that dies also when the test was cancelled in
`kill()`.
`screencopy` checks `AccountsEachFrame`, `ScreenshotNotStale`, `EveryChangeTracked`,
`MatchFindsTemplate` and `TrackerInv`: the messages of a frame come and are handled in
turn, and the picture that is counted is whole. `snaps` checks that no rebuild is requested
while an architecture is still to come from the PPA (`RebuildsWhatIsOut`), that a round
that ends well leaves no failure unsaid that was there all along (`ErrorsTurnRed`, and the
inductive `RoundInv` behind it), that the
store gets the last version on all architectures, that USNs that are the same for all of
them are answered by builds, and that builds are not requested for ever (`StoreSettles`).

`deps` checks that what a test asked for is installed when a dependency-only run skips it,
whichever commands failed for whichever tests before it (`SkipMeansReady`), the
inductive `DepsInv` behind it (the caches are never ahead of the host, and a place in the
installation means that what lies before it is done), that the environment is the host's
between two tests and the marks' within one (`EnvironmentKept`), and that the session ends
(`SessionEnds`). `SkipMeansReady` names four exceptions, each something the code does:
`dpkg --status` takes a deb that was removed and left its configuration for installed
(`RemovedDebs`), so that it is not installed although `deps` "Ensures the dependencies are
available"; debs are skipped where the tools are missing; any channel of a snap will do; and
an interrupted `deps` skips its test all the same. `outputs` checks `TestsInv` (the cached size follows the output, the
remembered position is the one sent last, a walk keeps to its line, and what the watcher
has been told of the output), `WalkIsGradual` (no
step of a walk is longer than it was asked to be, but for the first where the remembered
position is not the one sent: after a walk that failed on its way or going to 0 before it,
and after a proportional move during which the size changed), and `WatcherKnows` (what a test goes on
with is so, and a suite started after `wait_done` hears of the output's size).

**Bounds.** Three signals tasks are one more than it takes for a straggler of a cancelled
wait to meet the task of a later call. Two polls of the control group distinguish the
first, the last and one beyond. Three programs have a first, a middle and a last; three
enters are a first use, a nested one and one after failure, at a depth of two. Two samples
are the fewest that can mix; memory of 2 distinguishes in use, peak, and none. Two other
files let the inotify queue hold something before and after the display. Three pictures let
one be on the screen, one in the buffer and one counted. Two uploads are one that is
out and one on its way; one failure is a build, a round or a batch of USNs at any point, and
leaves one architecture behind the other; two USNs are enough for the same and for different
ones on two architectures; two channels are a last one and one before it. Three tests are one that fails, one that
shares with it what it left behind, and one more whose server is the first to ask; three
failures reach from a change that fails through a later test to an interrupt. A width of 6
has a middle in both scales; three steps have a first, a middle and a last one. The type
invariants bound the rest: no variable but those has a bound of its own.

**Deadlock** is not checked where the system really stops: when the block is left, the
report is made, the connection closed or the session over. The rounds of `ProcessSnaps`
never do, and their run checks it. That calls *end* is checked as liveness.

**Fairness.** The event loop runs what is ready and timers fire, so every step of a task
and every resumption is weakly fair. A member of a group that was sent SIGKILL dies. The
child watcher tells the loop of an exit. A compositor reports what it was asked for, unless
it fails the frame. In `Screencopy` the dispatching is strongly fair: each turn of the loop
calls `_dispatch`, so a `match` that gives way again and again lets it run, and one that
never gives way does not. In `ProcessSnaps` the
workflow comes round, and Launchpad and the store do what was requested of them. In `Deps`
commands return, and snapd comes to the end of a change. Not
assumed: that a program exits by itself, heeds SIGTERM,
creates its socket or is ever moved to its scope, that a test leaves its block, that the
screen changes, that anybody uploads or retries a failed build.

**Every property can fail.** Next to the definitions stand variants of them (a dropped
guard, a missing reset, a swapped order), and `PROJECT.json` pairs each property with the
variant under which TLC finds it violated.

## What the code does not do as it says

- `program_straggler`: `send_kill_signals` is documented as "cancelled when process ends".
  A cancelled wait takes `communicate()` with it, and with that the only thing that cancels
  the task.
- `benchmarker_warnings`: a failed read is to be ignored with a warning; `pytest.ini` makes
  warnings errors, and the first one ends the polling.
- `benchmarker_unwind`: a test is named for the unwinding of a failed enter; the handler
  stops at the first program whose exit raises.
- `screencopy_spin`: `match` compares "until there's a match"; where `wait_for` does not
  give way to the loop it compares one frame for ever. The repository's README names Python
  3.12, its workflow runs 3.14.

Other behaviours the models show and no property forbids: `__aexit__` of a program that
has died hangs while a descendant holds its output (see `DeathIsReported`); a member of the
process group that has closed stdout and ignores SIGTERM survives the block; a test that is
cancelled while `DisplayServer.__aexit__` sleeps leaves a server that nobody has signalled,
and whose process nobody will (see `ServerIsGone`); after a frame
that fails nothing is counted any more (see `EveryChangeTracked`); the image of a
screenshot may be a later frame than the one it is numbered with, or half of it (see
`ScreenshotNotStale`); a Benchmarker whose enter failed stays `running`, and its next use
enters nothing (see `AlreadyIn`); USNs that differ between the architectures of a snap are
an error in every round, and it is not rebuilt however many of them are affected (see
`StoreSettles`); a channel with no snap in the store ends the round
at the lookup of its notices, and the channels after it are never reached (see
`StoreSettles`); a build that was cancelled counts as done, and the snap is rebuilt without
it on that architecture (see `RebuildsWhatIsOut`); a source that cannot be found or parsed
is logged as an error but leaves the exit status 0; a build is requested twice when the
next round comes before the first is dispatched or released.

Of the pytest plugin: a change of snapd that is undone, as by `snap abort`, is never seen
by the loop of `_snap_install` (see `SessionEnds`); an interrupt in `deps` is replaced by
the skip of its `finally`, and the session goes on with a test that counts as ready (see
`SkipMeansReady`); a snap that is there, or was installed by an earlier test, is taken for
installed whatever its channel; `dpkg --status` knows a package that was removed and left
its configuration, and the test that needs it is skipped as ready (`KnownDebs`,
`RemovedDebs`); where dpkg or apt-get is missing the warning that was
meant to cover that case is an error under `pytest.ini`, and the test fails.

Of the pointer and the watcher: an output that comes while the client connects gets a
pointer whose output has the width 0 for ever, so that every move fails (see
`WatcherKnows`); a scale set after the connection applies to the next size only (see
`SizeFollows`); a walk along or over the right or bottom edge may fail by rounding; a walk that
fails leaves the position it started from, and the next one begins with a jump back there
(see `Remembered` and `WalkIsGradual`); the first walk of each test starts with a jump to
0, the library being a new one; after a proportional move during which the size changed,
the position that is remembered is not the one that was sent, and the next walk begins with
a jump as well; the watcher keeps the first
mode only; with a timeout of zero `await_call` returns without a call, and a call with the
same scale from before the configuration was written is taken for its effect (see
`PassMeansScaled`).

## What is proved

For every value of the constants, from the assumptions named in the modules (the bounds
are positive numbers, the kinds of descendant are among the three, flags are Booleans):

| Theorem | Says |
|---|---|
| `ProgramProofs!InvariantHolds`, `TypeCorrect` | `IInv`, and in it the types |
| `ProgramProofs!TreeIsGone` | dead, reaped, output closed when the block is left, unless an await was cancelled |
| `ProgramProofs!NoTaskLeftBehind` | no signals task outlives its call, no control group task the block |
| `ProgramProofs!ErrorsAreDeserved` | who is told what |
| `ProgramProofs!KillFollowsTerm` | SIGKILL follows SIGTERM, with any number of stragglers |
| `ProgramProofs!ProgramIsBenchmarkable` | every step is a step of `Benchmarkable` or leaves it unchanged |
| `BenchmarkerProofs!BenchmarkerInvHolds` | the inductive invariant |
| `BenchmarkerProofs!EveryProgramIsExited` | `AllUnwound` |
| `BenchmarkerProofs!PollsOnlyEnteredPrograms` | `PollOnlyWhileEntered` |
| `BenchmarkerProofs!ProgramsExitInReverse` | `ExitsInReverse`, over any number of uses |
| `BenchmarkerProofs!NoTroubleIsSilent` | `NothingSilent` |
| `CgroupsBackendProofs!BackendInvHolds` | the inductive invariant |
| `CgroupsBackendProofs!ReportsAreSound` | no average above the maximum, no maximum never reached |
| `CgroupsBackendProofs!SamplesAreWhole` | `WholeSamples`: no half of a sample is recorded |
| `DisplayServerProofs!DisplayInvHolds` | the inductive invariant |
| `DisplayServerProofs!DisplayIsSeen` | `SeenByOneOfThem`: the comment of the code |
| `DisplayServerProofs!EnteredByItsOwn` | `EnteredMeansMade`: no stale socket is taken for a new one |
| `DisplayServerProofs!LeftServerIsGone` | `ServerIsGone`: no server survives a failed enter or an exit, unless the test was cancelled in an await |
| `DisplayServerProofs!DisplayServerIsBenchmarkable` | every step is a step of `Benchmarkable` or leaves it unchanged |
| `ScreencopyProofs!TrackerInvHolds` | the inductive invariant of the tracker |
| `ScreencopyProofs!FramesAreAccounted` | `AccountsEachFrame` |
| `ScreencopyProofs!DrivesTracker` | `Screencopy` implements `ScreencopyTracker` |
| `ScreencopyProofs!ScreenshotsAreNotStale` | `ScreenshotNotStale` |
| `ProcessSnapsProofs!SnapsInvHolds` | the inductive invariant of what was found out about the PPA |
| `ProcessSnapsProofs!RebuildsComplete` | `RebuildsWhatIsOut` |
| `ProcessSnapsProofs!RoundInvHolds` | the inductive invariant of a round, with the types |
| `ProcessSnapsProofs!ErrorsAreReported` | `ErrorsTurnRed` |
| `DepsProofs!DepsInvHolds` | the inductive invariant |
| `DepsProofs!SkippedMeansReady` | `SkipMeansReady`, with its four exceptions |
| `DepsProofs!EnvironmentIsKept` | `EnvironmentKept` |
| `DepsProofs!RunsOrInstalls` | `BodyOrInstall`: `--deps` runs no test, nothing else skips one |
| `OutputTestsProofs!TestsDriveThePointer` | `OutputTests` implements `Pointer` |
| `OutputTestsProofs!PointerInvHolds`, `TestsInvHolds` | the inductive invariants of the pointer, and of the tests with it |
| `OutputTestsProofs!WalksAreGradual` | `WalkIsGradual`, with its exception for the first step, for walks of any length |
| `OutputTestsProofs!WatcherTellsTheTruth` | `WatcherKnows` |

*Program.* That the tree is gone when the block is left is not inductive: one has to know
why nobody is left to wait for. `IInv` says it with the coroutine: as long as nothing was
cancelled, `process_end` is `None` only before the start or when the tree is gone, spent
only when the block is left, and a task is pending only while a call is suspended, and then
it is the last one (`Ownership`). `Innocence` carries that a program nobody waited for was
sent nothing, for the AssertionError; `Escalation` that a task past its first signal has
sent it or met an empty group, for `TermBeforeKill`, also after cancellations. The
refinement maps the place of the test to the life of the Benchmarkable and the tree to
what is alive.

*Benchmarker.* `AllUnwound` needs to know that whoever is entered is still to be exited:
`StillToExit(next)` says that every entered program is in the part of `running_programs`
the loop has not reached, and `PollOwned` that the poll task lives only between the last
enter and the end of its own cancellation. The reverse order is a matter of the list, not
of the loop: `running_programs` is never emptied, so behind the programs of this use stand
those of an earlier one. `InReverse` says of each place that is still to come that whoever
was entered later than the program there, while both are alive, stands at a place before it.
For `NothingSilent`, `TroubleKept` says where trouble is until it is raised: in the crashed
task, in `taskError`, or in `exs`.

*CgroupsBackend.* An average is below the maximum because the sum is below the number of
samples times the maximum (`Bounded`); that survives a sample because `memory.peak` is read
after `memory.current` and the kernel's peak never falls (`Current`). `WholeSamples` is a
property of steps: only the last read of a sample writes to a record.

*DisplayServer.* The server is an instance of `Program` whose test is the server's own
methods. The invariant of `Program` is proved already, once every step of the server is
known to be a step of its program or none: the lemmas of `ProgramProofs` are instantiated
with the server's variables (`Facts`) and cited. `Places` says where the program is at each
place of `__aenter__` and `__aexit__`; with it `ServerIsGone` follows from the program's
invariant, although `Program`'s `__aexit__` is never called. `Directory` carries the socket:
once the old one is cleared, whatever appears under the name was made by this server, and
it is announced in the queue or was there before the check.

*ScreencopyTracker and Screencopy.* The client adds up the damage of a frame over several
messages, none of which says to which frame it belongs. `InTurn` and `Numbered` say that the
two sides keep in turn: the queue holds messages of one frame, which ends with its `ready`.
`DamageArrives` says that what was gathered and what is on its way add up to what the frame
was damaged by; it states the sum over the queue by its partial sums (`total`), and so
without a recursive definition. `LastSent` holds what the frame will be counted with. The
keyword library only ever takes steps of a tracker (`DrivesTracker`), so that all of this
holds for it too; for `ScreenshotNotStale` it takes that the buffer is never overwritten
with anything older (`NeverOlder`).

*ProcessSnaps.* The answers about the PPA are old when the builds are requested. `SnapsInv`
says what is still so of them at each place: once no build was pending or failed none will
be again, and an architecture that has the upload keeps it or gets a later one
(`OutStays`), because a binary is superseded only by a newer one.

For `ErrorsTurnRed` one has to say what it means that something was wrong all the time. A
channel that is wrong for one reason while the script asks for another, and the other way
round a moment later, is never seen to be wrong; neither are versions that change between
the questions for two architectures. So `standing` keeps the reasons apart and drops the
versions when they change. `Counted` then follows each entry through the loop: of the
channels behind the script it is counted, and at the channel under way the answers so far
lead to the place where it will be.

*Deps.* That a skipped test is ready (`Ready`: installed, with the exceptions above) says nothing of the way there. `Progress` follows the
installation: the specs behind it are ready, and at each place of `_deps_install` so is the
part of this one that lies behind. A place can be reached through a cache instead of a
command, so `CachesHold` must say that the caches are never ahead of the host; and what is
ready stays so because the host only ever gets more (`HostGrows`). `Evaluated` sums this up
by fixture, so that the skip, which needs all of them, has all the specs (`AllSpecs`: the
order, closest mark last, leaves none out). It also says that, with `--deps`, the last of
these fixtures is never set up, which is why no body runs.

The environment is kept by the stack: each entry knows what it changed and what it found.
`Restores` says that what lies between two entries is undone by the upper one, down to the
host's environment; `MarksApply` that what is set up after `env` leaves the variables of
the marks alone.

*Pointer and OutputTests.* The walk needs arithmetic: the positions of two steps are
quotients, by the number of steps, of two numbers that differ by the whole distance, so they
are apart by no more than the step distance that this number of steps was computed from
(`DivGrows`, `StepsAreEnough`, `StepIsShort`), and what is sent for them by a pixel more
(`SentIsNear`). `OnItsWay` ties `sent` to the last of these positions, also while the walk
sleeps; at its end that is `arg` (`WalkEnds`), so what is remembered then is what was sent
(`Remembered`). `Connection` says which keywords have a pointer; with it `SizeFollows` is
inductive. Of the watcher, `WatcherInv` says that it has been told only of an output that is
there, that what is queued and what was called are factors the output has had, and that a
suite that waits for it has not connected before.

## What is only model-checked

Every safety invariant and every action property that a passing run checks is a theorem.
Left to TLC is all liveness (`WaitReturns`, `DeathIsReported`, `CancelledStillDies`,
`ExitEnds`, `CallsEnd`, `EveryChangeTracked`, `MatchFindsTemplate`, `StoreSettles`,
`SessionEnds`): it rests on fairness and ENABLED, which TLAPS does not treat. For these the
bounds of the runs matter, for the theorems they do not.

## Plan

Every part of the code that keeps state has a module, and every safety property a proof.
Worth proving next, in this order:

1. the safety behind the liveness: that a caller that waits has a pending signals task or a
   group that is gone, that each step of `__aexit__` comes nearer to the end of its list,
   that a tracker that is connected has a request outstanding unless a frame has failed;
2. that a Benchmarker that is used once calls what it is given as a Benchmarkable expects,
   so that the promise of `Program` and `DisplayServer` is what `Benchmarker` relies on;
3. that the watcher handles the scales in the order in which the output had them.

## Not modelled

OSKMap and the resources are tables and straight lines of keywords; App and the fixtures of
servers and applications build records when the tests are collected; the tests and client
applications are the callers, and say which calls the models allow. The debugging tool
imports `mir_ci.virtual_pointer`, which is `mir_ci.wayland.virtual_pointer` by now, and so
ends at its import. The build hook and the workflows are configuration, the protocol files
what the bindings are generated from. Of the parts that are modelled: the wording and
layout of outputs and reports, the encoding of images, the template matching itself, and an
exception out of `_dispatch`, as when the compositor dies: it ends the dispatching, and
whoever waits then waits for a timeout.
