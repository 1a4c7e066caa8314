# TLA+ models of eco

eco is the control software of the SwissFEL beamlines Bernina and Alvra: device
objects in a lazily built namespace, scans that move adjustables and acquire
data step by step, queues that run commands one after another on worker
threads, and servers and panels around them. This directory models the parts
whose correctness rests on the order in which threads, operators and failures
meet, checks them with TLC and proves the central safety properties with TLAPS.

    tlc -config TaskQueueEdit.cfg MCTaskQueue       # and the other .cfg files
    tlapm TaskQueueProofs.tla                       # and the other *Proofs modules

`PROJECT.json` maps every definition to the source lines it stands for, and
lists runs, mutants, findings, hazards and theorems.

## The system

| component | state | operations | who calls it |
|---|---|---|---|
| Task queue (`eco/utilities/task_queue.py`) | `_pending`, `current`, `history`, `_paused`, `_closing`, `_worker`; each task's `state` and `_done` | append, insert, repeat_last, remove, move, clear, pause, resume, stop_running_task, stop, wait, close, pause/resume_running_task; the worker loop `_run`/`_execute` | the prompt (`%queue`), the web client's thread pool, GUI panels, tasks of other queues |
| Claims (same file; `devices_general/utilities.py`, `utilities/utilities.py`) | `_claims`, the thread's inherited context | register_scan, check_claim, forced, release, _release_task | every write to an adjustable |
| Step scan (`acquisition/scan.py`, `scan_tasks.py`) | `_values_todo`, `_values_done`, `pulses_per_step`, `scan_info`, `next_step`, the pause event, `_stop_requested` | scan_all, do_next_step, pause, resume, request_stop, snapshot_remaining, resume_scan_call | prompt, a queue task, the scan launcher |
| Adaptive driver (`acquisition/adaptive.py`) | `_done`, the strategy | end-step callback that adds steps | the scan |
| Counters, checker (`acquisition/counters.py`, `checkers.py`, `daq_client.py`) | windows of the steps, verdict of the checker | start/stop/acquire, scan callbacks | the scan |
| Lazy namespace (`utilities/config.py`, `status_server/parallel_init.py`) | lazy, initialised and failed items, `_initializing` | attribute access, init_name, init_all | every thread |
| Main-thread heartbeat, questions (`utilities/mainthread.py`, `user_input.py`) | `_calls`, `_in_tick`, `_hold`, `_cells`, the Qt driver; pending questions, `_dispatch_lock` | call_soon, on_main, hold, the watchdog, signal and wake handlers, `_tick`; ask, answer | worker threads that need Qt or the user |
| Robot server (`bernina_robot_server/`, `robots/`) | server state, foreground command, cancellation token, poller; subscribers' queues | submit, `_run`, abort, stop, restart, the recovery loop; publish, subscribe, the event streams | HTTP clients, eco's robot client |
| Status server, monitor store (`status_server/namespace_store.py`) | state and generation of the store, its objects, the recordings and their buffers | start/stop/drop recordings, start_reinit, the build worker; monitor callbacks, sampler, backfill | scans, the DAQ client, HTTP clients |
| DAQ client (`acquisition/daq_client.py`, `status_server/storage.py`, `namespace_server.py`) | `_debounce_timers`; files of the run (`scan_info_rel.json`, `status.json`), jobs of the status server, the row of the run | callbacks at start, step and end of a scan (status, row, copy_scan_info_to_raw), timers, capture jobs | the scan; timer and job threads |
| Run table, channel access tuning, drivers, elements, web, widgets, logs | – | – | – |

How they interact: a caller appends a command to a queue; its worker runs it; a
scan in it registers itself with the task (`register_scan`), claims its
adjustables and then runs its steps, which move adjustables (each write passes
the claims' gate), let the counters acquire, and call back into the DAQ client
and the adaptive driver. Operators pause and stop the scan directly or through
the queue, whose `stop_running_task` sets the scan's stop flag or sends a
`KeyboardInterrupt` into the worker thread.

What is hard: the worker shares its lists with callers of several threads, some
reads happen outside the lock, an asynchronous exception can strike anywhere in
the worker loop, failures must stop what follows, moves outlive tasks and start
moves of their own, and a scan keeps several lists (values, pulses, records,
index plan, windows) that must stay in step over repeated steps, failures,
pauses and a resume from a file. `PROJECT.json` lists the hazards line by line.

What makes each part correct:

* *queue*: one task at a time, each task in one place and along its life
  cycle, nothing run on top of a failure nobody saw, every pending task served,
  `wait()` returns;
* *claims*: a running task's moves stay covered, nobody moves the same
  adjustable beside it, only `release()` takes a claim away;
* *scan*: no value lost, doubled or measured with another's pulses, records
  agree with what was measured, counters stopped after every step, the budget
  kept, a stop ends the scan;
* *namespace*: one object per name, a waiter gets that object or its failure;
* *heartbeat and questions*: every routed call runs once, every question gets
  exactly one answer, nobody waits for ever;
* *robot server*: one foreground command, an abort of a begun command stays in
  force, Busy can be trusted, Fault ends; a client that asked for the state alone has
  the server's state as its newest frame, however slowly it reads, and one that takes
  every event misses it only when other frames filled its queue;
* *DAQ client*: the last upload counts, a status block that was written stays unless a
  named fault hits its file, every run whose start does not fail gets its row;
* *status server*: a recording hands out every point once, in order and with its
  own timestamp; a ready store serves the objects that exist; every build ends.

## Modules

**TaskQueue** (`MCTaskQueue`, `TaskQueueProofs`). Each block the code runs under
`TaskQueue._lock` is one action; a read outside the lock is a step of its own:
`append` fixes its index (`AppendTask`) before the test run and inserts later
(`DoInsert`), `stop_running_task` reads `current` (`StopRead`), pauses, tells
the scans and sends the interrupt in four steps. The worker goes `wait` –
`start` – `body` (with the scans of the task in `check`/`step`) – `except` –
`finally` – `finish`, which are `_run` and `_execute` cut where another thread
can come in. `Interrupt*` are the places where the `KeyboardInterrupt` may
arrive: in the `try` it becomes the task's error, in a scan the bare `except` of
`scan_all` swallows it, elsewhere it ends the thread. Several worker
identities exist because `_ensure_worker` may start a new thread.

**Claims** (`MCClaims`, `SessionProofs`). Tasks of all queues, adjustables, and
the threads of moves (`PropagatingThread`) with the context they inherited.
`Write` is the gate `check_claim` followed by the start of a Changer; it is
reached from the prompt, from a task, or from a thread that is moving something
itself. A move is `bypassed` (a history variable) when it was let through by
`forced()` or its claim was freed by `release()`.

**StepScan** (`MCStepScan`, `StepScanProofs`). The scan's thread is cut at every
place where operators or callbacks can come in: checkpoint, start-step
callbacks, move, start of each follower, acquisition, stop of each follower,
record, end-step callbacks, and the two pops of values and pulses. A value is a
number that is also its place on the grid and stands for its pulses, so that a
value with foreign pulses or a wrong grid index shows. `Failures` says which
part may raise; the bare `except` sends the thread to the end of the scan.
`SaveValues`/`SavePulses` are the two copies of `snapshot_remaining`;
`ResumeFromFile` is the scan that `resume_scan_call` builds.

**LazyNamespace** (`MCLazyNamespace`, `LazyNamespaceProofs`). A use of a name runs
`Proxy.__wrapped__` and `init_local` on the thread that uses it; a constructor
that uses another name does the same one call deeper, so every thread has a
stack of frames, each at one of the places where shared state is read or
written: the tests of `failed_items` and `_initializing`, the append, the start
time, the constructor, the pop from one dictionary and the put into another, the
reason, and `index()` and `pop()` of `_initializing`, which are two steps. A
frame that times out, gives a name up or moves it back (`how`) goes through the
same last steps. Nothing holds a lock, as in the code. A thread between pop and
put has the item in its hand (`Hand`).

**Recording** (`MCRecording`, `StreamProofs`). One channel of several `RecordingSession`s. An
`_append` is two appends, of the value and of the timestamp, because callbacks
share no lock with anybody. The threads that append are the channel-access
thread (one, it delivers an update to the callbacks in turn), the sampler of
each session, the thread that starts a session (the seed) and a request that
backfills. `start()` copies from the first sibling with data (`StartCopy`,
`CopyStamps`), reads value and timestamp of the PV one after the other
(`SeedGet`, `SeedStamp`) and adds the callback; `stop()` is the sampler, the
monitors, and the swap of the lists. An observation is a number that stands for
its value in one list and its timestamp in the other. The PV of a session in `Flaky`
may disconnect while it is seeded; the value and the timestamp are then `Unread`, the
`None` that the code appends as a value, and for which `_append` puts the time of day
among the timestamps (`StampOf`).

**EventBus**, **LossyQueue** (`MCEventBus`, `StreamProofs`). `set_state` compares
and assigns under its lock and publishes without it; `publish` notes the value
and the subscribers under the bus's lock and puts without it; a `put` is up to
three steps. The robot's own events (`RobotEvent`: polling, motion, ...) go through the
same queues and displace what is there; they are one frame, `Other`. A subscriber in
`Filtered` asked for the event `state` alone (`Wants`), any other takes all of them. A
replay is the state and then the other event. LossyQueue is the abstract specification
of a subscriber: bounded, ordered, the oldest or the offered frame given up and
counted, the last of the `Kept` frames (the states) remembered by the reader.
`Channel(s)` maps a subscriber's part of EventBus to it (`queue[s]`, the counter, the
last state read, whether the stream has ended); every other step of the bus is a
stutter.

**RobotServer** (`MCRobotServer`, `RobotServerProofs`). Requests, the threads of
commands (`_run`), the poller and the recovery loop share the server's state,
the executor's front place with `_foreground_lock`, and the cancellation token,
on which every call over the link raises (`CallWorks`, `CallRaises`).
`_set_foreground` tells the state under the lock, which is a step of its own. The
controller drops out and comes back (external).

**StatusStore** (`MCStatusStore`, `StatusStoreProofs`). The worker thread of the namespace store
(`_build_worker`, `_reinit_worker`) against clients that start, stop and drop
recordings. `objects` counts teardowns; what the store looked up last (`built`)
and what a recording is attached to (`attached`) are such numbers. Each stage of
a build may raise. The inside of a recording is the matter of Recording.

**MainThread** (`MCMainThread`, `SessionProofs`). Workers take `_dispatch_lock`,
append to `_calls` and emit a wake event; the main thread is in user code, in
Qt's loop, in a handler of Qt or in a tick (`begin`, `pump`, `run`); the
watchdog tests and signals, and the handler of the signal tests again. `qt` says
how much of Qt there is: none, an application, one that was noticed, a driver.
`Dispatch` is the choice of channel in `_dispatch`/`_ask_here`: above the prompt,
right in the tick, or pending for `answer()`. A wake event in the loop of a
dialog is dropped (`WakeInTick`). The user answers, cancels or times out.

**AuxUpload** (`DaqRunProofs`). The scan's thread writes `scan_info_rel.json` in
place (two steps, a copy between them is torn) and schedules; a timer is `waiting`,
then `fired` (its thread waits for the lock), then `posting`. The content of the file
is the number of the call that wrote it. A call may raise (`Raises`): it leaves half a
file (`torn`) or a whole one that nobody uploads (`unsent`), and the next call, that of
the end of the scan, writes over either.

**RunStatus** (`DaqRunProofs`). The callbacks of one scan (`stage`), the jobs of its two blocks
(`snapshot`, `open`, `write`, `upload`; the read of the file is the step out of
`snapshot`), the thread that waits to fill the row, and restarts of the server.
`status.json` is a record of blocks, or `Torn` while somebody has it open; of two
writers whose times overlap either wins or the file is a mixture (`Closes`); a dump that
raises, in the session (`LocalWriteFails`) or in a job (`JobFails`), leaves it `Torn` for
good (`Breaks`). `ReadFile` may find nothing in a whole file: an `OSError`, or a host that
does not see the file yet. The session waits for its own `append_aux` (`SessionUpload`).
Whatever it calls may raise, also callbacks that are not modelled
(`CallbackRaises`), and ends the chain of callbacks: `failed` at the start, `aborted` at
the end. An `append_run` that raises is reported only, and the row is `lost`.

**DaqRun** (`MCDaqRun`, `DaqRunProofs`) composes the two, which share the scan's thread:
status and row at the start, scan_info after each step, status and the last scan_info at
the end (`Daq.__init__` lists the callbacks in this order). A callback of a step that
raises ends the steps, and the callbacks of the end follow. Timers, the thread of the row
and the server go on beside it. It is what TLC runs for both; that a run of it is a run of
each is a theorem.

Two modules of proofs are about two components each. The operators of Claims and
Recording carry their component's name (`ClaimsNext`, `RecordingSpec`), so that
`SessionProofs` and `StreamProofs` can extend both.

History variables (`acked`; `maintained`; `bypassed`; `planned`, `earlier`,
`exact`, `failed`, `woken`; `due`, `copied`, `torn`; `raced`, `missed`; `overtook`,
`botched`; `overtaken`, `late`, `taker`, `blank`; `noticed`; `refused`; `crossed`,
`wrote`, `spoiled`, `lostPush`) record what happened for the properties. Guards do not
read them, but for the bounds named in comments and the book-keeping of other history
variables.

## Runs

| run | bounds | shows |
|---|---|---|
| TaskQueueEdit | 2 callers, 2 worker identities, 2 tasks, all methods but those that interrupt | every task in one place and booked (`Bookkeeping`), nothing on top of a failure, every pending task served, `wait()` returns |
| TaskQueueStop | the same with interrupts, 1 scan per task | one task at a time, and each along its life cycle, under interrupts anywhere |
| Claims | 2 tasks, 2 adjustables, 3 moving threads | moves are covered by claims and exclusive, claims are kept |
| StepScan | 2 values, up to 3 with a batch of 1, 2 followers, 1 bad step, 2 calls of scan_all, one kind of failure of seven | nothing lost, right pulses, records and windows that match, followers stopped, budget, stops |
| LazyNamespace | 2 names that use each other, 2 threads, builds inside builds up to depth 2, all faults of one name, 1 maintenance call | items conserved, books agree, every use ends |
| Recording | 2 overlapping sessions of different capacity, all modes, 2 updates, 1 backfill, one session whose PV may disconnect at its start | no `None` among the timestamps; what `stop()` hands out is faithful and in order |
| EventBus | 2 publishers, 2 subscribers, one of them for the state only, 2 states and another event, queues of 2 | the newest state of a client is the server's, unless other frames pushed it out of the queue of one that takes them; each queue implements LossyQueue |
| RobotServer | 2 requests, 2 commands, 1 trouble (dropout or restart), all operations | aborts stay, one command in front, Busy can be trusted, Fault ends |
| StatusStore | 2 clients, 2 recordings, 2 rebuilds that may fail at each stage | a ready store is current, stops give data, builds end |
| MainThread | 2 askers, 1 other caller, at most 3 wakes beyond 1, any channel | no re-entry into Qt's handlers, every question resolved |
| DaqRun | 1 run with at most one step, both blocks, all faults (refused, lost, failed, calls that raise, reads that fail), 1 restart | blocks are kept but for the named faults, pushes get to the row, in the end the run has its row and its last scan_info, or a call raised |
| DaqRunShortScan | the same without faults | **violated**: the end job writes over the start block of a short scan |

Why the bounds suffice: two callers and two tasks are enough for every pair of
calls to interleave with each other and with the worker's pop, failure and end;
a second worker identity allows a thread to be started while another dies. Two
tasks and two adjustables give a conflict and a bystander, three moving threads
a move, the move it starts and a rival. Two values let one step be done while
another waits, the third comes from the adaptive driver at the last moment, and
two followers let one of them fail while the other is up. Two names that use
each other give the shared dependency, the circle of waiting threads and the
removal of another name's entry; at the depth bound the constructor fails as at
Python's recursion limit. Faults of one name fail the other through it. Two recordings let
one copy from the other while it is written, two updates give a repeated and a skipped
one, and the smaller capacity is reached. A queue of two frames holds a state behind or
before another frame, overflows at the third, and two publishers fill it again between the
two attempts of a put; publishers and states are symmetric, and the properties of the run
are safety properties. Two requests and two commands let an abort, a restart or a second
submission meet a command at each of its steps; one trouble takes the controller away at
any of them. Two rebuilds let a recording start and stop between them and a client ask for
the second while it still acts on the first. Two askers contend for the lock while a third
call goes round it. A step and the end are two writes of scan_info, so that a timer can
fire late under the next; a longer burst is covered by the proof. One restart hits either
job at each of its steps. The violated run needs no fault at all; it is described in
`PROJECT.json` under "findings". The type invariants of TaskQueue, LazyNamespace,
EventBus, RobotServer, StatusStore and AuxUpload are proved and not run.

`CHECK_DEADLOCK FALSE` stands where the system really stops: callers that have
used up their tasks and wait, a scan that is over, commands, updates or rebuilds that
are used up, a user who asks for nothing more.

### Fairness

TaskQueue: threads that are in the middle of a method, the worker, and an
interrupt that was sent are weakly fair: they are running threads that wait for
nothing but the lock, and commands of tasks are taken to end. Starting a call
is never forced. `PendingIsServed` holds unless the queue is paused or closed;
`WaitEnds` excludes a queue that is paused and resumed for ever, because `wait()`
polls and may look at the wrong moments each time.
LazyNamespace: a thread that is in a call is weakly fair; constructors end and
the time-out of a waiting thread passes.
StepScan: the scan's thread is weakly fair. What it waits for (moves,
acquisitions, the checker) is taken to end: the code has timeouts for the
moves. Operators are not fair: a paused scan may stay paused, hence the form of
`StopEnds`.
RobotServer: a request, a command and the recovery loop that are in the middle of
something go on, commands end and the poller polls (weak fairness: none of these
threads waits but for a lock that its holder gives up). Nothing forces the
controller to come back: `FaultEnds` supposes that it stays reachable, that no
abort is left in the token and that the last restart did not fail.
StatusStore: a client that is in a call goes on (attaching and stopping monitors
have time-outs). The worker is strongly fair, because it needs `_recordings_lock`,
which clients take again and again; a lock of Python is not given to one thread
for ever.
MainThread: threads, ticks and handlers of Qt go on, the watchdog looks again and
again. `Signal`, the signal's tick, `Wake` and `TakeLock` are strongly fair: the
watchdog repeats its signal and Qt keeps the event in its queue until it is
delivered, and cells or handlers that come and go only postpone them. Users
answer what they are shown; that a cell begins or ends is never forced, hence
`QuestionsEnd` speaks of Qt that is serviced, or of no Qt at all.
DaqRun: the scan's callbacks go on, if only by raising, and scans end, timers expire,
requests are answered, if only by a failure, and the thread of the row gives up after its
time-out. Nothing is asked of the jobs or the server. Recording and EventBus state no
liveness and no fairness.

## Proofs

Every invariant and every action property that a passing run checks is also a theorem,
for every value of the constants, from the assumptions named in the modules. Those are
as weak as they look: constants that are sets or numbers, names that are not members
of the sets they stand beside, no set that is infinite where a bound counts it (the
workers of MainThread), and for DaqRun that a torn file is none that holds blocks.
Where a theorem has a hypothesis of its own it says so.

* `TaskQueueProofs`: `TypeCorrect`, `NeverTwoTasks`, `FailurePauses`,
  `EveryTaskInOnePlace`, `TasksLiveOnce`, `BooksAreKept`.
  `OneTaskAtATime` is not inductive: what keeps a second thread from running is
  that the only thread that may be alive is the one in `_worker` (`OneWorker`),
  because `_ensure_worker` looks at it under the lock. `IInv` adds that callers
  in the middle of a method and busy workers know their task (`LocalsSet`), which
  type correctness of `argTask` and `wtask` at their uses needs.
  `FailurePauses` assumes that nobody sends interrupts and `OnError = "pause"`:
  its invariant says that a failed task that nobody acknowledged has either
  paused the queue or is still in the hands of the only worker.
  `OnePlace` follows a task from the list to a hand to the history; it needs the
  tasks `insert()` is still making (`Making`), which are in none of these, and that
  no two callers drop one task (`Places`). The place of a task tells its state
  (`States`), and a task changes its state only where it changes its place or ends,
  which is `TaskLife`; both hold with interrupts anywhere. `Bookkeeping` assumes that
  nobody sends interrupts, which may lose a task between the pop and `current`;
  then a task on its way to the history has its outcome (`Settled`).
* `SessionProofs`, claims: `ClaimsTyped`, `Covered`, `NoTwoMovers`,
  `OnlyReleaseFrees`. The invariant is `ClaimsTypeOK`, `MovesAreClaimed` and that a task
  that moves something has started (`MovesHaveStarted`): without it a late move of a
  task that never ran could find its claim taken. `Exclusive` follows, since a claim
  has one owner.
* `SessionProofs`, main thread: `HandlersAreNotReentered`, `MainThreadTyped`,
  `NoQuestionIsReplaced`. A tick that begins in a handler of Qt, outside of cells,
  began when `_qt_seen` was false (`BeginKnowsNoQt`), and only a tick that knows Qt
  pumps (`PumpHasDriver`). The bounds in the types (of the queue, of the calls a tick
  has left, of the wake events) count workers: a call is in one place only, in the
  queue, in a dialog, at the prompt, pending or over (`OnePlaceOfCall`), so that the
  queue has no call twice and is no longer than the set of workers is large, and a
  worker that is still to wake the loop has its wake event accounted for (`WakesInv`).
  That a question which is shown is not replaced by another (`QuestionsAreKept`) uses
  that `_dispatch_lock` is held by the one asker whose question is on its way.
* `StepScanProofs`: `Typed`, `NoValueIsLost`, `PulsesAreRight`,
  `RecordsTellWhatWasDone`, `NoFollowerIsLeft`, `BudgetIsKept`, for any number of values,
  points of the adaptive driver, followers, bad steps and calls of `scan_all`. The
  lists move together but not at once: while a step is being popped the pulses have one
  more than the values (`Lengths`, `PulsesInStep`), from the record to the pop the
  records have one more than the values done (`RecordsMatch`). A scan may be saved at
  any of these places; what the file holds is tied to the lists for as long as
  nothing more is measured (`FileIsCurrent`). The grid has each value at its own place
  (`Grids`), and what was planned, done and left is the grid (`Growing`), which bounds
  it by the budget. Followers are up only from their start to their stop, and their
  windows are those of the records (`FollowersInStep`, `WindowsMatch`).
* `LazyNamespaceProofs`: `TypeCorrect`, `ItemsConserved`, `BooksAreKept`, for every
  dependency between names. `OnePlace` needs to know that a thread puts something only
  after it took it: the invariant says that a frame below another is in its constructor
  and so has nothing in its hand, and that the way a frame will end fits the place it
  is at (`HowFits`): a frame that timed out never gets to the dictionaries.
  `BooksAgree` adds what a call knows of its name while it is at its last steps
  (`CallsOk`): it has taken the name out of `lazy_items` for good, or somebody moved
  it back since, which the history variable `maintained` notes.
* `StreamProofs`, event bus: `Typed`, by which no queue exceeds its size,
  `QueueIsLossyQueue` and `ClientsSeeTheState`. The second is `Spec => Channel(s)!Spec` for
  every subscriber (the run has two of them, as `LossyQueues`). A step of the bus is,
  seen from one subscriber, an `Enqueue`, a `DropOldest`, a `DropNew`, a `Receive`, a
  `Close` or a stutter; the type invariant gives that a queue that is not short of its
  size is full. What the theorem does not say, that frames of distinct publishers come
  in the order of the states, is not true. For `ClientSeesState`: as long as nothing
  raced, at most one thread tells the state (`OneTells`), it tells the current one, and
  every client it is done with has that as its newest state, or lost it to frames of
  other events (`AllTold`, `BeingTold`). No such frame is ever on its way to a client
  that did not ask for it (`FilterOk`), so that there the second attempt finds room.
* `StreamProofs`, recordings: `RecordingTyped`, `RecordingsAreFaithful`,
  `RecordingsAreInOrder`, for any sessions, capacities, updates and backfills. Of the
  threads that bring updates only one appends to a session at any time (`Owners`: the
  one that starts it, then the channel-access thread or its sampler), beside it only a
  backfill. A thread that passed the test of the capacity and has not appended counts
  as a point (`Sized`). A copy is a prefix of what the sibling still has (`Copying`).
  Unless two appends crossed (`torn`) the lists of values and timestamps are the
  completed points, and values at most one further whose timestamp is to come (`Whole`).
  A `None` may be among the values, of a seed that could not be read, but is never among
  the timestamps; such a recording, and one that copies from it, counts as `torn`, too.
  What is about to be appended, or waits in the slot, is newer than all that is there
  and no newer than the channel (`Ordered`); points that were copied or backfilled stand
  outside of that order where the code lets them.
* `RobotServerProofs`: `Typed`, `OneCommandInFront`, `AbortsStay`, `BusyCanBeTrusted`.
  `OneInFront` rests on `Links`: a foreground command that has not ended is the one
  in `_foreground`, a request between submission and pool and a command between its
  two last steps hold `_foreground_lock`. `AbortStays` needs that a second
  foreground command cannot begin meanwhile, so it uses `Links`, too. `BusyIsTold`
  is inductive with what the two halves of a change have told so far.
* `StatusStoreProofs`: `Typed`, `ReadyStoreIsCurrent`, `StopsGiveData`. A worker that
  finishes has looked up the objects there are (`Looked`). Recordings are the harder
  half: `Attaching` says that a client that no rebuild overtook attaches to the
  objects there are and that from `stop_all_recordings()` to the teardown all clients
  about to attach are overtaken, `Running` that at the teardown no recording goes on
  but late ones. `Booked` says that buffers are not taken before the recording is
  stopped, and not by a client while another is at it, which has the lock (`Locked`).
  `Counted` (one generation and one teardown per rebuild) gives the types of the
  counters.
* `DaqRunProofs`: `Typed` and `LastUploadIsNotLost` for the uploads alone, for any number
  of runs and steps. A new call cancels the entry of the key, which must not be its own
  timer: the timer of a call does not exist before the call schedules it (`Fresh`).
  `RunIsAuxUpload` and `RunIsStatus` say that every step of a run is a step of the
  component or leaves its variables alone, so that what is proved of a component holds
  of the run (`LastUploadOfRun`). `StatusTyped`, `BlocksAreKept`, `RowHasWhatWasPushed`:
  as long as the file is not spoiled (by writers that overlap, one that dies or whose dump
  raises, a whole file that cannot be read, a place-holder) there is one reader or
  writer of it at a time, and he has all that was ever in it (`OneAtATime`); nothing of
  the end is anywhere before the end (`NothingEarly`), and a row that waits for the job
  was pushed, or the push was lost, or the job is gone (`RowHasPush`).

Only model-checked: liveness, which is out of the prover's reach (`PendingIsServed`,
`WaitEnds`, `StopEnds`, `UsesEnd`, `FaultEnds`, `BuildEnds`, `QuestionsEnd`, `RunIsFiled`).

## Deviations

One disagreement between code and documentation is a run (above): the status block that
a short scan loses (`storage.py:112-125` against its docstring, `86`). Others were met
while modelling. They are in the models, and the properties are stated so that
they hold with them; at each place it says what is excluded:

* *queue*: a `resume()` right after `Task.wait()` is undone by the worker's block
  (`task_queue.py:579-583`, `612`); `stop_running_task()` reads the task without the lock
  and may interrupt the next one (`481-495`); an interrupt outside of the `try` leaves
  `current` set and `wait()` hanging, and therefore `WaitEnds` is checked without
  interrupts (`579`);
* *scan*: the bare `except` of `scan_all` returns from a failed scan as from a good one
  (`scan.py:777`); a bad step's window stays with the counter when its record is
  taken back (`counters.py:598`), `FollowersStopped` compares windows only without bad
  steps; a scan resumed from a file counts its grid places from 0 (`scan.py:495`),
  `InfoMatchesDone` speaks of scans that were not resumed;
* *namespace*: two threads can build the same device (`config.py:2264`, `2304`), one of
  the objects is lost; the dictionaries stay sound;
* *recording*, seed: the value is read without a test (`utilities_epics.py:173`); when the PV
  has gone since the check (`namespace_store.py:1201-1206`) a `None` is recorded as a point, and
  in mode sample, when the PV has no timestamp either, at every tick until an
  update comes (`1357-1383`);
* *recording*: a backfill beside a callback may swap two timestamps for good, where the
  comment (`namespace_store.py:1453-1459`) expects one extra point; a start that found the
  store ready attaches to objects a rebuild has torn down (`703-751`); a failed
  rebuild does not count a generation, for which `reinit(wait=True)` waits
  (`client.py:594`);
* *robot server*: an abort between submission and begin is lost (`commands.py:166`,
  `213`); an abort of a background command leaves the token set, which stops the poller
  and `setup()` until the next foreground command; the recovery loop may say Ready
  over a Busy that came meanwhile (`app.py:207`);
* *robot server*, events: the state is published once per change and shares the queue of a
  client with polling and motion frames, which push it out for good when the client is
  slow (`events.py:38-50`, `app.py:48-50`), so that a client that takes every event
  (`pshell/client.py:544`) may keep an old state, where the module's comment says that the
  next frame supersedes whatever was lost (`events.py:6-8`). `ClientSeesState` excludes
  those clients then (`missed`);
* *robot server*, `POST /api/stop`: its abort has set the one token, on which the first
  call of the `robot.stop()` that follows raises (`server.py:252`, `robots/protocol.py:233`),
  although the README of the server (`228`) calls it a panic path;
* *uploads*: a timer that fires late takes its successor's entry away, so that the next
  call cannot cancel that one and two uploads of a burst are made (`daq_client.py:1248`,
  against `1216`); an upload that fails is not repeated, `RunIsFiled` excludes runs
  without an upload after it;
* *run status*: besides the overlap of two writers of `status.json`, a restart in the middle
  of a write costs a block, and so does a session that falls back at the end of a scan
  whose start the server took: it writes its place-holder of the start over the file
  (`daq_client.py:1992`, `2440-2464`, against `1895`). A dump that raises leaves a torn file:
  the session's encoder has no `str()` for unknown types, which the comment of the server's
  own knows (`storage.py:40-44`), and the next job drops what it cannot parse; it drops a whole
  file, too, when the read fails (`116`). `BlocksKept` excludes these five;
* *run status*, calls that raise: the session's own `append_aux` is called in the scan's thread
  (`daq_client.py:2164`, `2471`), where its docstring speaks of a background thread (`1265`);
  when the broker refuses, the callbacks after it are not run: at the start there is no scan
  and no row, at the end no last scan_info. An `append_run` that raises is printed and
  the run has no row (`2319-2329`, against the comment at `2310-2311`). `RunIsFiled`
  allows for these;
* *main thread*, wakes: the wake event of a call that is queued while a question is shown
  in a tick is swallowed by the tick, which may not run that call (`mainthread.py:316`,
  `390`, against `581`);
* *main thread*: an application that the watchdog notices between the test and the
  tick is pumped wherever the main thread is (`mainthread.py:205`, `345`).

## Not modelled

Outputs, logging, progress display; the test run of a task is only its verdict;
the places where an asynchronous exception strikes are those of CPython 3.10 and later;
the increment of a subscriber's counter is one step with the `get_nowait` before it;
services of the heartbeat and their timer, the end of a Qt application; the values of
snapshots and the HTTP layer of the status server; the DAQ client's book-keeping of
acquisitions, run numbers, aliases, detector settings and the data the broker writes (of its
other callbacks only that they may raise); the age limit of pushed values (300 s, the
thread that asks for them gives up after 180 s by default); start and end of the robot
server, its limits on background commands and results;
the branch of `do_next_step` for counters with step-counting callbacks (the
manual count), and a `KeyboardInterrupt` between its two pops (`scan.py:540-541`);
strategies, fits and motion times of the adaptive driver; hardware, channel access and
HTTP. Components without a module yet are listed with the reason in `PROJECT.json`.

Most of the repository's lines are drivers, panels, configuration and analysis:
attribute trees over process variables, Qt layouts and numerics without shared
state that several threads or failures could disturb. They are listed as not
modelled with the reason.

## Plan

1. *(done)* TaskQueue, Claims and LazyNamespace with proofs; StepScan.
2. *(done)* Recording, StatusStore; EventBus with its refinement of LossyQueue;
   RobotServer with proofs; MainThread with a proof.
3. *(done)* every invariant that a run checks, and every action property, as a theorem:
   StatusStore, Recording, EventBus, StepScan, the books of TaskQueue and LazyNamespace.
4. *(done)* AuxUpload, RunStatus and their composition DaqRun, with proofs.
5. The acquisitions several scans start and stop on one Daq
   (`daq_client.py:738-850`); LazyNamespace with `reinitialize`; the
   composition of StatusStore with Recording, and of TaskQueue with StepScan in
   place of the abstract scan.
