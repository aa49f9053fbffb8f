# A TLA+ verification of package_compile_sys

This directory specifies and verifies the programs of `app/multiBox`, the libraries
`app/cppUtils` and `app/lzUtils` they are built from, and `buildsys`, the shell scripts that
build everything. Each module is a translation of source code; `PROJECT.json` gives, for every
definition, the lines it stands for (`map`), and lists the runs, the mutants, the hazards and
the theorems.

Contents: [the system](#the-system), [the modules](#the-modules),
[runs](#runs-bounds-and-fairness), [what the runs found](#what-the-runs-found),
[proofs](#what-is-proved), [what is not modelled](#what-is-not-modelled),
[what is left](#what-is-left), [how to run](#how-to-run).

## The system

One binary, `multiBox`, dispatches on its program name (`src/main.cpp`) to some twenty
applications. The ones with a life of their own, and the libraries under them:

| component | state | operations | interacts with | hard behaviour | what makes it correct | module |
|---|---|---|---|---|---|---|
| **allPlay** audio player (`AudioPlayerImpl`, `PcmBufPool`, `AlsaController`) | url, status, stop/pause/finish/alive flags, two ffmpeg contexts, a bounded pool of PCM chunks, three mutexes, two condition variables, the PCM device | `audioPlay/Stop/Pause/Resume`, destructor; threads `decodeFunc`, `playFunc` | caller thread, decode and play thread through the pool; ALSA and ffmpeg | three threads, waits with and without condition variables, retries of a broken stream, flags read outside their mutex, partial writes | no stale sound, no freed context used, none leaked, a paused or stopped player silent, every call returns | `AudioPlayer`, `AlsaController` |
| **MTQueue** (`cppUtils`) | deque, capacity, exit flag, one mutex and one condition variable | `read`, `write`, `cycWrite` (each plain or timed), `clear`, `setWaitExitState` | any number of threads | one condition variable for both directions, `notify_one`, timed waits | a bounded FIFO: each element handed out, destroyed or forgotten once | `MTQueue` over `BoundedFifo` |
| **RtPlayer** | pause and full flags, MTQueue of chunks, two ALSA devices with a mutex each | recorder thread, player thread, `SIGUSR1` handler pausing and resuming | MTQueue, `alsa_ctrl`, signals | a handler that locks mutexes, on whatever thread, more than one at once; underruns against pause, waits by polling a flag | signals are served, no backlog after a pause, playing goes on | `RtPlayer` |
| **AppManager** | table of tasks with a state each, table mutex | start/stop/restart/delete/exit commands over a fifo, monitor thread | programs, their pid files | programs come up late and die while commands and monitor work on the table | a program runs once, a stopped one stays stopped, a dead one is noticed | `AppManager` |
| **SockServ** | select set, list of clients, one handler thread per client | accept, request, answer, reap | sockets, threads, the descriptor table | a descriptor closed by one thread and handed out again to another | nobody closes or deletes what is not its own; who asks is served | `SockServ` |
| **ut_socket** (`lzUtils`) | table of connections, interest, what one wait returned | eight servers: select or epoll, tcp or udp, local or not | peers | the table changes under the loop over it | the table is what is watched; what a peer sends is read | `UtSocket` |
| **uartd** | buffer of the reader, two `CondFifo`s | reader, parser, writer thread | serial line | frames cut by reads, notify after unlock | frames whole and in order, fifos drain | `Uartd` |
| **uartd ring player** (`RePlayer`) | ring of chunks, play and full flags | one thread, `SIGUSR1` handler | two ALSA devices | the handler stops the loop anywhere, on its own thread too | never dry, constant delay, in order | `RePlayer` |
| **sensors** | slots of functions, flags, a polling thread, the device | register, unregister; start, stop, calibrate, read | kernel, callers | a thread that leaves resets flags the next one has set | one thread, device and flags agree, calls return | `GSensor`, `GyroSensor` |
| **keys, hot plug, light** | pending events, pins still to set | one loop per program | kernel, GPIO pins they share | two programs set the same light, pin by pin | dark when unplugged; the lamp follows the light | `Board` |
| **ring buffers** `csrb`, `ccsrb` | read and write index, mirrored memory or bounce chunks | query, sync, clear | producer, consumer | wraparound; a clear or another query between query and sync, a sync of less than was asked | a granted chunk is the stream, places stay in the ring | `Rings` |
| **lists and queues** `dll_fifo`, `dfq_fifo` | doubly linked list; the same with mutex and condition | push/pop, insert, erase; read, write, cyclic and timed | threads | ends of the list; `if` around a wait | a deque; nobody sleeps on data | `DllFifo` over `Deque`, `DfqFifo` |
| **command pipe** `user_fifo` | pipe, buffer of the reader, errno | open, write, read, parse | writers of other processes | pipe and buffer at their limits, restart of the reader, stale `EINTR` | commands whole, once, in order | `UserFifo` |
| **alsa_ctrl** | device, abort flag, one mutex | write, pause, resume, abort, clear, prepare, reset, close | device | calls wait for a writer that waits for the device | a pause and an abort hold | `AlsaCtrl` |
| **vad, autom** | counters; a growing block | next chunk, reset; write, read, reset, cut | - | counts across the change of status; bytes kept across growth and reset | a start needs enough loud chunks in a row; bytes in order | `Vad`, `Autom` |
| **Base64Tool** | buffers, file positions | encode and decode a file | - | groups of one to three bytes, buffers of two tools | what comes back is what went in | `Base64Tool` |
| **buildsys** (`mk.sh`, `make_com_script.sh`, `get_deps.sh`) | one state file per package and stage, install tree | sync, patch, configure, build, install; `re*` variants | packages through dependency lists | interruption between a stage and its mark, stale marks, failure of one package | a stage runs on current output; dependencies first | `BuildStages`, `DepClosure` |

`hazards` in `PROJECT.json` lists, line by line, what is hard to test in them, and the
property that covers each hazard or the reason there is none.

## The modules

### AudioPlayer (`allPlay`)

The three threads are three program counters: `mainPc` for the single caller
of the API (as in `allPlayer_main`), `decPc` for `decodeFunc`, `playPc` for `playFunc`.
A value of a program counter is a point at which another thread can run: before each
lock and after each unlock, between accesses to flags read by other threads without
a lock, and at waits. Code between two such points is one action.

| variable | code |
|---|---|
| `url`, `session` | `m_url`; a track is identified by the number of the `audioPlay` that started it, 0 is the empty string |
| `status` | `m_status` (IDLE, PLAY, STOP, FINISHED) |
| `stopFlag`, `pauseFlag`, `finishFlag`, `alive` | `m_stopFlag`, `m_pauseFlag`, `m_finishFlag`, `m_threadAlive` |
| `decodeM`, `playM`, `alsaM` | who owns `m_decodeMutex`, `m_playMutex`, `m_alsaMutex` |
| `pool`, `endFlag`, `dirty` | `m_streamPool`, the end and dirty flags of `PcmBufPool`; each pool operation is one critical section of its data lock |
| `ctx` | which of the two ffmpeg contexts are allocated |
| `decTrack`, `held` | the track the decoder has open; the chunk the play thread has popped |
| `op` | whether `audioStop` was called by the user or by `audioPlay` |

A mutex guards the points between its lock and unlock; `pthread_cond_wait` gives it
back ("wait"), a signal moves a waiter to "wake", from where it must get the mutex
again, and spurious wakeups are steps of their own. Both threads return from their
function with the mutex locked when the destructor wakes them, as the code does.
ffmpeg is external: opening a track may fail after allocating neither, one or both
contexts; reading gives nothing, a chunk, an end of stream (genuine or early) or
errors. `handleHungryState` reads the size of a deque without its lock while the decoder may
be pushing: the model lets that read return anything meanwhile. The device may refuse to pause
or resume. Progress reporting, seeking offsets and listeners are left out.
`AudioPlayer` treats the write of a chunk as one step that ends; `AlsaController` (below) is about that step.

### MTQueue and BoundedFifo (`cppUtils/MTQueue`)

A step of `MTQueue` is one critical section of `mu`, plus one for `notify_one`,
which the code calls after the unlock: what happens in between is visible. Index 1 of
`q` is the newest element (`push_front`), the last one leaves (`back`/`pop_back`).
`taken`, `destroyed`, `forgotten` are history: what `read` returned, what `cycWrite`
destroyed, what `clear` dropped without destroying. A thread is idle, waiting, woken,
timed out (both must get the mutex back and look again) or about to notify.
`BoundedFifo` is the abstract specification: put, overwrite, take, clear. `MTQueue`
implements it under `fifo <- Reverse(q)`, the other variables mapping to themselves.

### RtPlayer

Recorder, player and the main thread with the `SIGUSR1` handler on top of it, composed
with the queue through what `BoundedFifo` promises: `cycWrite` on a full queue drops the
oldest chunk, `read` blocks on an empty one. Only the number of queued chunks
matters to the properties, so the queue is its length (`queued`) and what the last write
returned (`wasFull`). The devices are external; a PCM is prepared,
running, paused, stopped (dropped) or in underrun, and `alsa_ctrl_pause`,
`_resume`, `_read_stream` and `_write_stream` do what their code does in each of
those states. `CanPause` is the set of the devices to check, with hardware pause and with drop/prepare. A signal
before `g_mRtPlayer` is assigned crashes the program: a state of its own.

`signal()` (`RtPlayer.cpp:209`) blocks SIGUSR1 on the thread that runs the handler and on no other. So `handler` has for each thread the place
it has reached in `sig_handle`, `pause()` or `resume()`: a signal goes to the main thread if that is not in the handler (the kernel prefers it) and else to
the recorder or the player, wherever that is interrupted and with whatever mutex it holds; its own code stands still meanwhile. Handlers share the static
`isPaused`, which is read in one step and written in another, `mPauseFlag` and the devices, in any interleaving. `overlapped` remembers that two were
under way at once, which is what the following states need, save the second:

- `SelfLocked`: the handler waits for a mutex (of a device, or of the queue) that its own thread holds, for ever;
- `InPausedDevice`: a thread past its check of `mPauseFlag` is in a device with hardware pause that was paused meanwhile, with the mutex `resume()` needs;
- `LeftOff`: a pause that overlapped a resume has left the recorder's device paused or dropped although `mPauseFlag` says that the program is not.

The progress properties say that these, a crash and a pause (and, after an underrun, a device with hardware pause) are the only ways not to go on.

### BuildStages and DepClosure (`buildsys`)

`BuildStages` is one invocation after another of `mk.sh`: `cmds` and `list` are its arguments
(`-c` and the packages), `ci` and `pos` the two loops, `pc` and `st` the point in the running
package script. A command is `default`, `clean`, `remake`, `redo` (`reX`: `pkg_clean_for` removes the
state files of stage X and the later ones) or `only` (a plain X: that state file alone).

| variable | code |
|---|---|
| `marks` | the files `.state_<stage>_done` of each package |
| `tree`, `patched` | what is in `$dst_path`: nothing, something unusable, an unpacked tree; which patch files have been applied |
| `fresh` | history: the stages whose output was made from the last output of the stages before |

A stage is two steps, its work and the `touch`, and may be killed in or between them. The
tools are external, but for two facts that follow from how the scripts call them: unpacking into a tree that is
already there fails (`mv` of several entries to one new name), and so does patching twice. With `"torn"`
among the faults an `rm -rf` may be cut short. Sources in `../app` do not change during the runs: the state files
know nothing of edits, which is what the stage commands are for. The stage `final` has a state
file name but no stage, so `final` and `refinal` are `default`.

`DepClosure` is `get_deps.sh`. Every call of `up_active_list` runs in a subshell on copies of its
arguments and hands back only what it prints, so the recursion is a stack: `levels` has `$1`, what is left of `$2`,
`$4` (`un`) and `un_list` (`went`) of each call, and `active` is the `active_list` of the innermost one. One step is one turn of
the loop (`Skip`, `GoInto`) or the end of a level (`Return`). Its `DepsComeFirst` is what `BuildStages` assumes of `Lists`.

### AppManager

Every operation on the table holds the table's mutex from beginning to end, the waits and polls
within included. So there is one `job` at a time, a list of start, stop and monitor steps with
the place it has reached; what interleaves with it is the programs. `proc` has for each program how many
launched instances are not up yet, whether one holds the lock of its pid file (that is what "running"
means to the manager, `misc.c:576-661`) and whether it was told to end. A launched instance that finds the
lock taken goes away. The manager itself may crash (`life`) and is started again with a new table
and the programs still up. `tasks` is the vector of tasks with their states; commands that name a program
work on the first task of that name. `twins` and `astray` are history for the two things the code does not prevent: a
name that is in the table twice, and an instance that comes up after the manager stopped waiting for it.

### SockServ and UtSocket

`SockServ` models the descriptor table `fdt` of the process: the kernel hands out the lowest free
number, a close frees whatever the number stands for at that moment (`foreign` records a close that hit something else).
`main` is the place in the main loop, `pc` that of each handler, `cl` the client objects with their state and
`m_sockfd`. A connection is accepted only with a descriptor free. `UtSocket` is the eight servers of
`ut_socket.c`, distinguished by how they wait, local or not, tcp or udp. `ready` is what one `select` or `epoll_wait` returned,
`conn_a` the table, `interest` the set that is waited for; both change under the loop over `ready`.

### Uartd and RePlayer

`Uartd`: the characters of the line arrive in reads of any size; `HardReadProcess` cuts at most one frame per read, the
parser answers, the writer may write a frame in pieces. A `CondFifo` has one consumer and notifies after the unlock, which is a step of its own.
`RePlayer`: chunks are numbered, and the ring has one slot always free. The steps of the loop and of the handler interleave, and the handler may run on the main thread
and on the loop's at once, as in `RtPlayer`, where it finds the mutex of a device locked for good if it has interrupted a read or a write. The calls by which the loop itself pauses and resumes
the player are one step each (with the decision or the failed write they belong to), so a handler that interrupts the loop within one of those is not in the model. A dropped recorder delivers nothing and a dropped player takes nothing. `uartd/RtPlayer.cpp` is an earlier copy of the program `RtPlayer` models.

### GSensor, GyroSensor, Board

`GSensor`: the polling thread reads slots and flags without the mutex that the callers hold, so each access of it is a step; a
thread is identified by the order of creation. Callers register and unregister at any time, enabling, disabling and creating the thread may fail. Three histories say when the code
loses track: `rushed` (a function was registered while a thread was leaving, whose last two stores reset the flags of the new one), `early` (the last one was unregistered before the
thread had enabled the device, or while it left of itself) and `failed`. `GyroSensor`: two callers, the thread, and one that reads or calibrates without a lock; `MayFail` names
what may go wrong: the failing paths of `start`, two of which return with the mutex locked (`Abandoned`), a disable that leaves the state at enabled, and the open and close of a calibration. `failed`
remembers what keeps state and device from agreeing, `"cut"` being a calibration that closed a device which a `start` had enabled meanwhile. `Board`: `adcKey`, `hotplug` and `adcDetect` with
the events they have yet to read and the pins they have yet to set, one command per pin.

### AlsaCtrl and AlsaController

Both have an external PCM with the states of ALSA (prepared, running, paused, dropped, underrun, suspended where the code handles it) that plays on its own.
`AlsaCtrl` is the library of `RtPlayer` and `RePlayer`: one mutex, held by a writer until its whole chunk is in the device (`left`), for which
every other call waits (`control`). `AlsaController` is the device of `allPlay` under the calls `AudioPlayerImpl` makes of it: the frames of
the chunk one by one, with partial writes, underruns and suspends, against `audioPause`, `audioResume`, `alsaPrepare` and `alsaClear`, of which only the first takes `m_alsaMutex`.

### Rings, DllFifo, DfqFifo, UserFifo, Vad, Autom, Base64Tool

`Rings` has the memory of `csrb` twice over, as the code, with the loops that mirror it, and the bounce chunks of `ccsrb`; a byte is its place in the stream. Nothing ties a sync to its query:
a side may sync less than it asked for (as the test in `ccsrb.c:203-215` does), ask again before it syncs, and the ring may be cleared at any point. `odd` says which of these has happened since the last clear of a
ring of which nothing was granted, and `MaxOdd` bounds the calls from there on. A sync that takes `size - (cBytes - wi)` below 0 puts a place out of the ring (`wild`); the counts are modulo `Width`, so that `contex`
wraps when a clear comes between a query and its sync. A query is one step with the filling of what it returned, a caller does not sync more than it was granted or ask for more than the capacity, and each side of `csrb` keeps one size.
In `Autom`, `breset` may cut off bytes that are still unread (`Cut`), leaves `pre_bytes` and `tail` as they are, and may move the block (`moved`); `stray` records that an address out of the block was then used. After
`wild` and `stray` the C program is undefined and the model stops.
`DllFifo` has the nodes with both links, and refines `Deque` by walking them from `front`; `DfqFifo` needs only the length of its list, which is what
its waits go by. `UserFifo`: a unit of the pipe is a place in a command, so that torn or mixed commands are visible; the pipe is lost when nobody has it open.
`Vad` and `Autom` are sequential. `Base64Tool` computes: `DataEncode` and `DataDecode` on bytes and six-bit characters, with the sizes of the buffers of the tool that
encodes and of the one that decodes.

### MCServices, MCDevices, MCUtils

These instantiate the modules above, which share no state: `which` is chosen in the initial state and only that component moves, so the
behaviours of the composition are those of the components, side by side. The property for progress and some of the fairness conditions are put under `which`
for this reason. It is a way to check many small components with few configurations and not a claim that they interact. Components that do interact are
composed through what they promise: `RtPlayer` on `BoundedFifo`, `BuildStages` on `DepClosure`'s `DepsComeFirst`, `DllFifo` on `Deque`.

## Runs, bounds and fairness

Every property of a passing run has mutants in `PROJECT.json`: an operator next to the definition it
replaces, with a bug a programmer could make there (`Def_Bug`), under which TLC finds the property
violated. A property of a run is often a conjunction of named parts that say one thing together (`Silences ==
LockDiscipline /\ PauseSilencesDevice /\ SilentAfterStop`); each part has its own comment in its module, and its own mutant.

| run | configuration | bounds | shows |
|---|---|---|---|
| `player_api` | `MCAudioPlayer_api` | 2 tracks, pool of 2, refill above 1; play, stop, pause, resume | `Silences`, `OneTrackOnly`, `ContextsLive`; `AllEnds`: calls return and the push loop ends |
| `player_destroy` | `MCAudioPlayer_destroy` | 2 tracks, all operations and the destructor, device not opened | `DestroyedIsQuiet` |
| `player_starved` | `MCAudioPlayer_starved` | 1 track | a counterexample, below |
| `queue_calls` | `MCMTQueue_calls` | 2 readers, 2 writers, capacity 2, 3 elements, every call | `OneFateInOrder`, the refinement `ImplementsFifo`, `WaitsEnd` |
| `rt_signals` | `MCRtPlayer_signals` | queue of 2, 2 signals on any threads, with and without hardware pause | `PauseIsRight`: one chunk of old sound at most after a pause, a full queue at the start, flags and devices as the last signal asked unless handlers overlapped; `GoesOn`: handlers return, playing goes on, underruns are repaired |
| `rt_pausing` | `MCRtPlayer_pausing` | queue of 2, hardware pause, 2 signals | a counterexample, below |
| `stages_marks` | `MCBuildStages_marks` | a patched archive and an app that needs it, up to 2 commands (default, clean, re*) per invocation, any number of invocations, failures and kills | `LoopInOrder`, `OutputIsCurrent`, `DefaultKeepsDone` |
| `stages_remake` | `MCBuildStages_remake` | one archive, plain commands too, kills also within an `rm -rf` | `RemakeRepairs` |
| `deps_lists` | `MCDepClosure_lists` | all graphs of 4 packages with up to 2 dependencies each in any order, 1 or 2 asked for, up to renaming the packages | `ListIsClosure`: the closure, each package once, dependencies first, the recursion bounded |
| `services_each` | `MCServices_each` | AppManager: 2 programs and a bad line, 3 commands, 3 tasks, 1 crash. SockServ: 2 connections, 4 descriptors. ut_socket: 6 kinds, 3 peers, 2 questions | `Supervises`, `SocketsAreKept`, `ServicesProgress` |
| `devices_each` | `MCDevices_each` | RePlayer: 3 slots, 2 signals on either thread. uartd: 6 characters, reads of up to 3, fifos of 1. gsensor: 2 slots, 3 calls. gyrosensor: 2 callers, 4 calls, every failure. Board: 3 changes, sample count 5 | `SteadyDelay`, `InOrder`, `UartFramesWhole`, `SensorThreadAndDevice`, `GyroSettled`, `BoardLights`, `DevicesProgress` |
| `utils_each` | `MCUtils_each` | alsa_ctrl: buffer 2, chunk 3, 6 calls. AlsaController: 2 faults besides. Rings: capacity 3, counts modulo 8, 3 calls from an odd one on. List: 3 nodes, 2 data. dfq_fifo: size 1, 1 reader, 2 writers, 5 pushes. vad: confirm counts up to 3. autom: 5 bytes. user_fifo: pipe 7, buffer 5, 3 commands of 2 writers, 1 signal, 1 restart. Base64: files of up to 5 bytes out of {0, 165, 255}, blocks of up to 4 | `ControlsHold`, `BytesKeepOrder`, `ListIsDeque`, `QueueHolds`, `VoiceInRows`, `FifoKeepsCommands`, `SoundHolds`, `CodeRoundTrips`, `UtilsProgress` |

Why the bounds are enough.

- *Player*: the hazards involve the track before and the track now, so two tracks; a pool of 2 is full, partly filled and empty, with the
  refill mark in between; every retry loop is unbounded. The safety properties are proved for all values anyway.
- *Queue*: one condition variable becomes interesting with two waiters of each kind; with one element more than the capacity each way of
  writing to a full queue occurs, and any two elements can meet in every order. Its safety is proved for all values.
- *RtPlayer*: 2 chunks distinguish empty, partly filled and full; two signals are a pause and a resume one after the other, or two handlers at once, a pause with a resume or with another pause. What comes after more of them is the theorem's, for any number.
- *BuildStages*: the disk state survives from invocation to invocation, so all histories of commands are covered; two packages are what `break` and the dependency order are about,
  and two commands what comes after a `break`. The safety properties of `stages_marks` are proved for any number of both.
- *DepClosure*: with four packages a dependency can be direct, indirect, shared, and part of a cycle of every length. The packages are symmetric: nothing in the module or its property names one of them.
- *AppManager*: a table with a second task of one program, a task after another, and three commands: stop, start or restart, and exit after either. Proved for all values.
- *SockServ*: a number is handed out again with the second connection; four descriptors are two sockets and two files, or a full table when a file leaks.
- *UtSocket*: three peers fill the table and leave a hole in it when the middle one goes.
- *Uartd*: six characters hold one frame and the beginning and end of the next; reads of three cut them everywhere; fifos of one are full with one frame.
- *RePlayer*: three slots are the fewest that hold a chunk beside the two that the loop keeps free while it plays. Proved for every number.
- *Sensors*: two slots are partly and fully taken; three calls register, unregister and register again, beside the thread that is leaving, and a second life of it (`watch` gives the first without a call); four calls of gyrosensor are two lives of its thread. *Board*: three changes plug, unplug and plug (or charge) while commands of the first are pending.
- *Rings*: in a ring of three, chunks of one to three bytes cross the end at each place; a label repeats after twice the capacity, further apart than any two bytes in the ring. Three calls from an odd one on are a clear and the two syncs it came before, or a short sync and the query and sync that go by what it left; with clean calls in between there is no bound. Proved for all values.
- *Lists*: with three nodes there is a first, a middle and a last one. *dfq_fifo*: of two writers one can wait and one take its signal.
- *user_fifo*: the buffer holds one command and a part of the next; the pipe does not hold two of the longest.
- *Base64Tool*: five bytes are a whole group and an incomplete one, in blocks of one to four bytes; the three byte values set no bits, all bits, and alternating ones.

The configurations say `CHECK_DEADLOCK FALSE` where the system may stop: the caller stops calling at the bound, the process exits, every thread waits on
an empty queue, the list is made, the peers are gone. Only `BuildStages` never stops: `mk.sh` can be called again.

Fairness, and what justifies it:

- `AudioPlayer`: weak fairness of each thread. Each wait for a mutex is at most a wait for a section that ends. The caller need not make another call,
  and no spurious wakeup is owed.
- `MTQueue`: weak fairness of a thread that is in a call; strong fairness of `TimeOut`, because the deadline of `wait_for` is absolute for one wait: wakeups do
  not postpone it for ever. Nobody is obliged to call, and no fairness is given to which waiter `notify_one` picks.
- `RtPlayer`: weak fairness of the main thread, strong fairness of the recorder, of the player and of the handler on each thread, which includes that a capture device that runs delivers and a playback device that
  runs drains. Strong, because each of them takes mutexes that the others take again and again: a mutex that is free again and again is
  eventually granted. With weak fairness alone the handler can starve: the code relies on the mutex being fair. A thread whose handler waits for itself is never free to go on, so fairness says nothing of it.
- `AppManager`: weak fairness of its two threads and of the job, and of the programs: an instance that was launched comes up or goes away, one that was told to end ends. Commands and crashes are owed to nobody.
- `SockServ`, `UtSocket`: weak fairness of the main loop and of each handler, none of the peers.
- `Uartd`: weak fairness of the threads; the line delivers what it likes.
- `RePlayer`, `GSensor`: strong fairness of the delivery of the device, which pauses and the other thread interrupt again and again; in `RePlayer` of the handler too, as above. `GyroSensor`: strong fairness of each caller getting the mutex.
- `AlsaCtrl`: a device that runs plays and the writer writes (weak); strong fairness of the call that waits for the mutex, which a writer may take again at once. `AlsaController`: a device that runs plays, and `audioResume` that has cleared its flag goes on.
- `UserFifo`: weak fairness of the reader. A reader that is down need not be started again.

## What the runs found

Two runs have `expect: violation` and an entry under `findings` quoting the sentence that promises otherwise:

1. `player_starved`: the decoder empties `m_url` when it is done. If the play thread had not yet taken its mutex, it finds `m_url` empty and waits: the
   track is never played, never finishes, and the status stays PLAY.
2. `rt_pausing`: with hardware pause, a recorder past its check of `mPauseFlag` blocks in the paused device with its mutex, for which `resume()` waits for ever.

The models contain more that a reader of the code should know. Nothing in the repository promises otherwise in so many words, or it is the reason why a property above is stated under a condition:

- *Player*: the destructor sets the stop flag but does not clear the pool; a decoder blocked on the full pool never leaves `pushPcmChunk` (`PcmBufPool.cpp:79-83`), and the join
  hangs (`AudioPlayerImpl.cpp:94`). `DestroyedIsQuiet` is about destructions that end.
- *AlsaController*: `audioResume` clears `m_pauseFlag` before the device is resumed (`AudioPlayerImpl.cpp:707-711`). The writer may start the device first; the resume is then refused, the
  status stays STOP, and the next `audioPause` leaves the device running (`PausedIsQuiet` excludes this by `late`). A chunk is cut short when the writer finds the device dropped.
- *RtPlayer*: the underrun handling resumes the playback device also after a `pause()`, as soon as `mFullFlag` is set, which is what the last write returned: `StartsFull` is about the
  first start only, and `PausedIsBounded` about the backlog, not the device. With hardware pause an underrun is not repaired at all, because `snd_pcm_pause` is refused (`UnderrunRecovers` excepts `can_pause`).
  A second SIGUSR1 that comes while the first is handled, 40 ms at least for a resume, is handled on another thread: it may deadlock on a mutex which that thread holds (`SelfLocked`), or leave the capture device off or `isPaused`
  contrary to `mPauseFlag` (`LeftOff`, `overlapped`). The same holds of *RePlayer*. A signal before `g_mRtPlayer` is assigned crashes the program.
- *MTQueue*: if a writer waits too, `notify_one` may wake it for an element, and a reader without a timeout sleeps on: `ReadersServed` is conditional on no waiting writer.
- *BuildStages*: `resync` and `repatch` can never succeed, since unpacking and patching over what is there fail (`make_com_script.sh:28,75`, `top_env.sh:27`), and leave the package unbuildable until `clean` or
  `remake`. After a plain stage command later stages keep their state files though made from old output, and a torn `rm -rf` can leave state files in half a tree: `OutputIsCurrent` is about `re*`
  commands and whole removals. A failed package only breaks the inner loop: `mk.sh` goes on with the next command and ends with status 0.
- *AppManager*: `restartAll` restarts only the first task; the count of the shutdown command is dropped; a task whose start failed is not looked at again; the configuration is read up to the first bad line.
- *SockServ*: a file whose answer was sent to its end is not closed (`SockServ.cpp:393-395`); with the descriptor table full nobody is reaped any more. `Stop()` of the server has no caller; a handler that closes and the
  main loop that stops the same client may both close, which hits a number handed out again (`crossed`).
- *ut_socket*: `un_select_tcp_server` enters a connection in every free slot, and `un_epoll_tcp_server` ignores an event with a hangup in it: neither reads what is asked and both are left out of `AskedIsRead` (`MCKinds`).
- *uartd*: a frame too many is dropped in silence, and a 128-byte read fills the 128-byte buffer without its terminator.
- *GSensor*: a registration while a thread is leaving may start a second thread beside it, or may never be served, since the old one's last two stores reset the flags of the new one (`gsensor.cpp:337-338`; `rushed`). If the last function is
  unregistered before the thread has enabled the device, the device stays on with nobody to disable it (`early`), as it does when the disable fails, which nobody looks at (211). A function that is unregistered between its check and its call is called as
  NULL (280-282; `Crashed`). The properties hold but for these; `StateHasThread` holds always.
- *GyroSensor*: two failing paths of `start` return with the mutex locked, and every later call waits for ever (`Abandoned`). A thread that cannot be created, or cannot disable the device, leaves it and the state enabled. The buffer is freed while the
  state still says enabled, so a reader may find it freed, and a calibration closes a device that `start` enabled meanwhile (`"cut"`).
- *Board*: `adcKey` and `hotplug` can leave a plugged board dark, because their commands for the two pins interleave; `UnpluggedIsDark` is the half that always holds.
- *Rings*: `csrb` is right only for sizes that its mirroring covers (`Fit`), and while its reader syncs all it was granted, and its writer too unless the reads divide the capacity (`Whole`). With a clear between a query and its sync the reader's
  `contex` may wrap below 0, and what is granted is no part of the stream. A sync of fewer bytes than were asked for, while a chunk of its own is out, takes `wi` (or `ri`) out of the ring (`ccsrb.c:45-48`, `wild`): the repository's own test does that at the end of a file that is no multiple
  of its chunk (203-215). *Autom*: after a `breset` that cuts the block the next writes go by a size that is no longer there, and `tail` may point into the block that `realloc` gave back (`FitsTheBlock` excepts the time until a write takes a new block). *DllFifo*: with `WalkEmpty = TRUE` walking an emptied list reads a freed node.
- *DfqFifo*: two writers wake each other and grow the queue past its size; a timed writer that gives up may have taken a reader's signal; a limit of a second or more makes the wait fail
  and spin with the mutex held (`Long`); `setExit` does not release `dfq_fifo_read`. `QueueHolds` has these as its conditions.
- *UserFifo*: `un_read` and `un_write` never return an error, so the retries above them are dead code; an `EINTR` from an earlier call keeps a reader reading until its buffer is full (`fd_op.h:64`); a command cut by the end of the buffer is forgotten.
- *Base64Tool*: decoding a line longer than the buffer cuts it without an error; the check compares with the size of the wrong buffer (110).

## What is proved

Eight modules hold proofs. The theorems in `PROJECT.json` are those that state a property of a run, or type correctness; the ones for the parts of a conjunction are proved next to them. Their assumptions are the named `ASSUME`s on constants only, unless said otherwise.

`AudioPlayerProofs` proves, from `ConstantsAssumption` (a pool of at least 1 with the refill mark below it, any number of tracks, any set of operations, device opened or not), every safety
property of the player runs: `TypeOK`, `Silences`, `OneTrackOnly`, `ContextsLive`, `DestroyedIsQuiet`. Their parts are not inductive as they stand: `IInv` adds

- `CallInProgress`: what the caller knows during a call (the stop flag stays set during `audioStop`, a track is still to be started, the joined threads are gone). Without it, `StopBody` could reach IDLE with the stop flag clear;
- `ContextsOwned`: contexts exist only inside the decoder's section, and both exist wherever it may read. That is why `audioStop` freeing them is harmless: it holds the mutex, so there are none;
- `DecoderCurrent`: a decoder in a retry still works on the current track, so what it pushes next is not stale;
- `EndHasNoUrl`: the end flag goes up with `m_url` empty, which keeps the decoder out of its section until the next track resets the flag;
- `IdleIsStopped`: IDLE means stopped or never started, so a thread that wakes up late leaves at the first look at the flag.

One lemma per thread (`MainIInv`, `DecodeIInv`, `PlayIInv`, with `PlayBodyIInv` apart) shows that its steps preserve `IInv`; the theorems follow.

`MTQueueProofs` proves `TypeOK`, `OneFateInOrder` and the refinement of `BoundedFifo` (`ImplementsFifo`). Every action has one of five effects on the queue (pushes, pushes out, takes, forgets, keeps),
which one lemma (`Effects`) establishes and all the rest builds on. The invariant `QInv` is the three together, for the order of the elements still in the deque is what the order of those that
leave follows from, and that they are all different needs the partition of the elements by their fate. The facts about `Front`, `Reverse` and `ToSet` that this takes come first.

`RtPlayerProofs` proves `TypeOK` and `PauseIsRight`, for every capacity, any number of signals, handled on any threads, and devices of either kind. In the types, who owns a mutex is where its owner's program counter is. `RtInv` adds `PausedInFlight`
(while paused, a handler that has set `mPauseFlag` is still to clear the queue, or the backlog and the chunk in flight are one at most; the chunk is counted from the recorder's check of the flag on, and this holds however handlers overlap), `PrefillIsFull`
(until the player has started nobody takes anything, so a full queue stays full), `AloneSoFar` (while no two handlers have overlapped, the flags and the capture device are what the place of the only handler says) and `KindOfPause` (a PCM is paused if it can be, else dropped).

`BuildStagesProofs`, on `BuildStages`, proves `LoopInOrder` from `BuildStagesAssumption` alone, and `OutputIsCurrent` if plain stage commands and torn removals are excluded, which are what breaks it.
`BInv` adds `MarksArePrefix` (the state files are those of the first stages, so a stage that runs can outdate no stage that is marked), `FreshFitsTree` (what is current tells the state of the
tree) and `EarlierAreMarked` (a script at a stage has passed the earlier ones). `DepsBuiltFirst` takes `EarlierAreComplete`: the earlier packages of the list are complete, because the loop is left at the first failure.
`DefaultKeepsDone` holds of every step, from the types alone. `RemakeRepairs` is proved for tools that do not fail, with kills and torn removals: `RemadeSoFar` says that
each stage of the package at hand runs on a tree that the stages before have just made, and `RemakeGoesWell` keeps what has been remade until the command is over.

On `DepClosure` it proves `ListIsClosure`, for any finite set of packages and any dependencies, round in a cycle or not. `Reached` is what is in the list or on a level. `DepsInv` says that the needs of everything in the list
are reached (`ListReached`), that those of a level are reached or still to be looked at (`NeedsReached`), and that nothing is reached that need not be (`ReachedLeast`): with no level left that is the closure. A level knows the packages of all levels above it
but the first (`LevelsDiffer`), which bounds the recursion: the first package may appear once more. For the order, `LevelsFollow`: each level's package needs the next one's, so if the package of the innermost level needed one that is
on a level and not yet in the list, the packages from there down would be a set without a first one, which an acyclic graph has not (`TopHasAll`). `GetDepsFitsStages` states the outcome as `BuildStagesAssumption` has it, which joins the two modules.

`DevicesProofs` proves every safety property of `devices_each`, each program by an invariant of its own; a step of one is a stutter of the others.

- *RePlayer*, for every number of slots. `Steady` says how full the ring is at each place of the loop: a chunk is taken only from a full ring, since only a full ring starts the playing and from then on one comes
for each that goes. It holds across the handler because that touches neither the ring nor the flags of the loop. For `InOrder`, `RingAges` gives the age of each slot: of two chunks that follow each other at most one was refused,
so the ages in the ring are less than `2 * Max`, and chunks counted modulo `MaxChunks` can be told apart.
- *uartd*, for every size of its fifos and of a read. A frame is complete when the first newline after its head is there, which what comes later cannot change; so a frame is a place in the stream, and a read passes exactly
the places up to the head or the newline it stops at (`UartReads`). On the way out, `RepliesWhole` survives a reply that is written in two parts.
- *gsensor*, for calls at any moment. `StateHasThread` is inductive by itself. `SensorAlone` holds until a function is registered while a thread leaves: there is one thread at most, the two flags of the callers contradict each other nowhere but
between its last two stores, and it polls with the device on or is to release it. `SensorSlots` bounds the functions a thread has counted by the slots it has passed.
- *gyrosensor*, with every failure. `GyroStages` says at which stage of its way out the thread is that somebody with the mutex joins, and what a failure on the way (of the thread, of the disable) has left behind until the next thread ends well.
- *Board*. What the two programs that set the charge light know of the charger is what their last event says; the settings that are under way, in any interleaving, end with those of an unplugged board (`SetsAreRight`); the lamp is set by one program only.

`ServicesProofs` proves every safety property of `services_each`. It begins with `Supervises`, for any programs, configuration and bounds. Since the table's mutex makes one job of everything, the invariants say what holds at each place of a job:
`Typed`; `Drained` (behind the signals of a stop no instance is still to come) and `Leaving` (how far the exit command has come: the tasks before the one at hand are stopped), which give `ExitStopsAll`; `Awaited`
(an instance that is still to come is the one the job waits for, unless an earlier wait was given up), which gives `OneInstance`; and `TwinsKnown`, which with `Drained` carries `StopSticks`. `ProgramFacts` says that no step of a program by itself
brings back what is gone, `StepEffect` what a step of the job does to the table and its program. The two exceptions are in the properties themselves: `StopSticks` does not speak of names that were in the table twice, because `stop` stops only the first of
them, nor `OneInstance` of a program whose start was given up before it came up.
For *SockServ*, `HttpStages` relates the list, each client's state and the place of its handler, and `HttpOwns` says which descriptors a client owns at each place: until a `Stop()` has met a handler that closes its client itself (`crossed`), no two own the same number.
For the servers of *ut_socket*, `SockInv` needs that a slot is free as long as somebody is not in the table, which is counting: the table has at least as many slots as there are peers (`Cardinality(Conns) <= Size`).

`UtilsProofs` and `StreamProofs` prove every safety property of `utils_each`.

- *DllFifo* implements `Deque`, for any set of nodes and whatever a freed node is used for again. `ListInv`: the nodes in use are those of some sequence, each once, and are linked both ways in its order (`Chain`, `Links`). `Walk` of such a list is that
sequence, so the abstract state is the data along it (`ContentsIs`); `PutIn` and `TakenOut` are the two things that can happen to the sequence, `Threaded` and `Unthreaded` what they are to the links, and each operation of the list is one of them at some place.
- *alsa_ctrl*, for every size of buffer and chunk: after a pause the device is paused or dropped, and with the abort flag set no chunk is being written, since every call but the writer's own loop waits for the mutex (`Settled`).
- *dfq_fifo*, for any number of threads: whoever was woken to write was so by another writer (`WokenByAnother`), so a single one looks at the size again.
- *vad_op*: the count is that of the chunks in a row, loud or silent by the status (`VoiceInv`).
- *The device of allPlay*: the frames taken and those to come make up the chunk (`SoundFrames`), and who may have dropped the device when (`SoundStages`).
- *Rings*, for every capacity and with clears, short syncs and repeated queries anywhere. `RingShape` and `RingChunks` (the ranges of the places, and which side has a chunk of its own and how long that is) always hold, and `StaysInTheRing` follows. `RingStream` holds until a clear
comes between a query and its sync: what waits is the stream, byte by byte, and so is what the writer has put down and the reader was granted. For `csrb` that takes sizes that fit (`Whole`); `RingFits` is why it gets by with its mirror: reads that divide the capacity never cross its
end, and otherwise a read starts at the latest a common divisor of read size and capacity before the end, the only place where numbers come in (`Multiple`, `GcdDivides`).
- *autom*: what a reader is owed is the end of the block, but for what a cut took (`BlockOwes`), across growth, reset and cut; the block has room for its bytes and their end, but between a cut and the next growth (`BlockSizes`).
- *user_fifo*, for every size of pipe and buffer. Buffer and pipe together are one row of frames in the order they were written, the first of which may have lost its head (`FifoRow`); a read moves the border, the parser takes from the front, and only
crashes, a pipe that nobody has open and a full buffer take away anything else (`NoneElseIsLost`).
- *Base64Tool*, for files of any length and blocks of any two sizes. The codes are given by position: character `k` of a line belongs to group `(k + 3) \div 4` (`GroupIs`), and three bytes are back after four characters, the incomplete group at the end
too, by its pads. So a line decodes to its block; every line but the last has the whole block, line `i` begins after `(i - 1) * eniBytes` bytes (`CodeLines`, `CodeRead`), and what has been decoded is the file up to there (`CodeGiven`). If a line does not fit the
decoder's buffer, what is left of it are whole groups, and so a beginning of its block.
- `TypesOK` follows from the invariants of the parts. It is stated for `~WalkEmpty`, as in the run: walking an emptied list reads a freed node, which has no type.

The composed modules are proved through `UtilsSteps` and its like: a step of the composition is a step of one part and a stutter of each other one.

Some parts of the model were changed so that they could be reasoned about, and two because of a proof. `Uartd` defines a frame by its places in the stream, `DllFifo` its walk as a function, `Base64Tool` its codes by position and `DepClosure` the
recursion as a stack, where all had been recursive; the sets of threads, connections, nodes and packages are assumed to be finite, as they are in the code. The proof of `InOrder` showed that its numbers of chunks must be more than twice the slots
(`MaxChunks > 2 * Max`, before `Max + 2`): TLC finds `InOrder` violated for 4 slots and 7 or 8 numbers, where an old chunk has the number of a new one. This is about the model's numbers, the code has none. And the proof of `ListIsClosure` showed that
`SUBSET Known \ {{}}` is not read the same way by every tool, which `Acyclic` now puts in parentheses.

Model-checked only: every liveness property (outside the prover's reach, as `ENABLED` is) and the two violations. Every invariant and every other action property of the passing runs is a theorem.

## What is not modelled

`components` in `PROJECT.json` gives the status of every part and what of it is left out. As a whole:

- *HttpCli, Broadcast, RecvBc*: `IsFdWriteable` and `IsFdReadable` return 0 for a descriptor that is ready (`HttpCli.h:60,122`), so nothing is ever transferred that a property could be about.
- *MemPool*: nothing in the repository calls it; get and put are one lookup under a mutex.
- *Timers*: thin wrappers of `timer_create` and `timer_settime`.
- *Mixer, logging, string helpers, `psensor`, `tsensor`, `BinSplit`, `CrcTool`, `UrlContex`, opening and configuring ALSA devices*: no state that steps of two actors share.
- *Small tools* and *package scripts*: one-shot commands and third-party recipes; the dependency lists of the latter are the data of `DepClosure`.
- `gyrosensor/gsensor.c` and `uartd/RtPlayer.cpp` are near copies of `sensor/gsensor.cpp` and `RtPlayer/RtPlayer.cpp`, which are modelled.

`csrb`, `dll_fifo`, `dfq_fifo`, `autom`, `vad_op` and the servers of `ut_socket` have no callers in the repository; their models enumerate the calls their headers offer.

## What is left

- `RtPlayer` on `AlsaCtrl` in place of its own, shorter account of the four calls.

## How to run

    tlc -workers 2 -config MCAudioPlayer_api.cfg MCAudioPlayer
    tlc -workers 2 -config MCServices_each.cfg MCServices
    tlapm ServicesProofs.tla
