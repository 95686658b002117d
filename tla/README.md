# Linrad: how its threads work together

Linrad is a software-defined radio receiver. Samples arrive from an A/D converter, a network or a file, pass through a chain
of transforms, filters and resamplers, are shown in graphs and come out of a loudspeaker. Each stage is a thread. The threads
have almost no locks: they share plain variables, ring buffers, one *command* and one *status* flag per thread, and events that
are a single bit. Everything hard in this program is in the order in which these plain variables are read and written, and that
is what is modelled here. Signal processing, drawing and device registers are not.

Line numbers are those of the files under `src/`.

## 1. The system

### 1.1 Components

| Component | State it keeps | Operations | Talks to | Correct when |
|---|---|---|---|---|
| Threads and events (`lxsys.c`, `thrvar.c`, `thrdef.h`) | `thread_command_flag[]`, `thread_status_flag[]`, `thread_waitsem[]`, one flag per event | `linrad_thread_create`, `lir_set_event`, `lir_await_event`, `lir_join`, `lirerr` | all | no event is lost or taken for another |
| Input threads (`rxin.c`, `lsetad.c`, the drivers) | ring `timf1`: `timf1p_pa`, `timf1p_pb` | `finish_rx_read` for each block | set EVENT_TIMF1, EVENT_SCREEN | never wait for a consumer |
| `wideband_dsp` and the workers `do_fft1b` (`wcw.c`) | `timf1p_px`, `fft1_pt`, `fft1_pa`; per worker `ptrchk_fft1b`, `inptr_fft1b`, `out_fft1b` | hand out blocks, collect transforms, pause, stop | input, later stages, TX test, user | transforms appear complete, once and in order |
| Later stages (`fft1.c`, `timf2.c`, `blank1.c`, `fft2.c`) | rings fft1, timf2, fft2 | as above with one thread each | `narrowband_dsp` | same |
| `narrowband_dsp` (`wcw.c`, `mix1.c`, `fft3.c`, `mix2.c`, `baseb_graph.c`) | `new_baseb_flag`, `baseb_reset_counter`, baseband buffers and their sizes | process, mouse tasks, reset | `rx_output`, user, network | resets never disturb a playing output |
| `rx_output` (`rxout.c`) | ring `daout`, `dasync` averages | play, pause, wait for start, re-open the soundcard | `narrowband_dsp`, main thread, SYSCALL | starts on filled buffers, always comes back |
| `thread_screen` (`screen.c`, `screensub.c`) | the `sc[]` counters, the screen | draw what is due 10 times per second | everyone who draws a window pauses it | never draws under somebody else, never stops for good |
| SYSCALL: `do_syscall`, `sys_func` (`ui.c`) | its flags and EVENT_SYSCALL | open, close, start soundcards and radios | main thread, input, output, TX | each caller gets its own job done and returns |
| Session (`menu.c`: `normal_rx_routine`; `ui.c`: `linrad_thread_stop_and_join`, `kill_all`) | `all_threads_started`, `kill_all_flag`, `lir_errcod` | start all threads, wait for X, stop them in order; ESC or a fatal error kills all | all | ends from every state |
| Raw files (`rxin.c`: `write_raw_file`, `rx_file_input`) | own pointer into `timf1`; `audio_dump_flag` | write the input, replay it in real time or (F3) as fast as possible | input, DSP threads | nothing lost, no waiting for each other |
| Network (`network.c`) | block number and pointer, slave list | multicast, fill gaps, serve slaves | input, `narrowband_dsp` | receiver and sender stay in step |
| Keyboard, mouse, commands (`lmain.c`, `ui.c`, `users*.c`) | ring of 64 keys, `mouse_task` | dispatch | pauses the screen, asks for resets | no key lost, nobody waits for a key that is there |
| Transmitter (`tx.c`, `txssb.c`, `txtest.c`) | rings mic, clip, alc, txout | `tx_input`, `tx_output`, TX test | pauses `wideband_dsp` | as the receiver |
| Radio drivers, calibration, set-up dialogues, FFT primitives, spur removal, fonts, vendored code | – | – | – | not the subject here, see section 8 |

### 1.2 What is hard

* **One bit, several meanings.** The event of a worker means "here is a task", "your result has been taken" and "stop"; that of
  SYSCALL means "a command", "I have seen your result" and "stop".
* **Flags that are still what they were.** `pause_thread`, `sys_func` and `narrowband_dsp` take a status for an answer to a
  command they have just given; it may be left from the last one.
* **Test, then set.** Every claim on a thread is a test of a flag followed by an assignment, with nothing in between to keep
  others out.
* **Commands that are overwritten.** X, ESC, a pause, a resume and a TX test all write the same command flag.
* **Everybody waits for somebody**: for a status, an event, a ring pointer. Some waits are counted and become a fatal error,
  some look at `kill_all_flag`, some do neither.
* **Threads are stopped in an order** (`menu.c:890-914`) in which some that are stopped early are still used by others.

`PROJECT.json` lists each of these hazards at the line where it bites, with the properties that watch it.

## 2. Modules

| Module | Models | Extends / instantiates |
|---|---|---|
| `LirEvent` | `lir_set_event`, `lir_await_event`: a flag that is consumed | – |
| `Fft1Ring` | positions and distances in a ring of blocks | – |
| `Fft1Pool` | `wideband_dsp`'s dispatcher, its workers `do_fft1b`, and who pauses and stops them | the two above |
| `Fft1Stream` | what the pool promises: an ordered stream, every block shown in its turn | `Fft1Ring` |
| `MCFft1Pool` | the VIEW that makes the pool's instances small | `Fft1Pool` |
| `Fft1PoolProof`, `Fft1PoolOrder` | type correctness; order, handshake and refinement of the pool | `Fft1Pool` |
| `ScreenControl`, `ScreenProof` | `thread_screen`'s control, `pause_thread`, `resume_thread`, stop and kill | – |
| `SysCall`, `SysCallProof` | `do_syscall`, `sys_func`, the input thread that polls, stop | – |
| `RxOutput`, `RxOutputProof` | `rx_output`, the part of `narrowband_dsp` that resets it, `halt_rx_output`, the main thread's start and stop, `kill_all` | – |
| `Session`, `SessionProof` | `normal_rx_routine` and `main_menu` with up to nine threads, the thread `kill_all`, `lirerr`, the keyboard | – |
| `NetStream`, `NetStreamProof` | the stream of packets from `finish_rx_read` of one Linrad to the input threads of another | – |
| `Replay`, `ReplayProof` | `rx_file_input`, `wideband_dsp`, `do_fft1c` and `narrowband_dsp` on the rings timf1 and fft1 | `LirEvent`, `Fft1Ring` |
| `MCReplay` | the instances and the VIEW of `Replay` | `Replay` |

The modules do not share variables because the threads do not either: each component has its own two flags and its own events.
Where two components meet (SYSCALL opens the soundcard for `rx_output`; `narrowband_dsp` pauses the screen inside a reset) the
call is one step of the caller. `Session` and `Replay` each put together, more coarsely, threads that other modules have in detail.

### 2.1 Grain of atomicity

An action is the code between two points where another thread can see or change something that matters: one read or write of a
shared flag, with the local work before it. Where an action reads two flags, no other thread writes either of them in between,
or the difference cannot be told by anybody; the module says so where it is not plain. Sleeps and yields are not actions: they
are the gaps between actions. Memory is sequentially consistent, as on the x86 machines for which the assembly was written; a
compiler that keeps a flag in a register would break more than is shown here.

### 2.2 Windows

Some misbehaviour needs two threads to hit a window of a few instructions, or a user who acts within a fraction of a second.
It would be easy to let all of these happen at once, and then nothing at all could be said. Each module therefore has a constant
(`Disturbances`, `Overlaps`) naming what may happen besides the regular course, at the head of the module, each with its lines.
The passing runs say what holds without a window, or with the ones that are harmless. A closed window is a guard that mentions
the constant, and nothing else in the module depends on it. Where a run says "at any moment", it means any moment that no closed window
takes away. A closed window is no claim about the program: section 6 gives what each one breaks.

### 2.3 The pool (`Fft1Pool`)

| Code | Model |
|---|---|
| position in `wideband_dsp` (660-1207) and `do_fft1b` (602-624) | `pc`, `i`; `wpc[w]` |
| `timf1p_px`, `timf1p_pb`, `fft1_pt`, `fft1_pa` in bytes or floats | positions in units of one block |
| sample data, `fft1_float` | `fft1_float[s]`: which block's transform slot s holds, or `Invalid` while it is being computed |
| 660-715 start, 732-757 restart after a pause | `FirstInput`, `CreateWorker`, `WorkerReady`, `Restart`, `Settle` |
| 782-834 wait for EVENT_TIMF1 | `GoToSleep`, `WakeUp`, `ServeMouse` |
| 1003-1043 give blocks to free workers | `SkipBlock` (F5), `StartAssigning`, `Assign`, `PassOver`, `AssignedAll` |
| 1043-1164 find the oldest, collect, publish | `Age`, `Oldest`, `Collectable`, `Collect`, `CollectedAll` |
| 1164-1207 pause, stop | `LeaveLoop`, `BecomeIdle`, `StayIdle`, `SkipWhileIdle`, `StopWorker`, `PostAgain`, `ReleaseWorker`, `JoinWorker`, `Return` |
| `finish_rx_read` 1213-1224 | `Input` |
| X, ESC, F5 | `StopWideband` ..., `KillAll` ..., `ToggleF5` |
| G in the TX test: `pause_thread` (`gifsave.c:957`), `txtest.c:334-349` | `TxTestAsk`, `TxTestPause`, `TxTestPaused` ... |

A picture is asked for before the TX test gives `wideband_dsp` the command IDLE, and X and ESC may come in between: `TxTestPause` then overwrites
what they have written, as `txtest.c:338` does, unless `kill_all` has told the TX test itself to end first. `StopWorker` for a thread that was
never started calls `lirerr`, which holds the caller until `kill_all_flag` is set, as at `ui.c:574`. `"hasty"` is G before the first input:
`wideband_dsp` takes any command but ACTIVE for its end then (712-731) and returns without being IDLE, for which the TX test waits.

`issued` is a history variable: the blocks handed out and not yet published. Abstracted: the claim of `thrnum` slots, the wait for
the screen at 716-731, the settling after a restart (in the code three passes, during which blocks are thrown away, become one), and the test whether all workers are busy, which
scans their flags one after the other and only decides whether to sleep. `SkipBlock` carries the only real-time assumption: while
blocks are skipped, a worker finishes before the ring has gone round (a second or more) unless `"slow"` is among the disturbances.

### 2.4 The screen (`ScreenControl`)

`spc` follows `thread_screen` (2436-2946) statement by statement where it reads its command; `ppc[p]` follows each thread that
calls `pause_thread` (501-550), draws, and calls `resume_thread` (557-559); `stop` and `kill` are the main thread in
`linrad_thread_stop_and_join` (568-605) and the thread `kill_all` (400-478). The tests at the entry of `pause_thread` are one step.
The counted wait for another pauser (509-520) is `BusyWait` and `GiveUp`; `lirerr` holds the thread until `kill_all_flag` is set.
The bound of 500 rounds in `kill_all` is left out: `KillReturns` says that it is never needed.

### 2.5 SYSCALL (`SysCall`)

`pc` follows `do_syscall` (84-168) from its first status ACTIVE (`Begin`), `cpc[c]` each caller of `sys_func` (174-189), and `input`, `wanted`, `local` and `applied` the
input thread that has no time to wait and polls (`sdrip.c:841-872`, and the same in `afedri.c`): it posts when the thread is free
and collects when the status is IDLE and the command is its own. The command (or the release) and the event are two steps for it too
(`PollPost` or `PollCollect`, then `PollSignal`). `applied` is a history variable, the setting that was sent.

### 2.6 The loudspeaker (`RxOutput`)

`rpc` follows `rx_output` (268-778), `npc` `narrowband_dsp` (1269-1842) with `halt_rx_output` (`baseb_graph.c:182-208`) and
`pause_thread` inlined, `mpc` the main thread (`menu.c:684-770` and `890-914`). `reset` stands for the difference of
`baseb_reset_counter` and its local copy, which is all that is ever asked of it. `new_baseb_flag` goes 3, 2, 1, 0 in steps: data
arrive, then enough, then not too much, then play. Not in the model: the helper BLOCKING_RXOUT, failing soundcards, the amount of
data in the rings, the pauses of the screen inside a reset. The status ACTIVE (`rxout.c:268`) comes before the soundcard is opened (275), which
takes up to a second.

The counted waits are all there: for a status of RX_OUTPUT (`lirerr` 1167, 672954, 564292), in `pause_thread` for another pauser (1224), for the
baseband to be filled (1058, `wcw.c:1746`) and for the soundcard to take what it has (1199, `rxout.c:378`). They have one guard for real
time: a thread that is running towards what is waited for, with nobody in its way, gets there before the count runs out, unless `"slow"` is
among the windows. When a wait does run out, `lirerr` holds the thread until `kill_all_flag` is set, and then the code goes on
as it does there: `halt_rx_output` returns to its caller, which carries on with the reset (`HaltReturns`).

### 2.7 The session (`Session`)

`mpc` follows the main thread through `main_menu` (`menu.c:2703-2921`) and `normal_rx_routine` (652-923), `kpc` the thread `kill_all`
(`ui.c:400-474`), `tpc[t]` each processing thread, of which only the flags are left: created, started, ended. `keys` and
`key_event` are the ring of keys and EVENT_KEYBOARD, which `aw_keyb` (`ui.c:665-679`) and `test_keyboard` (1368-1382) use in
different ways. Keys are pressed at any pace: a key is stored, and its event is set 10 ms later (`KeyPress`, `KeyEvent`), whether or not the one before
has been read, so that one event may stand for several keys and a ring that is one too full looks empty. `ClearTest`, `ClearKey` and `PromptKey` are
`prompt_reason` (`menu.c:925-934`), which the menus call when the parameters do not fit. `ErrTest` and `ErrStore` are `lirerr` with the gap between its test and its store; the pause of 10 ms with which
`kill_all` begins closes that gap, and is the one thing about time in the module.

### 2.8 The network (`NetStream`)

`j`, `netsend_ptr`, `next_blkptr`, `blknum` are the sender's; `wire` is a sequence of packets, of which the network drops, doubles and
swaps some (`Lose` is also what the sender does itself if the socket is not ready). `packet`, `netrd_ia`, `netrd_ib`, `block_cnt` are
the receiver's, `left` is what is still to be filled in of a gap. A sample's content is its position: `Exact` says that it
comes to the same position of the receiver's block. The formats differ in how much they fill in: `Stored` and `Packed` are
the sizes that the code mixes up, so that 16 and 18 bits and TIMF2 fill twice the gap, and 24 bits never ends (`Endless`).

### 2.9 Playing a recording (`Replay`, `ReplayProof`)

| Code | Model |
|---|---|
| `rx_file_input` (`rxin.c:1270-1370`), `finish_rx_read` | `fpc`: `paced` in real time, `wait` after F3, the two waits for the other threads, `read` |
| `wideband_dsp` (`wcw.c:782-1118`), with and without workers | `wpc`; `working` and `finished` count the blocks the workers have, since `Fft1Pool` has their order |
| `do_fft1c` (449-496) | `cpc`, `posted` |
| `narrowband_dsp` (1359-1842) | `npc`; `MixFixed`, `MixAfc` (which waits for `afc_tpts` transforms, 1569), `SkipAll`, `Reset` and the wait for input at 1770 |
| rings timf3, fft3 and baseb | `timf3`, `baseb`: how many transforms are in them |
| F3, a reset, X, ESC | `F3`, `AskReset`, `PressX` ..., `Esc`, `KillRound` |

`fft1_nm` counts the passes of `wideband_dsp` (1088) and `afc_tpts` is what AFC wants to have seen of them (`afc_graph.c:576`): until then
`narrowband_dsp` mixes nothing and keeps trying (1577). F3 in that time is the disturbance `"early"`. A worker takes a new block when it waits for
one (1027-1028): `leaving` counts those that have been collected and do not wait yet.

The unit is a block of samples and the transforms made of it. `filled` and `ahead` are history variables: the true distances between
the ends of the two rings, which the code knows only modulo their size. `KeepsUp` is what "real time" means: the next block comes when the
other threads sleep. The two waits of `rx_file_input` for the threads to settle (1283-1330) are counted; in a passing run they end as the threads do, and only under `"early"` and
`"stop"` may they run out (`lirerr` 88777 and 88779). The reader sees `timf1p_px` move (1078, or when a block is handed out) before `fft1_na` does (1087); `fft1_na`,
`fft1_nm` and the events are one step (`Publish`), and of a worker's work there is only the end (`WorkDone`). Left out: the screen's status in the first of
the counted waits and the wait for the second FFT (88778), the formats of the file, its end and its pause, the second FFT, the time that `narrowband_dsp` lets
pass between `new_baseb_flag` 3 and 1, and the sleeps of `wideband_dsp` after mouse tasks.

## 3. Runs

| Run | Instance | States | Shows |
|---|---|---|---|
| `pool_order` | 2 workers, rings of 4 and 3, input may lap the reader, F5 | 593 606 | `TypeOK`, `ComputesOnlyAssigned`, `PublishesInOrder` |
| `pool_stream` | 2 workers, rings of 4 and 3, mouse tasks, fair | 45 507 | `ImplementsStream`: the pool refines `Fft1Stream` with its liveness |
| `pool_end` | 1 worker, rings of 2 and 2, input may lap the reader, X, ESC, TX test, fair | 155 925 | `StopReturns`, `PauseReturns`, `KillReturns` |
| `screen_pause` | 2 pausers, no window, X and ESC, fair | 3 930 | `TypeOK`, `AtRest`, `PauseReturns`, `KeepsDrawing`, `StopReturns`, `KillReturns` |
| `syscall` | 2 callers, 1 setting, start and stop of the input, ESC, fair | 35 948 | `TypeOK`, `Served`, `CallReturns`, `SettingsReachHardware`, `StopReturns` |
| `rx_output` | no window; resets, mouse tasks, drift, X, ESC, fair | 91 763 | `TypeOK`, `AtRest`, `NoError`, `StartsFilled`, `SoundReturns`, `StopReturns` |
| `rx_kill` | windows "early", "late", "slow", fair | 617 308 | `KillReturns`, also when counted waits have run out |
| `session` | with and without the transmitter, one thread that may fail, room for 2 keys at any pace, X and ESC, fair | 608 420 | `TypeOK`, `EndsClean`, `KeepsFirstError`, `KeysRead`, `KillEnds`, `XEnds` |
| `net_stream` | 5 formats, blocks of 4 and packets of 3 samples, 7 packet numbers, 2 packets on their way, 2 faults, fair | 913 010 | `TypeOK`, `Exact`, `LateNotFilled`, `Recovers`, `StopReturns` |
| `net_raw24` | one packet lost in a format of 24 bits | violated | the input thread fills in zeros for ever |
| `replay` | no worker without AFC and one with AFC, rings of 5 blocks and 12 transforms, F3 when AFC has begun and no reset is under way, resets, X and ESC in real time, fair | 417 023 | `TypeOK`, `Intact`, `PlaysOn`, `Ends` |
| `replay_kill` | no worker, X and ESC at any time | violated | X and ESC after F3 hang |

**Why these bounds are enough.** Two workers are the least for which order is a question; with two, one can overtake the other any
number of times, since nothing in the model counts. The rings are one block longer than the number of workers or two, so that the
pointers wrap, the ages of blocks wrap (F5), and the input meets the reader from behind. `pool_end` is about the handshake between
one dispatcher and one worker, which the code does for the workers one after the other. Everything about the order is proved for
all sizes (section 5). Two pausers can do to each other what a pauser does to any other; more are covered by the proof. Two callers
of `sys_func` are the least that can collide. `RxOutput` has no size at all: its run covers every behaviour of the model with the
windows closed, and the proofs those with the harmless ones open.
In `Session` the threads differ only in when they are started and stopped; the ring holds two keys (`KeyboardSize` 3), the least with which a key
can be stored behind one whose event is set, and few enough for the key which ESC adds to find it full. SCREEN and the server are left out of the instance: they start and end as the others do. In `NetStream` packets and
blocks have no common divisor, so that a packet begins anywhere in a block; two faults are what it takes to lose a packet and to move the
one that would repair it; 7 numbers are few enough to wrap within the gap that is filled, and a gap of 8 samples (`Limit`) is longer than
two packets; what does not depend on these numbers is proved. In `Replay` a quarter of fft1 is 3 transforms, more than `wideband_dsp` waits for
without a worker, so that both its wait and the reader's are met, and a quarter of timf1 is more than one block, the least with which
the reader can go on at all. Delay, room and what is mixed again after a reset are one each: the smallest that are not nothing; AFC begins with the third transform (`afc_tpts`),
when a quarter of fft1 has been filled.

The runs `pool_order` and `pool_end` use `PoolView`, the runs of `Replay` `ReplayView`: pointers are replaced by their distances, which is a
bisimulation, as every guard compares pointers only with each other. The refinement is checked without it.

`CHECK_DEADLOCK FALSE` stands only where the program really ends (`SysCall`, `RxOutput`, `Session`, `NetStream`, `Replay`); elsewhere the end is a stuttering step (`Stopped`) or
the environment goes on.

Every property of a passing run has a mutant in the module it is about (definitions whose comment begins with "Mutant"): a plausible
bug of that code, such as a flag not set before a wait or an event posted once instead of repeatedly, with which TLC finds the
property violated.

## 4. Fairness

* Every thread runs: weak fairness of each thread's step. There is no priority inversion to model, because no thread holds a lock.
* The input goes on (`Input`, `Awake`): an A/D converter does. Where the code stops it (after RX_OUTPUT), the model does.
* `kill_all` and `linrad_thread_stop_and_join` repeat what they do in a loop that sleeps for milliseconds: weak fairness.
* After `lirerr`, `kill_all` runs: it is posted EVENT_KILL_ALL (`lxsys.c:468`).
* The TX test goes on once it has asked for a pause; whether it asks is the user's choice.
* A thread that has paused the screen finishes its drawing and resumes it.
* Strong fairness in two places. In `ScreenControl` the wait for another pauser samples a flag every 5 ms, at most 100 times, and
  a test that can be repeated is not always hit in the one window that is closed to it. In `SysCall` the wait for SEM_WAIT samples a
  flag every 3 ms while commands come seconds apart. A flag that is up again and again is seen.
* `Session`: the menu, `kill_all`, `user_command`, the thread of the keyboard (which sets the event of a key it has stored) and the other threads go on; keys, X,
  ESC and errors are never fair.
* `NetStream`: the master sends and the slave receives. Without a master that sends, `StopReturns` fails (`network.c:663`).
* `Replay`: each thread goes on, the reader too: a file does not run dry, and in real time the clock goes on when the others have done
  their work, or when `narrowband_dsp` has nothing to do but to wait for AFC to begin.
* The counted waits are not fairness: in the passing runs they do not run out on a thread that is on its way (2.6, 2.9), but for `rx_kill`, where all may.
* Users promise nothing: X, ESC, F5, G, resets and changes of settings are never fair.

## 5. Proofs

All theorems are checked by TLAPS for every value of the constants that satisfies the named assumptions (`PoolAssumption`,
`OverlapAssumption`, `SysCallAssumption`, `RxOutputAssumption`, `SessionAssumption`, `NetStreamAssumption`, `ReplayAssumption`), which
say no more than that the rings hold more blocks than there are workers, that sizes are numbers, that the names of commands differ, and
that the transmitter has both its threads or none (`use_tx`, `menu.c:725` and 895). A window that has to stay closed for a theorem is a
hypothesis of it.

**The pool** (`Fft1PoolProof`, `Fft1PoolOrder`). `TypeCorrect` holds for all disturbances. The other theorems are for `Calm`
reception: `Disturbances` within {kill, mouse, overrun, slow}. None of the safety properties is inductive: that the released
block is the oldest follows only from how three records of the blocks under way agree. `IInv` says that they do:

* `SlotsMatch`: the distance from `fft1_pa` to `fft1_pt` is the number of blocks under way;
* `BlocksMatch`: these are the last ones before `timf1p_px`, in order;
* `TasksMatch`: each has exactly one worker, whose slot and input pointer belong to it;
* `WorkMatches`: a worker computes only its own task, and once it says so its slot holds the transform;
* `Handshake`: where each worker is, given its status, its task and its event, until `kill_all`;
* `Undisturbed`: what `Calm` excludes does not happen.

From `TasksMatch` and `BlocksMatch` the ages of the blocks under way are distinct and the largest belongs to the slot at
`fft1_pa` (`CollectsFirst`): `CollectsOldest`, `PublishesOldest`. With `WorkMatches`: `WritesOnlyUnpublished`. With `Handshake`:
`TasksArrive`, which is `ComputesOnlyAssigned` and `PostsMatch`. `StreamSafety`: initial states and steps of the pool map to initial
states and steps (or stutters) of `Fft1Stream`. That there are never more blocks under way than workers (`FewIssued`) is a counting
argument with the theorems on finite sets.

**The screen** (`ScreenProof`). `AtRestAlways`, for any number of pausers, if none passes the test abreast of another and none pauses a
thread that is being stopped. `IInv`: a claim stays in the command until its owner takes it back (`ClaimsTrue`), the status tells where
the thread is (`StatusTrue`), and who else may have written the command (`EndTrue`).

**SYSCALL** (`SysCallProof`). `ServedAlways`: `Served` and `WorksForCaller`, for any number of callers, settings and changes, if a command
that has been given is seen before another thread takes the thread for free (`NoCrowd`). `IInv` adds `OneCommand` (from the post to the
release the command belongs to one caller), `Progress` (how far its job has come, and that the IDLE of the last one is gone),
`Backed` and `IdleTrue`.

**The loudspeaker** (`RxOutputProof`). Each property with no more windows closed than it needs: TLC finds a counterexample when one
more is opened. `StartsFilledAlways`: `StartsFilled`
without "again". The buffers are shared without a lock, and what keeps the threads apart is that nothing but the command ACTIVE leads
`rx_output` out of its wait. `IInv` follows that command:

* `OutputTrue`: where the thread can be while its status still says SEMCLEAR;
* `FilledTrue`: as long as the buffers are not complete, `rx_output` is parked or on its way out (`Silent`, `Parked`);
* `ResetTrue`: no reset begins or is asked for between the last look at the counter and the first sample. This makes a status SEMCLEAR
  that `narrowband_dsp` finds a true one (`SemClearParks`), and is what "again" breaks.

`AtRestAlways`: `AtRest` without "again" and "early", with X in the middle of a reset, fatal errors in `halt_rx_output` and slow devices allowed: these
make threads hang, but never let them share the buffers. It adds `EarlyTrue`, as `halt_rx_output` does not wait before all threads
are started, and `RestTrue`. `NoErrorAlways`: `NoError` without "again", "early", "late" and "slow". It needs to know at each step of
the start and of a reset which of the two threads has done what (`StartTrue`, `StepsTrue`), and that nothing is asked for during the stop
(`StopTrue`); after `kill_all` none of this holds, and nothing is counted any more.

**The session** (`SessionProof`), for all set-ups of up to nine threads, any of which but `user_command` may fail, and any size of the ring
of keys; the run has seven of them and one that fails. `EndsCleanAlways`: `EndsClean`, and `MenuAloneAlways`: in the menu no thread of a
session is alive. Two things carry the argument. The list of the threads that are still to be stopped (`todo`) names each thread of the session once
(`TodoTrue`: the orders of `menu.c:899-914` and 652-665 agree on who takes part), so a thread is on the list or gone (`Accounted`).
And unless `kill_all` comes, nobody but main takes a thread off (`Kept`), so that `linrad_thread_stop_and_join` meets no thread
that was never started (`NoStopError`). `FirstErrorKept`: `KeepsFirstError`, as a thread that has passed the test in `lirerr` stores its
error before the first round of `kill_all` (`StoresTrue`).

**The network** (`NetStreamProof`). `TypeCorrect`: no position leaves its block, whatever order packets come in. `StreamExact`: without a
fault, every sample comes to its place and no packet is found missing, for every size of block and packet and every count of numbers;
the invariant is that each packet on its way begins where the one before it ends, and that the receiver's place and number are those of
the next one. `LateIgnored`, for any number of faults: a late packet is never answered with zeros. It needs `Roomy`: the numbers must
reach further than the packets on their way and the gap that is filled in together, or else a late packet looks like a short gap; with 65536
numbers they do.

**Playing a recording** (`ReplayProof`). `NothingOverrun`: `Intact` for every size of the rings, every number of workers, with and without AFC,
in real time and after F3. It needs `Roomy`: none of the disturbances of section 6, and rings that hold what may be under way. What may be under
way follows from `IInv`:

* `InOrder`: the pointers of each ring keep their order, and the distances computed with the masks are the true ones;
* `LittleLoad`: `Load`, the transforms in fft1 plus those that the blocks in timf1 and with the workers will become, stays within three blocks of
  `Base`. Transforms leave it as it is and mixing lowers it; only a block that is read and a reset raise it (`NoMore`). When a block is read it is
  at most `Base`, or `narrowband_dsp` waits for just this block (`Ready`);
* `WideRests`, `Fft1cRests`, `NarrowRests`: in real time nobody looks at the rings, and `Ready` rests on the other threads being asleep; who sleeps
  with its event down has nothing left to do, which is true only because no event is set before what it tells, or lost;
* `FewFilled`: the same for timf1 alone.

`Roomy` is what the argument needs, not more: a quarter of fft1 (or what AFC keeps, waits for before it begins, or a reset mixes again, if that is more) and a quarter of timf1
and the blocks of the workers and three more blocks fit into fft1. The code does not compare them: `buf.c:612` takes the size of fft1 from a
parameter of the user and `buf.c:703` that of timf1 from the time a disk may need. The instance of the run `replay` satisfies it.

**Only model-checked**: all liveness properties, which rest on fairness and `ENABLED`; the liveness part of `ImplementsStream`; and
`PublishesInOrder` under F5, where `OldestFirst` fails and the argument above with it. Every invariant and every action property of a
passing run is stated by a theorem.

`OldestFirst`, `PostsMatch`, `WorksForCaller` and `MenuAlone` are proved and not part of a run.

## 6. What goes wrong

Kept as runs, each with the line of the documentation or comment it contradicts (`findings` in `PROJECT.json`):

* `net_raw24` (`network.c:1060`): the loop that fills a gap in the formats of 24 bits does not count down; one lost packet, and the
  input thread neither receives nor stops.
* `replay_kill` (`wcw.c:1012`): after F3 `wideband_dsp` waits for `narrowband_dsp` without a look at its command. X and ESC stop
  `narrowband_dsp`, first or at the same time, and `wideband_dsp` never returns: X hangs, ESC ends in `abort()` after ten seconds.

Found with TLC in the same way and not kept as runs: each needs no more than the window (or the disturbance) named added to the `.cfg` of the module's run,
and the property named checked. Where no property is named, the run's own ones show it.

| Where | What happens |
|---|---|
| `wcw.c:737`, "txtest" | a restart sets `fft1_pt=fft1_pa` with blocks under way; from then on slots are shown that hold no transform, against `z_BUFFERS.txt:30` ("Valid data are stored in the interval px to pa"); breaks `PublishesValid` (one worker, rings of 4 and 3, input may lap the reader) |
| `txtest.c:349`, "txtest" and "stop" | the TX test resumes `wideband_dsp` without looking whether X has told it to stop; nobody repeats KILL, and X hangs; breaks `StopSticks` |
| `txtest.c:339`, "txtest" and "kill" | ESC while the TX test waits for the status IDLE: `wideband_dsp` returns, the TX test waits for ever, and `kill_all` ends in `abort()`; breaks `KillFreesTxTest` |
| `wcw.c:712`, "hasty" | G before the first input ends `wideband_dsp`, and the TX test waits for ever; breaks `PauseReturns` |
| `wcw.c:607`, "stop" | a worker does not look at its command after it wakes up, and computes its last task again, or with null pointers if it never had one, when it is stopped |
| `wcw.c:1052`, "f5" | the age of a block that F5 has left behind wraps, and a younger one is released first (`OldestFirst`); what is published is still right |
| `wcw.c:1199`, `ui.c:574`, "stop" | X before the first block of input stops workers that were never started: `lirerr(765934)` |
| `lxsys.c:412`, "spurious" | the flag is tested with `if`: a spurious return of `pthread_cond_wait` makes a worker run without a task |
| `screen.c:2938`, "hasty" | resume and pause in quick succession, as in `coherent.c:559-599`, end the screen thread: its last look finds IDLE again, which is not ACTIVE; breaks `KeepsDrawing` |
| `ui.c:508-522`, "abreast" | two threads that make the test together both pause the screen thread, and neither comes to the wait that would report it ("Attempt to pause a thread that was already paused.", `errors.lir:610`); breaks `OnePauser`, `AtRest`, `PauseReturns` |
| `menu.c:908`, `ui.c:559`, "late" in `ScreenControl` | X while another thread pauses or resumes the screen thread: KILL is overwritten, only the event is repeated, and main waits for ever; breaks `XEnds`, `AtRest`, `PauseReturns`, `StopReturns` |
| `sdrip.c:868`, "retune" | a frequency entered while the last one is sent counts as sent; breaks `SettingsReachHardware` |
| `ui.c:176`, "crowd" | `sys_func` looks at the status and not at the command; two commands in the same window (`lsetad.c:1043` and `rxout.c:275` are started together, `menu.c:682-684`) break `Served`, `WorksForCaller`, `CallReturns`, `SettingsReachHardware` |
| `sdrip.c:832`, "leave" | the input thread ends with a command outstanding that nobody collects; the next `sys_func` waits for ever |
| `wcw.c:1509`, "again" | a reset asked for while `rx_output` is told to start finds the status SEMCLEAR of before: `init_baseband_sizes` changes the buffers under a playing output, against the comment at `wcw.c:1393`; breaks `AtRest` |
| `wcw.c:1515-1522`, `menu.c:699`, "early" | a reset before all threads are started meets the main thread's own use of the flags: `lirerr` 1167, 564292 or 672954 |
| `menu.c:906`, `wcw.c:1795`, "late" in `RxOutput` | RX_OUTPUT is stopped before the thread that resets it, which gives it the command ACTIVE after it has gone, or overwrites KILL; X hangs; breaks `StopReturns` |
| `baseb_graph.c:202`, "fatal" | `halt_rx_output` does not look at `kill_all_flag`; breaks `StopReturns` and `KillReturns` |
| `menu.c:702`, `ui.c:510`, `wcw.c:1746`, `rxout.c:376`, "slow" in `RxOutput` | a soundcard that takes more than a second to open, a pause that lasts half a second, a baseband that fills late or a soundcard that does not take its data end the program with `lirerr` 1167, 1224, 1058 or 1199 (`NoError`). After 564292 `halt_rx_output` returns although the output does not rest; by then `kill_all` runs |
| `menu.c:669` | "Make sure that all the threads are running before opening inputs": the four conditions of the wait are joined by `&&`, so that it ends when one thread is ready. With `\|\|` it would never end, since RX_OUTPUT is created later |
| `lxsys.c:746`, `Session` | "stop all processing threads so main can ... exit": after ESC during the start, main may leave while threads that it has just created run on buffers and events it frees (`StoppedBeforeExit`) |
| `menu.c:771-775`, "absent" | X while main waits for an input device that does not appear hangs (`XEnds`); ESC ends the program |
| `ui.c:1373`, no window | two keys before the first is read set the event once. `aw_keyb` does not mind (`KeysRead`), but `clear_keyboard` at the beginning of a prompt waits by `test_keyboard` for the event of each key it discards; it then always lags one key behind, and the prompt "Press any key" (`menu.c:931`) does not go away however many keys are pressed; breaks `AnyKeyWillDo` |
| `menu.c:722-725` | if the soundcard cannot be opened at the start, main joins `user_command`, which sits in `aw_keyb` until a key is pressed |
| `network.c:941`, 998 | 16 and 18 bits and TIMF2 fill in twice as many zeros as are missing; TIMF2 as floats fills `rawsave_tmp`, which nobody reads; the next packet corrects the place |
| `wcw.c:1569`, "early" in `Replay` | F3 before AFC has seen `afc_tpts` transforms: `narrowband_dsp` mixes nothing, `wideband_dsp` waits for it at 1012, and `fft1_nm` is counted up only behind that loop (1088): the file stops for good (`PlaysOn`; `AfcSetup`, `afc_tpts` 4) |
| `wcw.c:1584`, "slow" in `Replay` | after F3, when RX_OUTPUT is slower than the file, `fft1_mix1_fixed` without room leaves `fftx_flag` 0: `narrowband_dsp` sleeps on an event that only `wideband_dsp` sets, which waits for it, and the reader waits for both, even after F3 is taken back (`PlaysOn`); moving the mouse over a graph of the baseband wakes it |
| `wcw.c:1770`, "reset" in `Replay` | a reset while the file is read as fast as possible, or F3 during a reset: `narrowband_dsp` waits for the reader to announce a block, the reader waits for fft1 to be emptied (`PlaysOn`); the same with `filled` or `ahead` skewed, as `clear_baseb` moves `fft1_nb` while `do_fft1c` does (`wcw.c:284`) |
| `rxin.c:1283` against `afc_graph.c:571` | AFC that keeps back more transforms than a quarter of fft1 (or than `wcw.c:1012` allows) stops the file for ever after F3: nothing compares the two; an instance with `Delay` 4 shows it |

## 7. How to run

    tlc -config PoolOrder.cfg MCFft1Pool      (PoolStream, PoolEnd likewise)
    tlc -config ScreenPause.cfg ScreenControl
    tlc -config SysCallOk.cfg SysCall
    tlc -config RxOutput.cfg RxOutput         (RxOutputKill)
    tlc -config Session.cfg Session
    tlc -config NetStream.cfg NetStream       (NetRaw24)
    tlc -config Replay.cfg MCReplay           (ReplayKill)
    tlapm Fft1PoolProof.tla                   (Fft1PoolOrder, ScreenProof, SysCallProof, NetStreamProof,
                                               RxOutputProof, SessionProof, ReplayProof)

Each run takes from a few seconds to three minutes with two workers, `Fft1PoolOrder` about two.

## 8. What is not modelled, and why

* **Signal processing** (`fft0.c` to `fft3.c`, `mix1.c`, `mix2.c`, `blank1.c`, `spur*.c`, `fm.c`, `cw*.c`, the assembly): floating-point
  arithmetic, no finite instance says anything about it.
* **Radio drivers** but for how they use SYSCALL: the devices are not in the repository.
* **Drawing, graphs, parameter files**: geometry and formatting; what they do to other threads (pause, reset) is modelled.
* **Calibration and set-up dialogues**: run alone, when nothing else does.
* **Windows and X11 shells** (`w*.c`, `x*.c`): the same calls on other system interfaces; the models follow Linux.
* **Vendored and generated files** (`hid*.c`, `configure`, `g31ddcapi.h`).
* In the modelled components: what sections 2.3 to 2.9 name, above all the threads TIMF2, SECOND_FFT and BLOCKING_RXOUT,
  `NET_RXIN_FFT1`, `write_raw_file`, the server for slaves and the transmitter.

## 9. Plan

The order is that of importance to a user: the path of the samples, then what may stop it.

1. *Done*: the worker pool with its abstract stream; pausing the screen; SYSCALL; the loudspeaker. Order, handshakes, exclusion and
   the counted waits proved; all termination checked.
2. *Done in part*: the path of the samples, as far as playing a recording goes (`Replay`). Left: the same with the second FFT, that is
   TIMF2 and SECOND_FFT between DO_FFT1C and `narrowband_dsp`, and `write_raw_file` on the ring timf1. `Intact` is proved for every size.
3. *Done in part*: the session (`Session`, with its proofs). Left: the composition of `RxOutput` with `SysCall` (the soundcard that cannot be re-opened) and
   with `ScreenControl` (pause inside a reset).
4. *Done in part*: the keyboard (`Session`) and the network stream (`NetStream`, with its proofs). Left: the server for slaves, and the
   transmitter's two threads.
5. *Proofs left*: `PublishesInOrder` with F5. The argument would be that a worker that still computes has its true age, so that no block younger
   than its own is released before it; as many slots are published as workers are released, so the slot that is published next never belongs to
   a worker that computes. It needs the number of workers with older blocks in the invariant, where `IInv` now has their order.
