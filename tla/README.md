# A TLA+ development of GadgetSeed

GadgetSeed is a small multi-tasking kernel for Cortex-M microcontrollers (and an
emulator), with drivers, file systems, a network port, a graphics library and
applications.  This directory holds TLA+ models of its kernel and of the parts
above it that keep state, the TLC runs that check them on small instances, and
TLAPS proofs for every size of the kernel and of most of the parts above it.
Paths below are relative to `src/`.

## Inventory

Each part with its state, its operations, whom it interacts with, what makes it
hard, what makes it correct, and the modules that model it.  `PROJECT.json`
lists the same parts under "components", with what of each is left out, and the
hazards one by one under "hazards".

| Part | State | Operations | Interacts with | Hard behaviour | Correct when | Modules |
|---|---|---|---|---|---|---|
| Task scheduler (`kernel/task/task.c`, `queue.c`, `waitqueue.c`) | `run_task`, `task_list_head`, one ready queue per priority, `wait_queue_head`, status and priorities of each `st_tcb` | `task_exec`, `task_add`, `task_exit`, `task_kill`, `task_pause`, `task_wakeup`, `task_priority`, `dispatch_task` | called by system calls and interrupt handlers; links tasks for all parts below | one pair of links for all queues; calls that trust a queue's head; a woken task pre-empts at once | no task is linked twice, the running task heads its queue, the processor never idles with work, nobody is lost | `Kernel`, `KernelAdmin`, `Scheduler` |
| Timeout queue (`sleepqueue.c`) | a list in the order of `wup_time` | `sleepqueue_add`, `sleepqueue_schedule` | the timer tick; every wait with a timeout | one resumption per tick, a timeout racing an answer, 32-bit wrap | nobody is early, every timed wait ends, no entry outlives its wait | `Kernel` |
| Events (`event.c`) | `st_event`: a byte FIFO and a queue of waiters | wait, wakeup, push, set, check, clear, register, unregister | tasks and interrupt handlers | stored or delivered, an answer after the deadline, an event set without an argument | nobody waits for a stored event; the result says truly whether there was one | `Kernel`, `KernelPush` |
| Mutexes (`mutex.c`) | holder and queue of waiters | lock, unlock | device table, file system, libraries | hand-over racing a timeout | one holder, handed over in order, and the new holder knows it | `Kernel` |
| System call gate (`syscall.c`, `syscall_api.c`) | parameter blocks on the callers' stacks | the SVC handler | everything above | results written into the blocks of tasks that wait | every call returns what it says | `Kernel` |
| Ring buffer (`libs/fifo.c`) | buffer, `wp`, `rp` | write, read, drop, clear, two sizes | events, UART drivers, pipes, players | a writer and a reader that are not synchronised | a bounded queue of bytes | `Fifo`, `ByteQueue` |
| Timer and clock (`kernel/timer.c`) | 64-bit clock, list of timer callbacks | register, unregister, the tick | drives the timeout queue | callbacks that unregister themselves; reading the clock between ticks | the clock never runs back | `Kernel` (the tick) |
| System events (`kernel/sysevent.c`, the key scan of `arch/*/drivers/*_button.c`) | one event, key repeat state | set, push, get | keys, touch panels, user interface | stale events, repeat of a key, a full queue | a press is reported once, a repeated key is down | `SysEvent` |
| Heap (`kernel/memory.c`) | circular free list | allocate, free | everything | coalescing at the seam of the circle; shared by tasks without a lock | blocks tile the memory, free neighbours are joined, a call fails only when nothing fits | `Heap` |
| Date and time (`kernel/datetime.c`) | seconds and microseconds, a request to set them | count, set, read, conversions | RTC driver, clock application | reading without a lock; leap years | no reading is ahead, conversions are inverse | `Datetime` |
| Console and serial ports (`kernel/console.c`, `arch/*/drivers/uart*.c`) | a receive FIFO, receive and transmit events | getc, putc, select | interrupt handlers | looks at the FIFO, then waits; several writers, one event | input wakes a waiting reader; a writer's wait ends with its byte | `Uart` |
| Device table (`kernel/device.c`) | list of devices, open counts, a mutex each | register, open, close, read, write, ioctl, select, lock | all drivers | lock time-outs, recursive locking | operations exclude each other | - |
| Log (`kernel/log.c`, `drivers/logbuf.c`, `shell/com_log.c`) | ring of text | write, search, print | everything that logs; the shell | overwriting text that is being read; searches round a ring | a search ends and finds its record | `LogBuf` |
| Pipe file system (`fs/pipefs.c`) | FIFO and two events per pipe | open, read, write, close | players | two tasks, clearing while in use | bytes arrive in order, nobody blocks for ever | `Pipe` |
| Small file system (`fs/gsffs.c`) | blocks on a device | format, open, read, write, unlink | storage | power lost between two writes; erasing a block | files survive, each is listed once | `Gsffs` |
| Files and storage (`fs/file.c`, `fs/storage.c`, `extlibs/fatfs/fatfs.c`, `diskio.c`) | descriptors, FatFs's objects and lock, mounted disks | open, read, write, close, mount, unmount | all applications; FatFs (external) | opens that fail half way; unmounting under open files and under those that wait to be opened; a time-out of the lock | a descriptor and an object have one owner; a closed file is written; a valid object is on a mounted disk | `FileTable` |
| Network glue (`net/sys_arch.c`, `devif.c`) | mail boxes, semaphores, threads; frames in flight | post, fetch, signal; input | lwIP (external), the Ethernet driver | look, then post; tables shared by threads; lwIP's lock kept over a wait | a stored message arrives; a frame gets through | `Mbox`, `NetTable`, `NetInput` |
| Shell and line editor (`shell/shell.c`, `lineedit.c`, `history.c`) | line, cursor, history | one key at a time | console | the line is never drawn anew | the terminal shows the line | `LineEdit` |
| Graphics (`graphics/graphics.c`, `graphics_op.c`, `drivers/framebuf.c`) | clipping rectangle, colours | points, lines, rectangles, bit data, text, images | user interface | each figure is clipped by itself | what is drawn is the figure inside the rectangle | `Graphics` |
| Music player (`apps/musicplay`, `apps/soundplay`) | player status, command FIFO, the function to run, the file; lists of files and albums, the file that keeps them, the place in them, the list view | buttons; decode; search, save, load, next, previous, select | sound output, storage, user interface | two tasks that write the same status; files cut short; a place kept apart from the lists it is in; a search under the list view | a song that was chosen is played, each song is in its album and has its turn, only what is in the lists is read | `SoundPlay`, `MusicList` |
| Internet radio (`apps/internetradio`) | three tasks' states, two FIFOs of events | open, close, connect, reconnect | lwIP, pipes, the player | events lost or late; a state that is read and then acted upon | the last station is the one received | `Radio` |
| Sound output (`arch/Cortex-M7/drivers/stm32h747i-disc_audio.c`, `apps/soundplay/soundio.c`) | a buffer that a DMA plays in a circle | write, start, stop | the player | a writer that is late | frames are heard in order, whole while in time | `Audio` |
| Everything else | | fonts, other widgets, shell commands, drivers' register I/O, other applications, tools, vendored code | | | not modelled: data, formatting or I/O without state that interacts | - |

## How the parts fit together

A task enters the kernel by an SVC; device and timer interrupts enter it through
their handlers.  All of them have one NVIC priority and do not nest, so *each
handler is one atomic step* of the model.  `dispatch_task()` changes `run_task`;
the context switch it ends in is not visible at this level.  The next step
may be taken by the task that runs now or by a handler, which is all the
interleaving there is inside the kernel.  Code that runs outside the handlers,
such as the FIFOs shared by a driver's interrupt handler and a task, interleaves
at every access to shared memory and is modelled that way.

Above the kernel, a part is modelled against what the kernel does for it: an
event without an argument resumes whoever waits now and stores nothing, one with
arguments stores as many as it has room for, a mutex is handed over in order,
and a wait may time out in any round.  `Kernel` is where those facts are checked
and proved.  A step of such a model ends where the task may lose the processor:
at a system call, an access to memory that an interrupt handler shares, or a
call of the disk or the network.

## The modules

| Module | What it models |
|---|---|
| `Kernel` | the queues, the system calls and the tick: one action per handler and outcome |
| `KernelProps` | the properties of `Kernel`, the inductive invariant `KernelInv`, and the refinement to `Scheduler` |
| `KernelAdmin` | `Kernel` with `task_kill()` |
| `KernelPush` | `Kernel` with `event_push_ISR()` and `event_set_ISR()` |
| `Scheduler` | abstract: what an application may expect of the scheduling |
| `Fifo`, `ByteQueue` | `libs/fifo.c`, one access to shared memory at a time; abstract: a bounded queue of bytes |
| `Heap` | `kernel/memory.c`, one round of its loops at a time |
| `SysEvent` | `kernel/sysevent.c` and the key scan |
| `Uart` | the serial port and the console calls on it |
| `Mbox`, `NetTable`, `NetInput` | `net/sys_arch.c` and `net/devif.c`: a mailbox, the tables, the way of a frame |
| `NetPort` | the three parts of the network port, each run by itself |
| `Datetime` | `kernel/datetime.c` |
| `Pipe`, `PipeProps` | `fs/pipefs.c`: a writer and a reader of a pipe; its properties and `PipeInv` |
| `Gsffs` | `fs/gsffs.c`, one flash operation at a time, with power failures |
| `SoundPlay` | the music player's two tasks |
| `Graphics` | drawing through a clipping rectangle |
| `LineEdit` | the line editor, its history, and the terminal |
| `LogBuf` | the log's ring of text, its searches and its printing |
| `FileTable` | open files, FatFs's objects, mounting |
| `Radio` | the internet radio's three tasks |
| `Audio` | the sound output: DMA, interrupt and writer |
| `MusicList` | the music on the card: searching, saving and loading it, going through it, listing it |
| `MCKernel`, `MCKernelAdmin`, `MCKernelPush` | instances of the kernel for TLC |
| `MCDrivers`, `MCFiles`, `MCShell`, `MCPlayer` | the other modules, several in one instance each |
| `SeqLemmas` | lemmas about sequences that all proofs share |
| `KernelProofs`, `KernelTheorems` | proofs about `Kernel` and `KernelAdmin`: queues, deadlines, results, killed tasks, and that `Kernel` implements `Scheduler` |
| `DriverProofs` | proofs about `Fifo`, `Uart` and the network port |
| `SystemProofs` | proofs about `Heap`, `Datetime` and `SysEvent` |
| `FileProofs` | proofs about `Pipe`, `FileTable` and `Gsffs` |
| `PlayerProofs` | proofs about `Radio`, `Audio` and `MusicList` |
| `DisplayProofs` | proofs about `Graphics`, `LogBuf`, `LineEdit` and `SoundPlay` |

`MCDrivers`, `MCFiles`, `MCShell` and `MCPlayer` each hold several parts that share no state.
Their variable `part` is chosen at the start and stays, so every behaviour is one
of one part and the state spaces add up instead of multiplying; a property of a
part holds trivially in the behaviours of the others.

### Kernel

`run` is `run_task`.  `queue` is one function for *all* lists threaded through
`st_tcb.queue` (ready queues, `wait_queue_head`, each event's `proc_head`, each
mutex's `wait_ps`): the C code links and unlinks a task through the same pair of
links whatever list it is on, and `DelQueue` therefore takes a task off
whichever list holds it.  `timeq` is the list threaded through `timer_list`.
`status`, `priority`, `next_priority` and `wup_time` are the fields of the same
name, `task_list` is `task_list_head`, `lock_ps` the holder of a mutex, `fifo`
the arguments an event stores.  `ret` and `arg` are the result and the buffer
of a task's last wait: `sys_call()` points `st_tcb.syscall.param` at the
caller's parameter block, and handlers that resume the task later write there.

Every handler that can end in several ways is several actions, one per path:
`event_wait_ISR()` is `EventWaitStored` and `EventWaitBlock`, `mutex_lock_ISR()`
is `MutexLockFree`, `MutexLockOwn` and `MutexLockBlock`, `mutex_unlock_ISR()` is
`MutexUnlockFree`, `MutexUnlockHandOver` and `MutexUnlockRefused`.
`DispatchTask`, `WakeupTask` and `Block` are the tails that handlers share.
Three facts of the code that a reader might not expect are kept:

* `wakeup_task()` puts the task at the *head* of its ready queue and runs it at
  once, also if its priority is lower than that of the task it interrupts;
* one tick resumes at most one task, and only the head of the timeout queue is
  looked at;
* the clock moves between ticks (`get_kernel_time()` adds the time since the
  last one), so a deadline may have passed without the tick having noticed.

`mutex_unlock()` returns a field of its parameter block that nothing sets; the
constant `Garbage` is the set of values it may find there.

`Init` is the state after `init_task()`: only the idle task exists, on its ready
queue, and `run_task` is `dummy_task`.  Events and mutexes are registered
beforehand.  A TCB is started again only after its task has left `task_list`.

### KernelAdmin and KernelPush

`task_kill()` breaks what the rest of the kernel relies on, as the runs show, and
so lives apart.  `search_task_id()` reads the wrong field of the entries of the
timeout queue and does not look at mutex queues, so the model's `SearchTaskId`
finds nobody there.  `KernelPush` adds the handlers that store an event argument
and resume a waiter in two calls; as the comment of `event_set_ISR()` asks, the
set comes after a push in one handler.  Handlers that only push (the touch
panels) are there too.

### Fifo

The pointers are indexes.  The writer is at `w` in `write_fifo()` with `todo`
left to write, the reader at `r` in `read_fifo()` or `drop_fifo()` with `want`
left; `byte` is what it has copied and `got` what it has returned.  The length
is compared with the free size once: all builds are compiled with `-O2`, which
loads `wp` and `rp` once for that.  The model assumes that stores reach the
other side in program order, which holds on the single-core Cortex-M parts for
a handler and a task and for two tasks.

### Pipe

`read_pipefs()` and `write_pipefs()` are the same loop with the sides exchanged,
and so are their actions: `Available` is `fifo_size()` for the reader and
`fifo_free_size()` for the writer, `AsksForPeer` is the one test that differs.
`held` counts the bytes in the FIFO: `FifoIsAByteQueue` below is the reason why
bytes may be moved one at a time, in order, whether or not the mutex excludes
the other side.  The events of a pipe store nothing, so `WakeupPeer` resumes a
peer that waits *now* and is lost otherwise.  A call looks at the sizes without
the mutex, does not look at the result of `mutex_lock()` (`MutexLockTimesOut`),
and counts only the waits that time out.  `num` is `reader_num` and `writer_num`,
`timer` the waits that are left, in units of the 10 ms that each may last.

One writer and one reader open the pipe once in each session, and a session
begins when the one before has ended for both.  In any other order, which the
code allows, `clear_fifo()` meets a read in progress at the level of pointers;
that is left (see the plan).

### Heap

`MEM_START` is address 0 and memory is counted in headers.  `size` is the size of
every block, `next` the successor of every free one, `freep` where a search
begins, and `scan` the call in progress and where it has got to in the list.  The sizes wrap as
the build's do (`Modulus`), which a request near the top of the range reaches.
Nothing locks the heap, and the model has one caller: two that walk the list at
once break it, which is a hazard of its own in the list.

### SysEvent

The queue is the one of `Kernel` and `KernelPush`: `set_event()` hands its event
to a task that waits, while a handler's push is stored and its set resumes a
waiter without it.  `get_event()` then goes by the event its caller's structure
still holds, `event` in the model; that is the finding
`sysevent_told`.  Ages are counted in the unit of the key repeat.

### Uart

A byte is only counted.  `putc()` transmits and then waits for an event that
names its end; `cgetc()` selects, then reads.  The interrupt handler serves a
byte received and a byte sent in one call, in which case it pushes the writer's
event and resumes nobody: the writer goes on at its timeout, and `UartInv`
names that case.

### Mbox, NetTable, NetInput

A mailbox is an event with arguments; what `Mbox` adds is that posting and
fetching look first and act in a second system call, so that tries can lose a
message to another poster, or wait although they must not.  `LostToAnother` says
that this is the only way to lose one.  `NetTable` is the search for a free
entry, `NetInput` the three threads that share lwIP's core lock and the pool of
pbufs; a frame gets through although `devif_thread()` keeps the lock while it
waits, because everyone else then waits for the next frame.

### Datetime

The interrupt counts `usec` and `sec` and may set them by the RTC.  It may come
between any two loads of `get_systime()`, which loads the seconds first, then
the microseconds twice, and the seconds again when the microseconds have gone
down.  The conversions are functions on days and seconds; the
instance runs them over every day of 131 years.

### Gsffs

Flash bits only clear until a block is erased, so a sector's status goes from
`UNUSED` through `CREATE` and `SAVED` to `DELETED`, and its data is the set of
bits it clears.  `PowerFails` may come between any two operations; what a call
has in memory is lost and the flash stays.  `search_blank_fd()` always returns
the first descriptor, because nothing sets `flg_used`.

### SoundPlay

The player's task presses buttons and takes sound events; the sound task runs
`soundplay_proc`.  Inside `mp3_input()` a step ends at every read of the file: a
command is taken first (`InputPlaying`, `InputReady`), then the frame is read or
searched (`"read"` and `"sync"`, with the status `PLAYING` that a first play has set
already), and only then the song may end (`FrameRead`, `SyncEnds`), so the player
may give a command in between.

The history variable `late` is set when a wait of the player times out, and when
the two tasks cross: a song ends by itself with a command in the FIFO (`Crosses`), the sound
task clears a function that the player has just set, or a search that failed finds a
frame after all and the song plays on after its end.  From there on the code promises
nothing: a stop that is answered by the song's own `END` stays in the FIFO and goes to
the next song.  `SoundPlayInv` speaks about behaviours that have not got there.  A search
whose reads fail goes on after it has ended the song, in a file that may be
closed; `ReadsAnOpenFile` excepts it.

### Radio

One action per place where a task may lose the processor.  The pipe between the
stream and the sound is told by its level only, in the four steps that the code
compares with.  `dropped` records that an event was lost because its FIFO was
full, and a behaviour ends there (`RadioUndropped`); `crossed` records a start of
the sound while the stream is about to change, after which `PlayIsHeard` does not
hold: the player says `PLAY` and is silent.

### Audio

The buffer is four parts, the DMA plays one part a step, and a frame has one or
two parts.  The interrupt clears the half that was played and resumes a writer
if one waits.  `heard` is what has come out, and the invariant is that frames are
heard in order, none twice, and whole as long as the writer was in time;
`unsettled` marks a change of the frame size under a running sound.  The interrupt
is taken before any step of a task and has cleared its half before the DMA is
through the other.

### MusicList

Everything here is done by one task, which handles an event to its end before it
fetches the next, so one event is one step; what is hard is how the lists, the
place in them, the list view and two files on two storages stay in agreement
over many events and starts.  `lists` is `struct st_music_info`, `play` the place
of the player, `view` the album that is listed with the count and the item of
`music_select`, `last` the item drawn as played.  `info` is `musicinfo.dat`, a
sequence of the structures written, and the CRC of a sequence is that sequence:
two different files never have one CRC.  `config` is `musiplay.cfg`, of which a
cut leaves the first lines.

`SaveFilelist` and `SaveConfig` write whole, or fail at the opening or after some
of it (`MaxFailures` times).  The list file may be cut in its header, after its
first piece or before its CRC; that no cut file is loaded wherever it ends is
checked apart, in `SavedListsLoad`, on every prefix.  The card is taken elsewhere
only while the player does not run.  All lists fit the screen, so that a view
draws all of its items and never scrolls, and memory does not run out.

`astray` says what was read outside the lists; C goes on from there with what
happens to be in memory, and the model stops until the next start.  Two history
variables name the only ways there: `replaced`, a search found other lists while
the view shows the old ones, and `unbacked`, the place was saved with a CRC that
is not that of the lists it is in.  It need not be that of other lists: what
`save_filelist()` leaves after a failed write is the CRC of what was written, and
two lists of equally many songs begin with the same piece
(`filelist.c:542`).  If both were cut there, a start that made the second takes the
place in the first for one of its own.  What the code does that a reader might not
expect is kept:

* `radio_count` is not reset before a search, so after a second search in one
  run the file that is saved is refused at the next start (`filelist.c:906`);
* `prepare_filelist()` makes no lists when there are none to load
  (`musicplay.c:250`): only the key or the button does;
* `backup_crc` is not that of a new search before the next start, the list view is not
  prepared anew, and no song is open (`settings_view.c:188`);
* the view of an album is started although there are no albums, and reads the
  first (`list_view.c:305`);
* the item that is played is drawn by its number in whatever album is listed
  (`astray = "other"`), which `DrawsWhatIsListed` does not speak about.

### Graphics

Every figure is worked out as the code does, as a window and a number of pixels
or as single pixels, and compared with the set of pixels that the figure has
inside the clipping rectangle.  `draw_v_line()` of a line that ends above the
rectangle is excepted: it sends a count below zero.

### LineEdit

One key is one step.  The record `ed` holds the editor's `buf` and `cur_pos` and
what the terminal shows behind the prompt; the keys are letters, cursor keys,
deletions, the two directions of the history, completion and return.

### LogBuf

Text is told apart as far as the searches do: brackets, characters of a time
stamp, new lines, and the rest.  A search goes byte by byte while a message may be
written (`MaxMeanwhile` bytes); `Strays` names the searches that begin or end in
the last cell, which run off the buffer or never end.

### FileTable

Tasks open, write and close files and directories, and a disk is mounted and
unmounted meanwhile.  Every call of FatFs may lose the processor to another task;
FatFs itself is modelled from how `fatfs.c` uses it.  `met` names the tasks that
were given one object because `close_fatfs()` frees it before closing it, `cut`
those whose disk was unmounted.

There are two notions of a mounted disk.  `storage` is what `storage.c` has set, and
`open_file()` looks at its file system before it waits for anything.  `volume` is what
FatFs knows, and only that decides whether a later `f_open()` succeeds:
`mount_fatfs()` sets the device once and for all, `unmount_fatfs()` registers the
volume again, and FatFs mounts a registered disk that is not mounted
(`MountsToOpen`).  So an open that began before an unmount succeeds after it, on a
disk that has no file system for `storage.c`.  `crossed` names the tasks that may have done so:
those that had a file open, or were opening one, at the moment at which the file
system was taken away.

FatFs's lock is no part of the state.  `ff_req_grant()` goes on when its wait has
timed out, so the lock excludes nobody from the moments at which these steps end;
`Granted` is the end of that wait, one way or the other.

## What the runs check

| Run | Instance | Checks |
|---|---|---|
| `kernel_events` | 3 tasks (two share a priority) and idle, 1 event that stores one argument, timeout 1, a tick every 3 ms, clock to 3 | `LinkedOnce`, `IdlesOnlyWithoutWork`, `TimeoutsAgree`, and that the kernel implements `Scheduler`, with pushed events |
| `kernel_waits` | the same tasks, 1 event, 1 mutex, timeouts 1 and 2, a tick every 2 ms, clock to 4 | the inductive invariant `KernelInv`, `RunningTaskHeadsItsQueue`, `NoWaiterMissesAnEvent`, `TimeoutsInOrder`, `StatusNamesTheQueue`, `WaitersWaitForTheHolder`, `NeverResumedEarly`, `ToldOfTheEvent`, `HandedOverInOrder`, `TimedWaitsEnd` |
| `drivers` | parts heap, sysevent, fifo, uart, mbox, table, input, datetime | `HeapInv`, `SysEventInv`, `WholeOrNothing`, `UartInv`, `NetPortInv`, `DatetimeInv`; `FailsOnlyWhenFull`, `HeapCallsEnd`, `RepeatsEnd`, `IsAByteQueue`, `BytesAreRead`, `LostToAnother`, `StoredArrive`, `FramesGetThrough` |
| `files` | parts pipe, gsffs, sound, graphics | `TransfersAreWhole`, `PipeInv`, `GsffsInv`, `SoundPlayInv`, `GraphicsInv`; `CallsEnd`, `SavedSectorsStay` |
| `shell` | parts kill, lineedit, log, files | `OthersAreNotLost`, `LineEditInv`, `LogBufInv`, `FileTableInv` |
| `player` | parts radio, audio, list | `SoundInv` |

What the invariants of the parts say beyond their types:

| Invariant | Says |
|---|---|
| `HeapInv` | blocks in use and free ones tile the memory, the free list is in the order of addresses, no two free neighbours are apart, what is given out is large enough, and a search has passed only blocks that are too small |
| `SysEventInv` | a key that repeats is down, or its release was lost with the queue full or too old when it was fetched |
| `UartInv` | one event for each byte that ends, a writer waits only while an event is due, `cgetc()` returns a byte that came in |
| `NetPortInv` | a mailbox is waited for only while it is empty, messages arrive in order; an entry has one owner and stays registered while owned, threads run their own function; no pbuf is lost and a thread inside lwIP holds the core |
| `DatetimeInv` | a reading is not ahead of the clock and less than a second behind the call, unless the RTC set the time meanwhile; a time set by the RTC is right to an interrupt; conversions follow the calendar and are inverse |
| `PipeInv` | the inductive invariant of the proof, with `TransfersAreWhole` and `SessionsStartEmpty` |
| `GsffsInv` | at every moment at which the power may fail, a file holds what was written when it was last closed, is absent once unlinked or while it is replaced, and is listed once |
| `SoundPlayInv` | while no wait times out and the tasks do not cross (`late`): a command is taken by its own song, a song that was chosen is run, the decoder reads only an open file |
| `GraphicsInv` | what is drawn is the part of the figure inside the clipping rectangle |
| `LineEditInv` | the terminal shows the line with its cursor at the editor's, the line ends in zeros, the history keeps its order |
| `LogBufInv` | a search ends within a round, finds its record if it is there whole, and exactly one record is printed |
| `FileTableInv` | nothing leaks, a task's object is its own, what was written is on the disk when the file is closed; a valid object is on a disk that FatFs has mounted, and that has its file system unless the object was being opened when it was taken away |
| `SoundInv` | of the radio: a connection has its socket and its pipe, a player that stopped has none, the station received is the last one opened, `PLAY` is heard; of the sound output: frames in order, a waiting writer is resumed for the half it may write; of the lists: each song is in its album, once and in order, a file saved whole is loaded as it was and a cut one is refused, going back undoes going forward, a song of the lists is opened, and the list view reads inside the lists, but for the cases that `replaced` and `unbacked` name |

The liveness properties: `TimedWaitsEnd` (a wait with a timeout ends),
`HeapCallsEnd` (a search of the free list ends), `RepeatsEnd` (a key that was
released stops to repeat unless its release was lost), `BytesAreRead` (as long
as bytes come, a reader that waits gets one), `StoredArrive` (a message that was
stored is fetched, by a task that fetches again and again), `FramesGetThrough`
(a frame in the ring reaches lwIP unless the pbufs ran out, and an application
gets the core lock as long as frames come), `CallsEnd` (a read or write of a
pipe returns).

### Bounds

*Kernel.*  `MaxTime` stops the clock, not the ticks: with `MaxTime` at least one
tick beyond the shortest timeout, a deadline falls on, just before and just
after a tick, two deadlines may coincide, and an answer may come between a
deadline and its tick.  Two tasks of one priority and a third of another are the
least that tell the order in a ready queue from the order of priorities, and
three waiters the least that tell a hand-over to the first from one to any other.
`TimeModulus` is larger than twice `MaxTime` in every run, so that no deadline
wraps; this is the assumption `NoWrap` of the proofs.

*drivers.*  The heap has 6 units, so that three blocks with free ones around them
fit, and requests for nothing, a part of a unit, two units and nearly the whole
range of sizes.  Two keys let one be pressed while the other repeats, and a
queue of two events overflows.  The ring of 4 holds 3 bytes: a write of 3 fills
it from every position, and pointers wrap inside a write and between writes.
Three writers queue behind one another at the port, and 2 bytes of receive
buffer overflow.  A mailbox of 2 gets 4 posts of three posters, two of which try,
so that both find the last room; one task fetches and one tries.  Three owners
compete for two entries; two threads start in either order.  Two receive
descriptors and three pbufs run out.  Three seconds of three interrupts cover a
reading across the turn of a second, and the RTC setting it.

*files.*  In the pipe of 2 bytes a call for 1 may find it empty, half full or
full, one for 2 needs all of it, and one for 3 can never be served and ends by
its timeout; with 2 waits a call may be woken, time out once and still succeed.
Two blocks of two sectors and two names suffice for a block that holds a live
and a deleted sector, and for erasing one.  The player's FIFO has
room for a play, a pause and a stop at once, and its queue of two sound events overflows when
songs are changed faster than events are handled.  A screen of 3 by 3 has a middle: a
clipping rectangle may have pixels beyond it on every side.

*shell.*  Three columns and two letters hold a line with a cursor in it, and two
lines of history a recall in both directions.  Six cells of log with records of
four begin and end at every cell.  Three users, two descriptors, two objects and
one directory: each table runs out before the one above.

*player.*  Two stations and FIFOs of one and two events are the least that
overflow and change station.  Three frames in a buffer of two or four go once
round it.  The card holds two albums with two tracks of one number in the first and a radio
between them, or one album out of order with a file that cannot be read; an
album is allocated for two tracks, so one is exactly full, one is lengthened and
one has room.  Going from one content to the other makes a place invalid in its
album and in the list of albums.  Two counted radios let a search follow another
in one run, and one failure may hit either file.

### Fairness

`FairSpec` of the kernel assumes that the timer interrupt keeps coming
(`WF(Clock)`), which the hardware timer does as long as interrupts are enabled;
tasks are not assumed to make progress.  The pipes assume that a side inside a
call goes on (`WF(Work(s))`), `DriversFairSpec` the same of a task inside
the heap (`HeapStep`), of the task that gets system events, of the reader of the
port, of a fetcher with a message (`MboxFairStep`), and of the threads
of the network with their interrupt: each of these steps ends by itself or at a
timeout, and it is assumed that no task of a higher priority runs for ever.  No
task is assumed to call, to write, to close or to open again, and no key, byte or
frame is assumed to come.

Deadlock is checked everywhere.

A few definitions state what a comment says and are checked by no run, because
the code is known to do otherwise and a run of each would add nothing to the
description of the hazard: `NothingIsLost` and `TryFetchReturns` (`Mbox`), and
`FreeIsPartOfTotal` (`Heap`).

### Where the code and what is said of it disagree

Six runs state what a comment or a document says and find that the code does
otherwise.  `PROJECT.json` quotes the lines.

| Run | What happens |
|---|---|
| `kernel_mutex_told` | a mutex handed over after the waiter's deadline but before the tick: the waiter owns it and is told a negative time, "timed out" |
| `admin_killed` | `task_kill()` does not end a task that sleeps or waits for a mutex |
| `pipe_eof` | a reader finds the pipe empty, the writer writes its last bytes and closes, and the reader, which looks at `writer_num` now, returns EOF |
| `uart_told` | a byte comes between `uart_select()`'s look at the receive buffer and its wait: `cgetc()` waits on with a byte in the buffer |
| `gsffs_crc` | a file that was written, closed and saved again is stored with a CRC that is not that of its data |
| `sysevent_told` | a task resumed by the key scan takes the key press its structure still holds for a new one |

### Hazards that no property covers

Seen while modelling, and left to the reader of the code:

* *Kernel.*  `task_priority()` of a ready task leaves it on the queue of its old
  priority (`task.c:759`); `task_add()` leaves the status `DORMANT` on a task that
  is ready (`task.c:555`); `mutex_unlock()` returns a field nothing sets
  (`syscall_api.c:576`); `_eventqueue_wakeup()` resumes the waiter that came first, where
  its comment says the one whose time runs out first (`event.c:102`); an event with room
  for n arguments stores n - 1 (`event.c:41`); `eventqueue_unregister()` strands
  the waiters (`event.c:60`); a deadline that wraps (`sleepqueue.c:34`); the
  heap used by two tasks at once (`memory.c:142`), its rounding of sizes near the
  top of the range (`memory.c:148`); 32-bit times of the key repeat
  (`sysevent.c:186`).
* *Timers and devices.*  A timer is registered by storing its function before its
  interval and count, with the tick running (`timer.c:284`).
* *Console.*  `HAL_UART_Receive_IT()` is always armed for the first byte of its
  buffer (`uart.c:195`); a CR and LF mix in two lines (`console.c:147`); a writer
  may take another's late event (`uart.c:289`).
* *Files and storage.*  A pipe opened again or unlinked is cleared under its
  reader (`pipefs.c:148`); a read of more than a closed writer has left is no EOF
  (`pipefs.c:245`); `flg_used` is never set (`gsffs.c:338`); a sector is unsigned, so a test for
  -1 fails (`gsffs.c:474`); `mount_storage()` leaves its file system set when the
  device cannot be opened (`storage.c:82`); `ff_req_grant()` goes on after a
  time-out (`diskio.c:218`); an open that began before an unmount mounts the disk
  again (`fatfs.c:94`).
* *Network.*  `sys_mbox_post()` loses a message when the box is full
  (`sys_arch.c:297`); `sys_arch_mbox_tryfetch()` may wait (`sys_arch.c:383`).
* *Players.*  The end of a song closes the file that was opened for the next one
  (`sdmusic.c:296`); the search for an MP3 frame goes on in a file that is closed
  (`mp3play.c:162`); a stop that is given as an MP3 song ends is answered by that end, and
  is left for the next song (`mp3play.c:271`); an abort is undone by an open (`mp3play.c:535`); stopping an
  M4A song leaves the sound running (`m4aplay.c:215`); `soundplay_resync()` waits
  without a time-out (`soundplay.c:210`).
* *Radio.*  A `connect_ir()` that failed leaves its socket open (`ir_stream.c:216`);
  `decode_shoutcast_message()` says success on a read error
  (`shoutcast.c:130`); a station's URL may be overwritten while it connects; a
  pause whose wait timed out is taken later.
* *Sound output.*  The frames written before the sound starts overwrite one
  another (`stm32h747i-disc_audio.c:255`): the first frames are never heard;
  `soundio.c:142` takes the result of a lock for a time-out.
* *Date and time.*  `num_of_day_in_month()` adds a day to every month of a leap
  year (`datetime.c:640`); a reading may be a second behind (`datetime.c:800`);
  `set_systime()` takes no lock (`datetime.c:743`).
* *Shell, log and graphics.*  The place in the history is not reset by an empty line
  (`history.c:33`); the searches of the log take the last cell for the end
  (`logbuf.c:199`, `259`, `401`); a vertical line above the clipping rectangle has
  a count below zero (`graphics.c:549`); an image cut at its left or top is drawn
  wrong (`graphics.c:1949`); a clipping rectangle off the screen is inverted
  (`graphics.c:288`).

## What is proved

Each theorem holds for every value of the constants that the assumptions of the
modules allow.  These say little: that sizes are numbers and not zero, that
markers such as `Dummy` or `NoByte` are none of the things they stand beside.
Those that say more, and why the code justifies them:

* `IdleAssumption`: only the idle task has `TASK_PRIORITY_IDLE` (`task.c` starts
  it with that and nothing else uses it).
* `NoWrap`, a hypothesis of the theorems on the kernel: the clock stays so low
  that no sum of clock and timeout reaches `TimeModulus` (`NobodyIsEarly`: half
  of it).  That is the first 49 days of 32-bit milliseconds, and what happens
  after them is listed as a hazard.
* `HeapAssumption`: a request can be rounded up to units without a wrap
  (`memory.c:148` does not test for it, a hazard too).
* `LogBufAssumption`: the log has room for a stamp and the bytes around it
  (`log.c` gives it kilobytes).
* `MboxAssumption`: a task that posts with `sys_mbox_post()` does not also call
  `sys_mbox_trypost()`; the first is for lwIP's callers, the second for the
  thread that hands it frames.
* `Writers` and `Keys` are finite sets, and there are no more keys than the queue
  of events has room for (`SysEvent` records in `dropped` when it overflows
  nevertheless).
* `GsffsInvariant` is for one handle.  With two, a second open takes the first's
  descriptor, because nothing sets `flg_used`.

### The kernel

`KernelTheorems` proves, for any number of tasks, priorities, events and mutexes,
any sizes and any timeouts:

| Theorem | Says |
|---|---|
| `KernelIsConsistent` | `Spec => []KernelInv` |
| `TypeCorrect`, `NoTaskLinkedTwice`, `RunningTaskIsHead`, `NoEventIsMissed`, `IdlesWithoutWork`, `TimeoutsStayTrue`, `StatusIsTrue`, `WaitersHaveAHolder` | `[]` of `TypeOK`, `LinkedOnce`, `RunningTaskHeadsItsQueue`, `NoWaiterMissesAnEvent`, `IdlesOnlyWithoutWork`, `TimeoutsAgree`, `StatusNamesTheQueue`, `WaitersWaitForTheHolder` |
| `MutexGoesInOrder` | `Spec => HandedOverInOrder`, an action property |
| `TimeoutsStayInOrder`, `NobodyIsEarly`, `WaitersAreTold` | the deadlines, and the result of `event_wait()` |
| `KillLosesNobodyElse` | `OthersAreNotLost`, with `task_kill()` at any moment |

No part that concerns the queues is inductive alone.  That a
blocking call drops the running task (and not somebody else) needs
`RunningTaskHeadsItsQueue`; that it finds a successor needs `IdleIsReady`; that
the tick unlinks a waiter from everything needs `StatusNamesTheQueue` and
`TimeoutsAgree`; that a woken task is linked nowhere else needs `LinkedOnce`; and
that a priority names the queue a task is on needs `RestIsKept`, which is just
what `task_priority()` destroys.  `KernelInv` is their conjunction.  `SeqLemmas`
states what removal, insertion and appending do to the members and the
duplicates of a sequence; `KernelProofs` lifts this to `DelQueue`, `InsertQueue`
and so on and shows that each action preserves the scheduler's part, `Core`;
`KernelTheorems` adds what is stored in events and mutexes and draws the temporal
conclusions.

A task that is dispatched gets the deadline 0, so the tasks on the timeout queue
are exactly those that keep theirs, and it stays sorted (`TimeoutsStayInOrder`).
The invariant behind `WaitersAreTold` says that a task that waits for an event has
been told nothing yet.

`task_kill()` takes a task off its ready queue and off `task_list` and leaves
everything else, so most of `KernelInv` does not survive it.  What does is
`Core`, and that every task of `task_list` that was not killed can be found again,
on a queue or on the timeout queue; the conjunction is inductive (`AdminInd`).

Its last part proves that the kernel implements `Scheduler`
(`KernelSchedules`): each action is one of a few shapes, resuming a task,
adding one, giving way to the first of the highest ready queue, or nothing that
the abstract scheduler sees, with a lemma for each shape.

### The drivers and the network port

`FifoTypeCorrect`, `FifoWritesWholeOrNothing` and `FifoIsAByteQueue`: the ring's
pointers stay inside the buffer, a write which starts is never cut short, and the
ring implements `ByteQueue` step by step.  The inductive invariant says that
what is left to write fits, that the byte stored but not yet published is at
`wp`, and that the reader has copied the byte at `rp`.

`UartInvariant`: the writers, the reader and the interrupt agree on every event
that is stored, awaited or to come, for any number of writers.

`MboxInvariant`, `NetTableInvariant` and `NetInputInvariant` are the three parts
of the port, `NetPortInvariant` all of them.  Messages are numbers, so for
a mailbox the invariant says that the numbers of each task grow along what was
fetched and what is stored, and that a task between its look and its post has its
highest number in hand; `MboxLostToAnother` is the action property that a post without
waiting loses its message only to one of another task.  For the tables it says
whose entry each is at every step of the search.  For a frame it says where every pbuf is, and that
exactly one place owns it.

### The services

`HeapInvariant` holds in the midst of a call too: between two rounds of a
loop the call has two neighbours of the free list in hand (`ScanOK`), and the
blocks it has passed were too small.  The circle of the free list is the order
of the addresses, closed at `Base`; each of the ways in which a block is split
off, taken out whole, or joined with the one before and the one behind it, is a
lemma.  `HeapFailsOnlyWhenFull` follows from what the search has passed: all.

`DatetimeInvariant` has two parts.  For a reading that the interrupt may meet
between any two loads, the invariant says for each place of the reader how far
what it has loaded may be from the time.  For the calendar, lemmas on quotients
give the century, the year, the month and the day that the loops of
`datetime.c` find, and that the day of a date and the date of a day are
inverse; `LastDay` is any number.

`SysEventInvariant`: no key is taken for pressed, and none repeated, that is not,
unless its release was dropped or came too late.  `SysEventInd` says so of every event that
is stored too: a press is of a key that is down, or its release is stored behind
it (`Held`).

### Files

`PipeTransfersAreWhole`: a read or write that begins to move bytes moves all of
them, for every capacity and all lengths; `PipeSessionsStartEmpty`;
`PipeIsConsistent` is the inductive invariant itself.  `PipeInv` adds to the
first two that what a
side has found available stays so until it has the mutex (only the other side
changes it, and only for the better), that a side is counted exactly while it has
the pipe open, and the types; `Bystanding` is the lemma for the steps that only
wait and decide.

`FileTableInvariant`: `FileTableInd` says for every place of a call which entries
it holds and that no other task does, unless two met at the entry (which the
code allows where it looks before it takes, and `FileTableInv` excludes by
name).  For the disk it adds that a valid object means a mounted volume, and that
whoever is opening, or has an object, began while there was a file system or is in
`crossed` (`ValidOnDisk`, `BeganOnDisk`): an open has no guard on the disk, so the
property rests on what it looked at when it began.

`GsffsInvariant` and `SavedSectorsAreKept`: what is on the flash is what the calls
have said, at every moment at which the power may fail, and no block is
erased under a file.  `GsffsInd` adds that the unused sectors are blank, that a
known file is in exactly one saved sector and an absent one in none, and what an
open call relies on in the flash: the sector it creates is its own until it is saved.

### The music player

`SoundInvariant`: `PlayerSpec => []SoundInv`, whichever of its three parts runs.

`RadioInvariant`: `RadioInd` says of each event queue what may be on it beside the state
of its reader, and adds four things to `RadioInv`: what ends with the last event
told ends rightly; a station that was given up is not received in the end; a
stream that fills the pipe has somebody who reads it; and a command is told only
where nothing of the last one is left.  The first two hold until an event is
dropped, the others until commands cross too.

`AudioInvariant`: `AudioInd` says for each part of the buffer that the DMA comes to, in
that order, that it follows what was heard (`Ordered`).  The half that the task writes
was played last, and the other is silent when the DMA gets into the half that is
written (`WritesAHalf`): so a late task leaves frames out but never mixes
them.  In time, the half that is played holds one whole frame and the other holds the
next, as far as it is written (`InTurn`), from the first half that was played on
(`FirstHalf`).  Before the sound is on, the invariant has to tell what an earlier
song of another frame size may have left in the buffer (`Stopped`).

`MusicListInvariant`: `MusicListFits` is about the lists, the file and the place.  The lists
are what a search makes of some files (`GoodLists`): each song is once in the album of
its name, with its number, and no album is empty.  `AddFileFits` shows it file by
file.  The file is always the lists of some search, cut somewhere (`IsCutList`).  What
was written of the albums, and what reading them leaves after each, are recursive
functions of the model; they have the values that their equations say (`RunsExist`, by
a least counterexample), so the reader is at the piece at which the writer was, album
by album (`AlbumsAreRead`), and meets the end or a piece of another kind where a file
is cut (`CutsLoad`).  From this follows also that all pieces of two lists are only the
same if their albums are (`PiecesTellAlbums`); that is why a place may be taken up after
a start when the CRC is right (`IsSaved`, `StartFits`).  The place, the item that is drawn
as played and the view are in the lists (`StoryFits`), and each event goes from
there to another place of them (`PlacesLeadOn`), but for what `replaced` and
`unbacked` name.  `MusicListAssumption` says of the card that its files are files: a
number in the album and the name of one.

### What is shown, and the song that is decoded

`GraphicsInvariant`: for every size of the screen, of the clipping rectangle and of the
figure, what is drawn is the part of the figure inside the clipping rectangle.
`GraphicsInv` is inductive itself; the lemmas say what each figure's arithmetic
comes to.  A window is filled row by row, so that each pixel has one quotient and
one remainder; the bits that a picture skips add up; and the error that `line()`
carries from step to step comes to the rounded quotient
(`RoundedIsReached`, shown by a least counterexample), so a line never steps
aside by more than its shorter side.

`LogSearchesEnd`: a search of the log stays in the ring and is over within one
round, whatever is written meanwhile, unless it is one that `SearchesEnd` names.
`LogBufInd` adds up what a search has looked at and what it has before it
(`SearchFits`): a search from the head that does not begin at the last cell never
comes there, so it meets its end.  That a record fits into the log
(`LineSizeBound`) keeps printing inside.

`LogBufInvariant`: as long as nothing is written meanwhile, a search that `Strays` does
not name also finds the record that was sought, by its number from either end, and
what is printed of it is that record.  `LogRecordsInd` is about the text from the oldest byte on, wherever that lies in
the ring (`LogText`), and has four parts.  What is written is whole lines and the
beginning of one, each with its stamp at its front; an overwritten oldest line leaves
a rest that holds no stamp (`LinesFit`).  A search from the head has counted
the stamps that end before it, one from the tail those that begin behind it, and
`stat` and `tcount` say how far into a stamp either is (`SearchCounts`); the byte in the
last cell, which a search from the head skips, is a case of its own, since
a stamp that lies across it is not counted.  The cell that was found is the stamp that
has as many before it as were sought (`RecordsAreFound`, by counting the finite set
`Stamps`).  What is printed and what is still to be read is one record, for a new
line followed by a bracket begins a record only behind another new line
(`RecordPrints`).  The step that needs most is the writer's: a byte that overwrites the
oldest one moves every offset by one, and the text loses its first byte and
gains a last one (`TextDrops`, `TextGrows`).

`LineEditInvariant`: between two keys the terminal shows the line and nothing else,
with its cursor at the editor's (`LineOK`), and the history holds what was entered
last (`LineEditInd`).  Each key is a lemma: it changes the line, and the characters it
sends bring the terminal from the old line to the new one.  What characters
do is a trace from state to state.  There is only one such trace, and traces can
be joined (`LeadsThere`, `LeadsOn`, both by a least counterexample), so a key that
prints the rest of the line and goes back over it takes one step for each of the
two.

`SoundPlayInvariant`: `SoundPlayInd` is the types, and, as long as no wait has timed out
and the tasks have not crossed (`late`), which functions, events and states go together at every place of the
two tasks.

### Only model-checked

* Every liveness property, and with them `ENABLED`: the prover does not do them.
  They are the only properties of the passing runs that no theorem states.

## What is not modelled

* Register contexts, stacks, CPU-time counters, call traces and printing: no
  property is about them.
* `eventqueue_unregister()`, disposal of mutexes, and `task_priority()`: events and
  mutexes of the model live as long as the system, priorities stay.
* The links themselves: a list is a sequence.  Starting a TCB that is still
  linked, which `apps/soundplay/artwork.c` may do, needs a module at the level
  of pointers.
* Timer callbacks, the device table, sending on the network, DHCP, the SD card
  and the other buses, the heap with several callers, several readers or writers
  of a pipe, and clearing a pipe under its reader.
* Of the music player: the tags of files and how they are guessed when missing,
  lists longer than the screen, and memory that runs out during a search.
* Most of the lines of the repository: the vendored HAL and its drivers' register I/O
  (more than a third of what is not external), the drawing of circles, text, images
  and widgets, the fonts, the formatting of numbers and dates, and the
  wrappers that the shell's commands are.  They compute, format or
  move data in one task, keep no state that another could meet half way, and a
  model of them would be a transliteration.  The share of the source that the
  modules map is small for that reason.

## Plan

What is left, in the order of importance:

1. `Timers`: callbacks that are registered and unregistered while the tick runs.
2. `Device`: the mutex around every operation, what a lock that timed out leads
   to, and closing under a reader.
3. The wrap of the deadline: a run of `Kernel` with a small `TimeModulus`;
   `task_priority()`, unregistering events.
4. `Pipe` on the pointers of `Fifo`: clearing it under a reader.
5. `TcbReuse`: the doubly linked list as pointers, and that `queue.c` implements
   sequences.
6. `Heap` with two callers, and the drivers of the SD card.
