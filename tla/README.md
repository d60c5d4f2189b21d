# A verification of the MagicCore real-time scheduler and its kernel

TLA+ modules, TLC configurations and TLAPS proofs for this repository: the scheduler
and its run loop, the timers that preempt its tasks, the interrupts of the bare metal
machine, the locks, and the sequential parts from the boot sector to the shell.
`PROJECT.json` holds the component list, the runs, the source lines behind every
definition, the findings and the hazards, each at its line.

## 1. The system

`main()` asks for a handful of tasks (`request_to_add_task`), each with a bound on
its execution time and either a period or one start and deadline. A periodic task is
*converted*: its next occurrences are appended to one static array of scheduled items
up to an event horizon, and parts of that array are sorted by deadline. Then
`run_on_line_scheduler` walks through the array: it waits for the start of the item,
arms a preemptor, runs the task and disarms the preemptor. One of the tasks, the first
one, is the *online scheduler*: it removes items that have been passed, converts every
periodic task a bit further and sorts. So the array is changed by the very code the
run loop calls while it stands at one of its elements. The timer interrupt advances
the tick and, when the preemptor is due, calls `kill_task`, which ends the system.

Around it is what a kernel on bare metal needs: boot sectors, a start in real mode,
interrupt controllers, drivers for mouse, keyboard, serial line and screen, a log, an
exception handler with a call stack, device discovery; ports of the timer to Linux,
macOS and DOS; a shell; a library of strings; and two tools.

### Components

| component | state | operations | interacts with |
|---|---|---|---|
| scheduler core, `schedule.cpp` | array of items, count, place of the run loop, end of the sorted part | request, add, sort, convert, purge, online scheduler | task list, `k_qsort`, tick |
| task manager, `task.cpp` | array of tasks; how far each is evaluated, last start and end, counters | add, find by name, `run_task` (stamps and counts) | the tick; task bodies |
| run loop and boot, `helpers.cpp`, `main.cpp` | the item held, the place in the array | wait, arm, run, disarm; key presses; `kill_task` | all of the above |
| sort and search, `utilities.cpp` | none | `k_qsort` (`heapsort`, `check_sorted`), `k_bsearch` | comparison functions of the scheduler and the symbol map |
| timer, bare metal, `driver.cpp` | tick, due tick, function and argument, two flags | install, uninstall, handler, enable, disable, speed, `delay` | the program, which it interrupts |
| timer ports, `timer_linux/macos/dos.cpp` | the same; timers, dispatch sources, the handler before | enable, disable, suspend, resume, speed | a signal of the one thread; threads; an interrupt |
| interrupts, `driver.cpp`, `interrupts.S` | lines requested and in service, the processor's flag | dispatch, end of interrupt, spurious ones | timer, serial ports, mouse |
| mouse and pointer, `driver.cpp`, `entry.cpp` | packet under assembly, position, what is saved under the pointer | packet handler; `drawText`, which it may split | the keyboard's buffer, the screen |
| keyboard, serial port | the byte waiting, the registers of the chip | polling, `get_char`, handlers, set-up | log, run loop |
| locks, `types/resources.h` | flags, tickets, counters | acquire, release | nothing in the kernel yet |
| log, console, exception handler | cursor, what was sent; nesting of faults | write, scroll, control sequences; call stack; `exit` | the screen, the serial monitor, the symbol map |
| start: boot sectors, `start.S`, `entry.cpp`, module manager | memory, mode of the processor, descriptor table, list of modules | read chunks, menu, A20, stubs, video mode, register and open | firmware, then `main()` |
| device discovery, `acpi.cpp`, `pcie.cpp` | functions found, processors found | scan, walk over buses, start processors | the firmware's tables |
| memory runtime, common library | none | move, swap, compare; strings, numbers, formats | everything |
| line editor and shell, `demo/shell` | text, history, completions; directory | keys; commands | the terminal; files |
| tools | tables in a file | read device trees, write the symbol map | exception handler |

### What is hard

- *Interleaving*: the tick advances between any two reads of it; the interrupt comes
  between any two stores of the run loop to the driver's variables, or between the
  restoring and the painting of the pointer; on macOS both run at once; the locks'
  loads and stores mix in any order.
- *Re-entry*: a task body sorts or purges the array the run loop is standing in, and
  `run_scheduled_item` uses its pointer into the array after the call. A fault comes in
  the middle of a control sequence of the log and logs itself.
- *Ordering*: conversions, refusals, sorts and purges come in any order and each goes
  on from counters the others have changed. Keyboard and mouse share one buffer.
  The divisor of the serial chip hides two other registers while it is written.
- *Limits*: arrays that fill up, with a conversion that may fail half way; unsigned
  lengths handed to the sort; tickets and ticks that wrap; lines and names longer than
  the buffers they are read into.
- *Progress*: the scheduler has to schedule its own next run in time, the driver's
  "try again" loops have to end, requests of devices have to be served, and the locks
  have to let everyone in.

What has to hold, per component: no occurrence is lost or doubled, every item is run
once and eventually, the next update is always scheduled, all counters stay within
the array (scheduler core); misses are blamed on those who missed, execution times are
bounded (task manager, run loop); sorting only permutes, and sorts (sort); every task
that runs is watched from its start to its return, and only then, and one timer is one
clock (timers); what is requested is served and ended, bytes and packets survive the
races (interrupts, mouse, serial); one thread at a time, in turn, and everyone gets in
(locks); screen and monitor show what was written (log); the kernel chosen is the one
started, with its interrupts right (start). The properties that say so are in section
3, the hazards they are about in `PROJECT.json`.

## 2. The modules

The scheduler and its preemptor:

| module | what it is |
|---|---|
| `Heapsort` | `k_qsort`: the array as a function, the order of places as result |
| `Scheduler` | scheduler core, task manager, run loop and boot; the timer interrupt as one step |
| `SchedulerProperties` | its properties, its inductive invariant and its fairness |
| `MCScheduler` | the sets of tasks TLC is run with |
| `Heapsort_proofs` | proofs that `k_qsort` rearranges, and orders; inductions over numbers and recursive functions |
| `Scheduler_proofs` | proofs about `Scheduler`, with the inductive invariant `IInv` |
| `Occurrences_proofs` | proofs that no occurrence is doubled or missing, each is run once and none skipped, there is always a next update, and the scheduler uses the preemptor as `Preemptor` says |
| `Preemptor` | abstract: what the scheduler is promised of the preemptor |
| `PreemptTimer` | the drivers, one action per load and store that another actor can notice |
| `MCPreemptTimer` | two tasks and one handler, for TLC |
| `PreemptTimer_proofs` | proofs about `PreemptTimer`, among them that it implements `Preemptor` |

The machine and the locks, concurrent, run together by `MCMachine` (each behaviour is
one of one part, the others at rest):

| module | what it is |
|---|---|
| `MouseStart` | `initialize_mouse` beside the controller, the mouse and a keyboard that is used meanwhile |
| `Pointer` | packets of the mouse, the pointer on the screen, `drawText` in steps |
| `Interrupts` | extends `Pointer`: devices, the two controllers, the handler, `get_char`, `delay` and the timer's functions |
| `FairLock` | abstract: one thread at a time, in the order of asking |
| `TicketLock` | `class TicketLock`, one locked instruction a step; it implements `FairLock` |
| `CriticalSection` | `class CriticalSection`, one load or store a step |
| `Machine_proofs` | proofs of five invariants of `Interrupts`, about `MouseStart` and about the two locks |

The sequential parts and the timers of the ports, run together by `MCParts`:

| module | what it is |
|---|---|
| `Sorting` | `k_qsort` on every small array with every comparison function |
| `Console` | the text screen with its two writers, the driver and the panic |
| `Monitor` | extends `Console`: the log, the console functions, faults in the middle of them, and what a serial terminal makes of the bytes |
| `Uart` | the set-up of the serial chip with its self-test |
| `LineEditor` | the shell's line: keys, history, completions, and the terminal's line |
| `Shell` | the commands |
| `HostedTimer` | the timers on Linux, macOS and DOS |
| `BootSectors`, `KernelStart` | from the disk's first sector to `run_on_line_scheduler`; the second extends the first |
| `Discovery` | the firmware's tables, the buses, the other processors |
| `Memory`, `Blocks` | the memory functions, and calls of them on any blocks |
| `Text` | strings, numbers, formats and byte orders of the common library |
| `DeviceTree` | the reader of device trees |
| `Display` | `draw_tasks`, the view of the schedule |
| `CallStack` | faults, critical errors and `exit`, the call stack and the symbol map |
| `Parts_proofs` | proofs about `Sorting`, `Uart`, `HostedTimer`, `CallStack`, `Discovery`, `Shell`, `DeviceTree` and the two of the start |
| `Screen_proofs` | proofs about the memory functions, about the screen of `Console`, about `LineEditor` and about `Display` |
| `Monitor_proofs` | proof that the terminal at the serial line shows what `Monitor` logged |

`Scheduler` extends `Heapsort` and calls `k_qsort` with its own comparison, so that the
checks run the real sort. `Scheduler` treats install, uninstall and the interrupt as
atomic; `PreemptTimer` refines exactly these three steps, and `Preemptor` is the
contract between the two. Both sides of it are proved: `SchedulerWatches` says that the
scheduler's run loop is an implementation of `Preemptor`, `Implements` that the bare
metal driver is one. For macOS the second fails (see the finding `queue`). `Interrupts`
refines the other side: `timer_handler` is one of its handlers, and that it is called
once for each tick is `EveryRequestServed` there.

### Scheduler

There are two actors: the run loop, sequential from boot to the end, and the timer
interrupt. `pc` is the place of the run loop. An action ends where the code reads the
tick again, so that `Tick` may come between any two such reads; where no tick is read
before the next action `Tick` is left out (`TickAllowed`), as its effect would be the
same one step later.

| code | action or operator |
|---|---|
| `request_to_add_task`, `add_task_to_schedule`, `off_line_scheduler` | `BootRequest` and `AddOnTheFly`, by `RequestToAddTask` = `Refuse`, `AddAperiodic` or `AddPeriodic` |
| `convert_periodic_tasks_...` | `BeginConversion`, `AddOccurrence` (one turn of the loop), `BufferTooSmall`, `EndConversion` |
| `add_to_scheduled_item_list` | `AddToScheduledItemList` with `FirstOverlap`, `SortSchedule` |
| `scheduled_item_cmp` | `Before` |
| `purge_completed_scheduled_items` | `Purge` |
| `online_scheduler` | `Purge`, `NextTask`, conversions, `EndOnlineScheduler` |
| `run_on_line_scheduler` | `StartRunLoop`, `NextItem`, `KeyPoll`, `InstallPreemptor`, `UninstallPreemptor` |
| `run_scheduled_item`, `run_task` | `StartTask`, then the body, then `EndTask` |
| `timer_handler`, `preemptor`, `kill_task` | `Tick` |

A `task_t*` is the place of the task in `task_list` (0 for a null pointer); a
`scheduled_item_t*` is a place of the array, not its content: what
`run_scheduled_item` sees after the task has returned is what is *then* at this place.
`current`, a history variable, remembers what was there when the task was called.
Task bodies are of three kinds: the online scheduler, one that adds a task, and one
that takes time only. Both arrays are one element shorter than the limit their code
tests (`schedule.cpp:28` and `115`); storing the last element either has no effect
anyone sees or ends in `"corrupt"`, of which nothing more is said.

### PreemptTimer

The run loop is reduced to what it does with the preemptor. `install` and `uninstall`
are a test of the flag (`Install`, `Uninstall`), one `Store` per assignment, in any
order, and `Return`, which clears the flag. The bare metal driver declares neither the
flag nor the rest `volatile`: the stores in between are the compiler's to reorder and
the first store to the flag its to leave out (`Claimed`). The handler is `Interrupt`,
`Serve`, `ReadTick`, `WriteTick`, four `Test`s, `Claim`, `Call`, `Leave`. With
`Threaded = FALSE` the run loop stands still while a handler is under way; with
`TRUE` (macOS) it does not. `Call` ends the system, as `kill_task` does, or crashes it
when the function or the task it gets is null.

### Interrupts and Pointer

There is one processor. `Accept` or `Spurious` puts a vector in `running`; the gates
keep interrupts off, so the handler is one step, `Handle`: `Dispatch` to the device's
handler and `Ended`, the ends of interrupt it sends. Meanwhile only devices go on. The
program takes a step when no handler runs: `get_char` (`WaitForKey`, `Choose`,
`SerialChar` in two steps, `ReadKey`), `delay` (`Delay`, `CheckOverflow`, `DelayLoop`,
one step per read of the tick), the functions of the timer (`Disable`, then `Enable`),
and `drawText` (`BeginText`, `RestoreMouse`, `PutGlyphs`, `SaveMouse`, `PaintMouse`).
The screen is one row of text; a cell shows a glyph or a part of the arrow.

### MouseStart

`initialize_mouse` is a list of steps: a command, data, a read. `WritePort` and
`read_data_port` do the next of them at any time, as the loops before them give up in
silence; `gave_up` remembers that one did. The controller (`TakeCommand`, `TakeData`),
the mouse and the keyboard take turns at one buffer for the program.

### Locks

A thread calls any lock as often as it likes, or never. `TicketLock` uses locked
instructions, each a step. `CriticalSection` has plain members: each load and store is
a step, and the threads share one processor, which sees its own stores in order.

### The sequential parts

Their actions are calls: one per operation, with its inputs from small sets, or one per
turn of a loop where something else reads what the loop has left. Words, names and
characters are members of small sets; where the code decides by the characters (a `-`, a
newline, a digit, a blank), the model has the decision. `Monitor` gives each call the
list of its orders to screen and line, since a fault may come after any of them.
`KernelStart` builds the descriptor table and the stubs byte by byte, as the code does,
and follows the jumps afterwards. `HostedTimer` keeps every timer `enable` has made.
`Display` reads the tick three times a row, as the code does, and the tick may advance
between any two of these reads.

## 3. The runs

Passing runs:

| run | properties | what it shows |
|---|---|---|
| `fast` | `EveryOccurrenceOnce`, `EvaluatedToNextUpdate` | with tasks *more* frequent than the online scheduler, as `main()` has them, and refused, waiting, one-shot, ending and late tasks, occurrences of each task are in the array exactly once, without a gap, up to where the task was evaluated; the next update is always there and comes before any task runs out of occurrences |
| `slow` | `RunsAreBounded`, `OccurrencesInv`, `RunOnce`, `EveryItemRuns` | with all tasks *less* frequent than the online scheduler, through purges: there is always room, and the invariants behind `EveryOccurrenceOnce`, `NoneSkipped` and `EvaluatedToNextUpdate` hold, as the theorems `EveryOnce`, `ListInOrder`, `SlowTasksRun` and `AlwaysNextUpdate` have them; each item is run once, none is passed without running, each is run eventually, none for longer than its bound and the margin |
| `full` | `IInv`, `SortRange` | both arrays fill up, at boot and on the fly: counters stay in range, no addition sorts a range of negative length, and the invariant of the proofs holds |
| `interrupt` | `WatchesTasks`, `TaskIsStarted`, `OverrunEnds` | the bare metal driver implements `Preemptor` wherever the interrupt comes; the retries end; a task that does not return ends the system |
| `machine` | `EndsAreDue`, `EveryRequestServed` | a handler leaves no line in service, and sends no end of interrupt to a controller with nothing in service, spurious interrupts included; every request of a device is served |
| | `NewestByteKept`, `PacketInStep` | the program loses no newest byte to the handler it races with; it never takes a byte of the mouse for a key, so mouse and driver stay in step |
| | `MouseStarted` | after `initialize_mouse` the mouse streams and may interrupt, and for each byte of the keyboard that was taken for another one byte stays behind, no more |
| | `DelayNotShort`, `PointerOverText` | delays last, also over the wrap of the tick; the screen is the text with the pointer over it |
| | `IsFairLock`, `EveryTicketServed`, `MutualExclusion`, `EntrantsGetIn` | the ticket lock excludes, in turn, and lets everyone in; the critical section excludes, and lets everyone in where every thread it has room for comes to it at some time |
| `parts` | `SortsArray` | `k_qsort` permutes whatever the comparison function says (the scheduler's contradicts itself when tasks wait for one another), and orders when the function is an order |
| | `ShowsLastLines`, `MonitorFollows`, `NamesTheCallers` | the screen shows the last lines of what driver and panic wrote; the monitor gets what was logged even when a fault splits a sequence; the call stack names the functions that called |
| | `BoardShowsPlan` | bars and marks are those of the schedule drawn last, where its items are expected to run, and nothing else is left on the board |
| | `SetUp`, `OneClock` | the chip ends with the speed and format asked for and is silent until then; the timer of Linux is one clock under any sequence of calls, those of macOS and DOS as long as it was enabled once |
| | `TerminalShowsText`, `KeysKeepLines`, `HeadPrintsFirst` | the terminal's line is the text; keys lose no line of the history, TAB inserts what all matches share; `head` prints the first lines or characters however `fgets` cuts them |
| | `KernelAsChosen`, `ReadyToSchedule`, `FindsTheMachine` | the kernel behind the active partition, with the entry chosen; every interrupt let in reaches its handler under its own number, the serial ports are open, the last registered first, and the mode is the closest of the first `MaxModes`; every reachable function is found, and every processor of a table that numbers them from 0 |
| | `TextIsExact`, `TreeReadBack`, `BlocksArrive` | strings, numbers and formats against sequences of characters; what is printed of a device tree against the tree, but for the last byte of values that are not printed as numbers; blocks against an abstract move |

Runs that find a disagreement between the code and what the repository says of it
(each with its quotation in `PROJECT.json`):

| run | property | what happens |
|---|---|---|
| `skips` | `NoneSkipped` | the search for the overlap starts at the item that is *running*, so an addition made by a task re-sorts that item too. Another item takes its place, is marked done and passed, and has never run; the assertion at `schedule.cpp:214` states the contrary |
| `misses` | `MissesAreCounted` | after the call `run_scheduled_item` compares with the deadline of, and blames, whatever is now at its place |
| `rejected` | `RejectedNeverRun` | a request answered with "buffer too small" leaves the task and some of its items behind, which then run |
| `waiting` | `WaitForAnswer` | the presence of the task to wait for is tested with the name of the new task |
| `queue` | `UninstalledNotCalled` | on macOS the handler tests, the run loop uninstalls, the handler finds `tick >= 0` and calls a null function |
| `overflow` | `OverflowOnly` | `delay(0)`, which the tasks' `delay(k_random(5))` asks for, with a tick between its two reads of the clock, ends the system as "overflow" |

`NoneSkipped`, which `skips` refutes, is a part of the `OccurrencesInv` of `slow`: it holds
when every period exceeds that of the online scheduler and fails otherwise.

### What the properties leave out on purpose

Several properties hold only under a condition that the code does not ensure; the
condition is a part of the property, and these are the cases outside of it.

- `EveryOccurrenceOnce` is checked with arrays that never fill up: a conversion that
  failed half way is repeated from its start (`schedule.cpp:162` against 196) and
  doubles occurrences. `full` checks what remains true then. And the theorem that none
  is missing is about requests that do not wait for another task; with some that do,
  it is checked by `fast` for the tasks there.
- `PointerOverText` stops where a packet moves the pointer off or onto a text while
  `drawText` draws it: `drawText` does not keep the mouse interrupt off.
- `OneClock` is about macOS with one dispatch source and DOS with one call of `enable`:
  further calls make sources that race, or a handler that calls itself.
- `EntrantsGetIn` is about critical sections of which every thread enters at some time.
  Otherwise it is false: the constructor leaves all flags at `WAITING`
  (`resources.h:612`) and only `Leave` sets one to `IDLE`, while `Enter` waits until the
  flags from the active thread's to its own are `IDLE` (642). A thread therefore waits for
  ever for one before it that never comes; with room for two, the second does so when it
  is the only one that ever calls `Enter`. TLC finds this for `EveryEntrantGetsIn` under
  `SectionSpec`.
- `MouseStarted` is about starts where no loop of the driver gave up.
- `BoardShowsPlan` asks for the bars of items that are not late: the column of one that
  is late wraps and is off the board. And two bars may share a column when the tick
  advances while they are drawn.
- `TerminalShowsText` stops at a message printed over the line; `MonitorFollows` leaves
  out the full block, of which one byte of three is sent (`debug_logger.cpp:51`).
- `KernelAsChosen` allows the last chunk to be missing (960 of 1024 sectors are read,
  `volume_boot_record.S:235`) and asks for starts below 65535: beyond, the carry goes to
  the wrong place.
- `HeadPrintsFirst` leaves out lines that `fgets` cuts, and numbers that are not of an
  `int`.
- `FindsTheMachine` takes a bridge in a device of several functions (header type 81h) as
  the code does, as no bridge. What it says of the processors is about tables that have
  no more of them than there is room for and number them from 0 in their order. The
  model has other tables too: an identifier that is the number of another entry sends
  the reset to a processor that may be the one that runs this (`acpi.cpp:116`), the ones
  beyond `core_ids[128]` are written over the stack (150, `"overrun"` in the model), and without any entry the number of
  the one processor is whatever was in memory (174-177).
- `ReadyToSchedule` compares the screen mode with the first 32 of the firmware's only:
  there is no room for more in `modeTab` (`entry.cpp:272`, 297, 341).
- `TreeReadBack` allows values that are taken for strings, `compatible` and values of no
  whole number of words among them, to lack their last byte
  (`device-tree-parser.cpp:123`): of an address of six bytes the last is lost, though the
  tool's output is meant to be "same/similar" to that of dtc (`Makefile:11`).
- `NewestByteKept` takes the accesses to `serial_data_waiting` and `serial_data_ch` in the
  order they are written in, although neither is `volatile` (`serial_16650.cpp:261`-`284`).
- `TextIsExact` is about numbers from 0 on; `makeNumberString` is wrong for others.

Met while modelling, and not worth a run of their own. Scheduler: the newest item is
not counted yet when the array is sorted (`schedule.cpp:146`), so the array is in
general not in order of deadlines; the purge's assertion is about items it may have
displaced (213-216); an occurrence may end after the time its task is to be complete
at (169 against 188); answer 6 has no message (`helpers.cpp:75`);
`documentation/README.md:56` speaks of the bound where the code adds a margin of 20
ticks; `check_sorted` stops the system when two neighbours compare as equal
(`utilities.cpp:112`). Machine: `speed_up_timer` doubles the divisor and so slows
(`driver.cpp:438`); `suspend_timer` does not stop the ticks; a packet with an overflow
reuses the movement before it; a key pressed while `initialize_mouse` runs may leave
the mouse's answer in the buffer, which `mouse_handler` takes for the first byte of a
packet, or may be written back as the controller's command byte, which can switch the
keyboard off; a shared edge-triggered serial line can be missed, which
the chip's time-out repairs. Locks: the atomics access 32 bits
of one-byte flags, and `atomic_store` is a `lock; movl`, an invalid instruction
(`resources.h:445`). View of the schedule: `draw_tasks` clears with
`puts2` and draws with the log, so that the serial monitor never has its rows cleared.
Log: `goto_xy` is one
further right and down on the monitor than on the screen; `log_number` of a negative
number indexes before its digits (`debug_logger.cpp:109`), and `exit(-(int)fault)`
calls it. Serial: `parity_t` gives no parity for `EVEN` (`serial.h:39`). Start: the
waits for the keyboard controller are inverted in the A20 code; the last entry of the
memory map is lost; `putPixel` has no case for the depth 8 that `findMode` accepts.
Discovery: for a function 0 of the first host that is absent, the type
reads FFh and seven more hosts are tried (`pcie.cpp:74`). Shell: TAB after
`ls ` completes commands; a failed `chdir` still overwrites the directory `cd -` goes
to; `date -n` asks for an argument. Library: `Dict`'s search is inverted; a parameter
that contains `{1}` is expanded again; `mem_cmp` answers 0 for two lengths at one
address; a leaf's `find` in `tree.h` goes on to another parent's child.

### Bounds

| bound | where | why it is enough |
|---|---|---|
| `UPDATE_SCHEDULE_RATE` = 3, periods 1 to 4 (1000 and 50 to 1000 in the code) | `MCScheduler` | only their ratios matter: periods below, at and above that of the online scheduler, which is 2 |
| `MAX_SCHEDULED_ITEMS` = 40 in `fast` | | more than the occurrences up to the last tick: the array neither fills up nor is purged |
| = 14 in `slow` | | half of it is reached after few updates: several purges; it never fills up |
| = 8 in `full` | | conversions fail at boot and on the fly; the last element is stored behind the array |
| `MAX_TASKS` 8, 3, 4 | | not reached, exactly reached, exceeded |
| `MaxTick` 6, 12, 9 | `TickAllowed` | at least three updates, started at ticks 0, 2 and 4 when nothing delays them |
| `BootTicks` 0 or 1 | | ticks that pass during boot, before the tick is set back |
| `Lag` 0 or 1 | | how many ticks an item may be noticed late; a task may still run late for longer because the one before it took its time |
| `FudgeMargin` = 1 (20 in the code), 2 in the timer runs | | any positive margin; the proofs have it as a parameter |
| `MaxTick` = 8, two tasks with bounds 0 and 2 | `MCPreemptTimer` | every task can be run, overrun and be followed by another |
| `TickRange` = 4, delays 0, 1 and 3; the ticks never end | `MCMachine` | every delay is started at every tick, so that it wraps, fits and just fits; the proofs have any range |
| each line asks once, the mouse twice where the program draws, each spurious line once beside the delays | `Budget` | two handlers on one line, on both controllers, and a spurious one between any two steps; the proofs have any budget |
| four columns, two texts of two columns, packets that move by 0 and by -8 and that overflow | | the pointer at 200 pixels beside, over the edge of, and on a text |
| two keys, one of whose bits are those that switch the keyboard off; at most two are sent | `MCMachine` | each of the driver's three reads can get a byte of the keyboard; the proof has any number |
| three threads, three tickets | | every ticket is drawn again, the counter wraps with all threads waiting; the proofs have any number |
| three keys, up to five elements | `MCParts` | a heap of three levels, all comparison functions that put no key before itself |
| screen of 2 x 3, three writes; two logs of up to one string or number, with one fault | | wraps, scrolls, a fault after every order, a panic on a scrolled screen |
| five rates, four formats, a chip that works and one that does not | | the first, the last and the middle of the divisors |
| text of 5, five keys, three commands and three files | | insert, delete, history and completion after one another, a common part of two matches |
| four calls, two ticks, a speed wait of up to 1 | | enable twice, with a pause, a resume and a change of speed between |
| about 2800 command lines; pieces of 3 characters | `CommandLinesDef` | every option before, behind and without its number; lines longer than a piece |
| partition tables with one, two and no active entry, sectors numbered modulo 8, a kernel of 6 in chunks of 2 | `TablesDef` | the carry of the sector's number, the last chunk; two key presses reach each half of the menu |
| lists of up to six modes, `MaxModes` = 5 (32 in the code) | `ModeListsDef` | a mode that fits best comes behind the last one looked at |
| five places on three buses, five kinds of function | `MachinesDef` | every subset of them: bridges to a bus, to one in range and to none |
| room for three processors (`MaxCores`, 128 in the code), numbers up to 4 | | tables that are empty, that fit, that are one too long, and that have numbers twice, out of order, or not that of the processor that runs this |
| bytes modulo 8, so that an `int` ends at 2047 | `Text` | all carries of the byte orders, the largest `int` |
| memory of 5 bytes, two calls | `Blocks` | every overlap of two blocks, in both directions |
| up to four items in a root, two reservations | `DevicesDef` | nested, closed and empty nodes; names and properties that look like tokens; values that are strings, numbers, and of no whole number of words |
| two rows, six columns of two ticks, up to three items, two drawings, one tick during each; ticks modulo 64 | `Display` | items that are late, wait for the one before, are shorter than a column, run over the border, or have no row |
| maps of up to five symbols, stacks of up to four words | | addresses before, between and behind all symbols; one more call than the limit |

Deadlock is not checked: the system stops in `"killed"`, `"exited"`, `"finished"`,
`"corrupt"` and `"crashed"`, the modelled time ends at `MaxTick`, the program of
`Interrupts` may stop with an error, and the sequential parts end. That the run loop
cannot be stuck elsewhere follows from `EveryItemRuns`, `TaskIsStarted` and
`OverrunEnds`; that the ticket lock and the machine cannot, from their liveness
properties (for the critical section see `EntrantsGetIn`).

One assumption about time is made: fewer ticks pass between the evaluation of the due
tick and the end of `install` than the bound and the margin (`PreemptTimer`'s
`TickAllowed`); with 20 ticks of margin a violation would need the processor to spend
longer in four assignments than a task is allowed to run. And one about a device:
the first byte of a packet has its fourth bit set (`MachineAssumption`), as every mouse
sends it; without it the driver skips bytes until one has.

### Fairness

`FairSpec` of `SchedulerProperties` asks that the processor goes on executing the run
loop and that the timer goes on ticking (`WF_vars(Tick)`). The first is written as
`Progress`: infinitely often no step is possible, or a step is taken that is not a
tick. It is weak fairness of `RunLoop \/ TaskBodies`, written out so that TLC need not
evaluate whether each sort could be made in every state. It also makes task bodies
return; one that did not would be ended by the preemptor, and `EveryItemRuns` has that
outcome as one of its own.

`FairSpec` of `PreemptTimer` asks it of `install` and `uninstall` (`Steps`), of each
handler once entered, and of the hardware (`Interrupt`), but neither that a task
returns nor that there is a next task: `OverrunEnds` is about the task that does not.

`MachineFairness` asks strong fairness of `Accept`: the processor takes a request as
soon as its flag lets it, but the flag goes off and on as handlers and the timer's
functions come and go. Handlers return, a function of the timer that switched
interrupts off goes on to switch them on, and a port that holds bytes asks again (its
time-out): weak fairness each. Nothing is asked of the program otherwise.

The locks: a thread that holds one leaves it in the end, and a processor executes the
instructions of a thread that is in `Enter`, `Leave` or between them (weak fairness
each). That a thread comes to a lock at all is not asked; `EntrantsGetIn` has it as its
condition. `MCMachine` restricts the fairness of a part to the
behaviours of that part; the sequential parts have none.

## 4. The proofs

All statements hold for every value of the constants that satisfies the module's
assumption (`ConstantsAssumption`, `TimerAssumption`, `MachineAssumption`,
`MouseStartAssumption`, `TicketAssumption` and so on): positive rate and margin, limits
of at least two items and one task, any requests; one interrupt for the bare metal
driver; any range of the tick that holds the delays, any packets, texts and budgets; any
number of threads, and as many tickets as threads at least. TLAPS checks them to the
last leaf.

`Scheduler_proofs`:

- `Invariance`: `Spec => []IInv`. From it `TypeCorrect`, `Bounded`
  (`RunsAreBounded`) and `SortRangeHolds` follow.
- Why `IInv` has the parts it has. That the counters stay within the array needs the
  run loop to point at a counted item (`PointerInv`: otherwise the increment of
  `item_upto` could leave the list behind), and a purge keeps it there only because
  one item, that of the online scheduler, is running. That a counted item names a task
  needs the sort to permute, and tasks never to go. `RunsAreBounded` needs
  `PreemptorInv`: while a task runs the tick is below the due tick, which is at most
  its start, bound and margin away; this in turn needs that the preemptor was
  installed before the start was stamped. `BootInv` is there because the tick is set
  back to 0 when the run loop starts.
- There is one lemma per action; those that add items share `AddKeepsNames` and
  `FirstOverlapFound`. That sorting loses no item is `SortRearranges`.

`Heapsort_proofs`, for arrays of any length and any comparison function: `SortRearranges`,
that `k_qsort` permutes the range whatever the function answers (the scheduler's
contradicts itself), and `SortOrders`, that when it is an order nothing is left behind
an element it goes before. The library's induction theorems take an operator as a
parameter; the inductions here are over *sets* of numbers instead (`Smallest`,
`Upward`, `Downward`, from the well-foundedness of `<`), and `RecursionRuns` is that
some function satisfies the equation of a recursion over `0 .. n`. `SiftDownSifts` is the lemma
about one sift: below the sifted parent everything is in heap order, and nothing else
has moved. `SortsArray` of the run `parts` is the same on small arrays, and
`EveryArraySorted` the theorem about it.

`Occurrences_proofs`, on top of `Invariance`:

- `NeverTwice`: `Spec /\ []RoomLeft => []NoOccurrenceTwice`. `TwiceInv` adds to it how
  far each task is evaluated: all its items start before that, and the occurrence
  being converted is the next one (`Converted`). Sorts keep it because they rearrange
  (`RearrangedOnce`), purges because they take away (`DroppedFirst`).
- `EveryOnce`: if no request waits for a task, `Spec /\ []RoomLeft =>
  []EveryOccurrenceOnce`. That none is *missing* needs more than what a purge takes: it
  takes from the front, so the items of one task have to stand in order of time
  (`Ordered` in `GapInv`), and that needs the sort to order. `scheduled_item_cmp` is an
  order of the deadlines when no task waits, and none otherwise, hence
  `NoRequestWaits`; no caller in the repository passes a task to wait for
  (`main.cpp:417`-`426`, `helpers.cpp:335`).
- `RoomLeft` is a hypothesis over the whole behaviour: a conversion that fails half way
  is repeated and does double occurrences. `fast` and `slow` satisfy it.
- `SchedulerWatches`: `Spec => Watching!Spec`, the refinement of `Preemptor` with the
  task that is armed, and its bound, as `watched` and the due tick as `due`. `WatchInv`
  says that nothing is installed between two tasks and that what is installed is so
  for a task there is; `FixedKept`, that no step changes the bound or the period of a task.
- `PassedOnce`: `Spec /\ []RoomLeft /\ [][PassedStay]_vars => RunOnce /\ []NoneSkipped`,
  for all requests. Its hypothesis `PassedStay` is what the code's assertion at
  `schedule.cpp:214` takes for granted: no step but a purge or the end of an item
  changes what the run loop has passed or stands at. `skips` shows that it is not
  always so. `RanInv` says that what has been started is of a task that was
  converted beyond it, so that it is not converted again, and that nothing from
  `item_upto` on has been started, except for the item that is running. That no
  occurrence is in the list twice (`TwiceInv`) is what makes passing one item no
  matter to any other.
- `ListInOrder`: under `SlowerThanOnline` the hypothesis `PassedStay` need not be made:
  `Spec /\ []RoomLeft => []OccurrencesInv`, and from it `SlowTasksRun` (`RunOnce /\
  []NoneSkipped`). `SlowerThanOnline` is that the first request is the online
  scheduler's, with a period below the rate, and that all others are for tasks with a
  longer period, from the start and without an end. `PaceInv` is about the pace of the
  two. While the online scheduler's body runs, all tasks are evaluated beyond one period
  from the start of its item, and those it has taken already beyond two (`Updating`);
  its own next item is thus in the list when it ends, and each task is evaluated beyond
  one period from *that* (`Updated`, `NextUpdateFrom`). The new items start behind the
  deadline of the running one: so the sort begins behind it, and `PassedStay` follows
  (`SortPaced`). The first sort is different, since it starts at the front of the list:
  there the first item has to stay because it is the earliest (`FirstUpdate`,
  `FirstSortKeepsFirst`), which the boot ensures (`BootPaced`). `SlowTasks` of the run
  `slow` satisfy the hypotheses; `main()`'s own requests do not (some of its tasks have
  shorter periods than the online scheduler, one runs once and adds another), and for
  tasks like them `NoneSkipped` is false.
- `AlwaysNextUpdate`: `Spec /\ []RoomLeft => []EvaluatedToNextUpdate` under
  `OnlineFirst`, which `main()`'s requests (`main.cpp:417`-`426`) and the one made on
  the fly (`helpers.cpp:335`) satisfy: the first request is the online scheduler's,
  tasks without an end may run from the start, at any pace, and a task that adds another
  runs once, with a deadline before the other starts (10500 and 20000 there), and the
  other has an end. With faster tasks a sort does move the item that runs: an item whose
  deadline comes first is put before it. So `AheadInv` does not look at the item at
  `item_upto`, but says that the occurrence that *runs* (`current`) is still listed, at
  `item_upto` or behind it (`UpdateAhead`), since every sort starts at `item_upto` or
  later (`SortStays`, `AddStays`), the one that ends the body included. When the body
  ends, all endless tasks are evaluated beyond the occurrence that follows it; this one
  is in the list because nothing is missing there (`Gapless`), and behind it because the
  items of a task are in order (`Ordered`), thus behind `item_upto`, which the run loop
  passes next. For a body that adds a task, that the deadline of its item is before the
  new items start puts the sort behind that item (`AdderAhead`). Such a sort leaves out
  the newest item, so that the update that is meant is always one of those that are
  sorted (`Sorted`). That `SlowerThanOnline` is a case of `OnlineFirst` is
  `SlowerComeFirst`, so that `AheadInv` is part of the `OccurrencesInv` that `slow`
  checks.

`Parts_proofs`, one theorem for each of the parts:

- `PortSetUp`: `UartSpec => []SetUp`. `UartInv` follows the twelve writes of the set-up,
  with what is in each register after each; `DivisorBytes` puts the divisor together
  again. It holds for every rate and format, and for a chip that fails its test.
- `TimerIsOneClock`: `HostedSpec => OneClock`. On Linux this is about every sequence of
  calls and any number of timers made, on macOS about the time while there is one
  source, on DOS about that before the handler takes itself for the one before it:
  `OneClock` claims nothing beyond, where the code goes wrong. `ClocksInv` says of Linux
  that at most one handler is under way and that a paused program has none; of macOS
  that the handler's read is never older than the tick while there is one source; of DOS
  whose vector it is.
- `KernelIsTheChosenOne`: `KernelSpec => []KernelAsChosen`, for every partition table
  and every series of keys; the order of the sectors is claimed for partitions that
  start at least two below `WordRange` (2^16), since beyond the code adds the carry to
  the wrong word (`volume_boot_record.S:164`-`171`), and the last chunk may be missing.
  `ReadingInv` keeps an account of sectors (read, remaining, next number with its
  carry), `MenuInv` follows the entry modulo four. Its hypothesis `KernelFits` is that
  the numbers of the kernel's sectors fit into 32 bits, with a chunk and a word to
  spare: 1024 + 64 + 65536 against 2^32 in the code, 6 + 2 + 8 against 64 in the run.
- `CallersAreNamed`: `CallStackSpec => []NamesTheCallers`, for every list of symbols in
  order of their addresses and every stack. The tool's table keeps each address and
  where its name is (`TableMade`); the binary search, a recursive function over windows
  of the table, leaves the caller in the half it goes on with, by induction over the
  width of the window (`SearchFinds`); and reading the name from its place ends at the
  next one's (`NameFound`). `CallStackInv` says that what was printed are the code
  addresses among the words that were taken off the stack (`CodesFound`).
- `KernelIsReady`: `KernelSpec => []ReadyToSchedule`, for any drivers built in and any
  modes and memory the firmware reports, of which the first `MaxModes` modes count.
  `TableLoaded` follows the jumps from the entry of each of the 48 vectors: what a loop
  of `load_idt` adds and leaves alone (`LoopLoads`), and that all displacements fit a
  signed byte (`StubsJump`). `PortsRegistered` is that each class lists its drivers, the
  last registered first, and `ModeFound` that none of the modes looked at is closer than
  the one found; both are inductions over lists. `StartInv` says for each part of the
  start what the parts before it have left; the calls of the firmware are in it because
  `unmasked` grows to all lines, and no more. The assumption `DeltaAssumption` is that
  the differences of the firmware's modes fit an `int`, which `findMode` takes for
  granted.
- `MachineIsFound`: `DiscoverySpec => []FindsTheMachine`, for any tree, or tangle, of
  buses, and for tables of up to `MaxCores` processors numbered from 0 in their order;
  of other tables nothing is claimed. `checkBus` calls itself for the bus behind a
  bridge only if that has a higher number, so an induction from the last bus down
  (`FromAbove`) shows that there is such a function at all (`CheckRuns`) and what it
  finds on a bus (`BusChecked`). `AllFound` is that this is what can be reached:
  `Reached` is the least set of buses that holds the first ones and those behind its own;
  every such set holds all buses looked at, and the buses of which everything is found
  are such a set. `DiscoveryInv` says of the processors which have been reset and
  which run, entry by entry, if they are numbered so (`Numbered`).
- `HeadIsFirst`: `ShellSpec => []HeadPrintsFirst`, for any files, command lines and
  length of `fgets`' buffer. What is read of a file is lines with their ends in it
  (`CutAt`, `FileCut`); after each of them `HeadLine` has printed the text up to its end,
  or up to the last character asked for (`HeadInChars`, `HeadInLines`). That a piece is a
  line takes that it ends with a newline or at the end of the file, which `LinesFit`
  gives (`LinesEnd`), and that it has no other newline; then its end is where the
  newlines before are counted out (`FirstLinesCut`). The words are parsed one by one
  (`WordsParsed`): the option, its number in its own word or the next, the rest as the
  list (`NumberParsed`, `ListAnswered`). The invariant adds to the property only that
  the command line is one of words known; `ShellAssumption` says what is known of them
  and of the files.
- `TreeIsReadBack`: `TreeSpec => []TreeReadBack`, for any trees and reservations; of a
  value that is not printed as numbers it allows the last byte to be missing, as the
  code has it (`ShownIsPrinted`). What the
  parser reads is the words of the items one after the other, and what it should print
  their lines one after the other (`TreeWords`, `TreeLines`, by `FlattenRuns`). `TreeInv`
  says that the first `k` items have been read, for some `k`: their lines are printed, as
  many nodes are open as they leave open (`NodeAt`), each of these begins one word behind
  the place its parent is at (`Nested`), and the place in the innermost is where item
  `k + 1` begins, or at the last word of the root's name (`ReadTo`), which is read as a
  token of no meaning. `NextToken` says of the word at that place that it is the token of
  the next item, and `BeginNodeReads`, `PropertyReads`, `UnknownWordReads` and
  `EndNodeReads` that each pass then reads just this item, its name and value with it.
  `DeviceTreeAssumption` is what a well-formed blob is: one root, with an empty name, closed
  by its last item; a NUL in the last word of a name and in no other; as many words in a
  value as its length takes.

`Screen_proofs`, for memories, screens, strings, texts, completions and schedules of every
size:

- `MemoryIsExact` (`BlocksArrive`). The recursions of `Memory` are recursive functions
  over the bytes done so far; a lemma for each says what they are
  (`SetFills`, `CopiesUp`, `CopiesDown`, `SwapSwaps`), by `AgreeUpTo`: two functions that
  agree at 0, and at each number if they did at the one before, agree. What has been
  copied after `n` bytes is `Moved` for a block of length `n`, and this is where the
  direction matters: from the front, the byte copied next lies behind all that was
  written, as the place is before the block. `ComparesExactly` is that the first
  difference decides, and else the length.
- `ScreenShowsLastLines` (`ShowsLastLines`). `ScreenInv`: whoever writes, the driver or
  the panic, has a screen that `Shows` the paper, the cells, the cursor and the line it
  stands on. A character keeps that (`PutCharShows`), which is the case of the next line
  (`NextLineShows`), where the screen scrolls (`Scrolled`) as the paper grows, and the
  geometry that no two places share an address (`PlacesDiffer`). That a string keeps it
  is `StringRuns`, an induction over its characters; the panic's code is another one
  than the driver's, and `PanelPutsChar` shows that it computes the same.
- `TerminalAlwaysShowsText` (`TerminalShowsText`). `TextInv`: while a line is read the
  terminal is either an empty line, after a message was printed over it, or `LineShows`
  the text behind the prompt with blanks behind it. What is sent to the terminal is
  followed one character after another (`OutputSends`), and in two parts as in one
  (`OutputJoins`), so `refreshLine` splits into going back, blanks, going back and the
  new text (`RefreshShows`). It goes back from the cursor over the whole text, which
  stops at the start of an empty line: that is why a spoilt line heals at the next edit.
- `LinesAreKept` (`KeysKeepLines`), with `HistoryInv`, that the line shown is one of the
  history or the empty one above it. Storing the line that was just fetched changes
  nothing (`WalkKeeps`). For TAB, every completion starts with the word before the
  cursor (`CompletionsGoOn`), that word is a text (`SplitsIntoTexts`), and
  `CommonLength` is the first place where the completions part (`CommonIsFirst`), hence
  what is inserted is shared by all and is all that is shared (`TabInserts`).
- `ViewShowsSchedule` (`BoardShowsPlan`). `BoardInv`: what the last drawing left is
  `OfItems` of its schedule, at the ticks it was given: each bar and mark is of one of the
  items, the columns of every bar show something, and nothing is beyond the border. This
  goes item by item (`DrawnOfItems`). Then columns are compared with ticks:
  a tick has a column left of the border only if it is not over (`ColumnOfTick`, where
  the difference wraps), and a column is one of a bar just when its ticks are ticks of
  the run (`BarIsRun`). `FinishIsCompletion` shows that the running maximum of
  `draw_tasks` is the latest of the times at which its task would be complete had it
  waited for the items from one of them on. Two bars share no column as completions
  grow (`CompletionsGrow`). Assumed, and checked on the run: `TicksFit`, that expected
  and allowed times fit the word of a tick, and that the clock is further from its
  wrap than the screen is wide; beyond that an item that is late by almost the whole
  range of ticks would be drawn as one to come.

`Monitor_proofs`, for any boxes, characters and numbers that are logged:

- `MonitorKeepsUp` (`MonitorFollows`). A sequence of orders is *good* for a terminal and
  a log (`Good`) when, sent to the end, it leaves the terminal outside any control
  sequence and showing what is then logged. `FollowInv` says that the orders that are
  left are good for the terminal as it is. Each order keeps this by the definition
  (`GoodFirst`), so what has to be proved is that a call is good where it begins
  (`CallsProper`): for characters and boxes from `PlainApart`, for `clear_screen`,
  `goto_xy` and formats from what `log_number` and `k_log_vfmt` write (`FormatRuns`), of
  which the terminal reads the decimal numbers back (`DecimalRead`, `SpellsPosition`). A
  fault begins its own call inside another one, where the terminal may be in the middle
  of a control sequence and `both` may be off (`FaultProper`): its `clear_screen` sends
  an ESC, which begins a new sequence wherever it comes, and the log is empty after it.
  That the bytes are received one by one as they are altogether is `ReceiveJoins`.
  Assumed, and checked by the run, is `MonitorAssumption`: each box has three bytes, the
  first of them E2, and the other two are neither characters that are logged nor of a
  control sequence.

`PreemptTimer_proofs`, for `~Threaded`:

- `TimerInvariance`: `Spec => []TimerInv`, which no run repeats. It relates three
  partial views: what `install` or `uninstall` has stored so far (`Installed`,
  `Uninstalling`, `Installing`, `Nothing`), what the handler has already found
  (`HandlerInv`: it stays true, as the run loop stands still), and the time that is
  left. A handler that leaves without calling must have found a task whose tick is still
  to come: that is the conjunct which makes the next tick legal.
- `Implements`: `Spec => WatchesTasks`, that is `Preemptor`'s specification with `now`
  counting completed handlers, `watched` the task that runs or the one whose preemptor
  could still fire while `uninstall` is under way. The last store of `install` is
  `Watch`, the first effective store of `uninstall` is `Release`, `Leave` and `Call`
  are `Tick`, and every other step changes nothing (`LoopImplements`,
  `HandlerImplements`).

`Machine_proofs`, first five theorems about `MachineSpec`, the safety properties of the
run `machine`:

- `ServiceEnds` (`EndsAreDue`). `ServiceInv` says what is in service for
  each vector that may be running: the line, with the cascade if it is one of the
  slave's; nothing for a spurious 7, the cascade for a spurious 15. `EndsService` shows
  that the ends of interrupt sent clear exactly that; it needs that a controller picks
  a line out of those that ask (`FirstIsIn`, from the well-foundedness of the ranks).
- `PacketsStayInStep` (`PacketInStep`). The remainder is not inductive: `PacketInv`
  strengthens it to "none or three bytes", and adds that the mouse asks or is served
  only while its byte is in the buffer, and that the program is about to read the
  buffer only when a key is in it. `stage = "choose"` is the place where it has looked
  and not read yet.
- `DelaysAreLongEnough` (`DelayNotShort`). `DelayInv` compares the tick waited for with
  the tick and the ticks still to see: equal, or a whole range apart before the
  overflow check, which takes out just the second case.
- `SerialKeepsNewest` (`NewestByteKept`) is inductive as it stands, because the
  program clears the flag *before* it reads the byte.
- `PointerStaysOverText` (`PointerOverText`). `PlacesInv` says for each place of
  `drawText` what the screen and the saved pixels are; `UntouchedText` is the geometry:
  a text that `overlapsMouse` rejects has no column under the pointer.

`MouseHasStarted` is about `initialize_mouse`: `MouseStartSpec => []MouseStarted`. The
core of `StartInv` is an account of bytes, `BytesInv`: what the controller was asked
for, and the keyboard's bytes the driver took, are together what the driver has read,
what is unread and what the mouse owes. As long as no loop gave up, the controller is at
most one write behind (`PendingInv`), which says what it takes data for (`AwaitsInv`),
and before the mouse is asked nothing but the command byte can have come
(`FirstByteInv`).

The locks, in the same module: `CriticalSectionExcludes` (`MutualExclusion`) from
`SectionInv`, whose core is that of two threads not both can have found the other
inactive since they became active; `LineInOrderAlways`, that the threads with a ticket
stand in line with consecutive tickets modulo their number, and from it
`TicketLockIsFair`: `TicketSpec => IsFairLock`, a refinement of `FairLock` with the
threads inside as its state. It needs at least as many tickets as threads, else two
would hold the same one.

Checked by TLC only:

- liveness: `EveryItemRuns`, `TaskIsStarted`, `OverrunEnds` and those of the machine and
  the locks (the prover has no rules for fairness and `ENABLED`);
- `EvaluatedToNextUpdate` where a task waits for another, or one is added on the fly
  without an end or with a start before the deadline of the task that adds it (the run
  `fast`);
- `TextIsExact`, which compares strings, numbers and formats with a reference
  definition over bounded data: `Text` is written with recursive operators, which the
  prover does not take.

## 5. Not modelled

- In the scheduler: the frames of the demo, statistics of execution times
  (`calculate_stats`), speed and pause keys, the simulation that is commented out in
  `off_line_scheduler`. Its ticks are unbounded numbers; the wrap of the tick is in
  `Interrupts`, for `delay`.
- `pcie_deadcode.cpp`, which is compiled out; `gui_server.cpp` and the Windows timer,
  which are stubs; `mouse_ps2.cpp`, whose ports are stubs and which nothing
  instantiates.
- `SimpleMutex` and the `Semaphore` made of it: constructor and `Unlock` clear their flag
  by `atomic_store` (`resources.h:501`, 515), whose `lock; movl` (445) is an invalid
  instruction, so that nothing of them runs. Nothing in the repository uses them.
- The time inside a call of the firmware, while `interrupts.S` has switched to real mode:
  `KernelStart` has such a call as one step.
- The tables of names (`resources.h` of `include/types` apart from the locks, the PCI
  descriptors and the tree over them), the table from scan codes to characters, the
  layout of `ls`, `date` and the statistics: data and wording.
- `text_tty`, `memory_generic`, `cpu_generic`, `random_generic`,
  `scheduler_realtime`: tables of functions that call the host or the core.
- Paging, which is not built; the decoding of escape sequences by the shell's
  keyboard, whose outcome is a key, the input of `LineEditor`.
- What needs weaker memory than one processor's: `CriticalSection`'s plain members are
  only right there, and nothing in the repository uses them elsewhere.

## 6. Plan

1. The composition of `Interrupts` and `PreemptTimer`: the serial and mouse handlers
   between the tests of the preemptor.
2. `calculate_stats` with its divisions, and the decoding of key sequences with its
   time-out, which a late byte turns into ESC and letters.
