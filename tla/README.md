# A verification of the Computer_Science programs

The repository is a collection of small POSIX programs in C, one directory per
lesson.  Most of the later ones are concurrent: processes or threads that meet
through System V semaphores, POSIX semaphores, shared memory, message queues,
monitors, pipes or signals.  This project models those programs in TLA+, checks
them with TLC on small instances, and proves with TLAPS, for every value of the
constants, the most important invariants of all of them, and that every one that has an
abstract specification implements it.

All paths below are relative to the repository's root.

- [Inventory](#inventory): the programs, their state, what is hard about them
- [Modules](#modules): which module models what, and how
- [Runs](#runs): what TLC checks, the bounds, the fairness
- [Proofs](#proofs): what is proved, from what, along which argument
- [Findings](#findings): where code and documentation disagree
- [Not modelled](#not-modelled)
- [Plan](#plan)

To repeat the checks, run in this directory

    tlc -workers 2 -config ShowerClients.cfg Shower
    tlapm ShowerProofs.tla

and likewise for the other configurations (the table under [Runs](#runs) names
the module of each) and the other `*Proofs` modules.

## Inventory

Each program has its own `main`, and none includes another.  Interaction is between
the processes or threads of one program; only in Lesson 4 do programs meet, since
the shell and the counter run others, and the cat and the counter are filters.

### Unisex shower — `Lesson_6/lesson6_shower+bonus.c`

*State.* Four System V semaphores (`SEM_MUTEX`, `SEM_CAP`, `SEM_MQ`, `SEM_WQ`)
and the record `state_t` in shared memory: people inside and waiting per
gender, the gender the room is reserved for, a streak per gender, and whose
turn is next.
*Operations.* `enter_gender` and `leave_gender`, called once by each client
process in `client_once`; `init`, `force-init` and `destroy` from the command line.
*Hard.* The decision to enter is taken under the mutex, used after a wait for a
place, and has to be taken again.  Waiters are counted, then sleep on a
semaphore, and are woken in one batch when the room changes hands.
`V(SEM_CAP)` is called with the mutex still held.  A client can be killed anywhere;
the kernel then plays `SEM_UNDO` back, for the mutex and the places only.
*Correct when* one gender is inside at a time and at most N people
(`Lesson_6/README.md:4-5`), counters and semaphores agree with the clients, an
empty room is never kept from both genders, and nobody starves (`:6`).

### Assembly stand — `Lesson_9/lesson9_task3_test.c`

*State.* A mutex semaphore, one semaphore per kind of part that counts its free
places on the device, and a shared record with the parts placed, the number of
the device, the number of finished devices, and `stop`.
*Operations.* `worker_loop` of the wrench and driver processes, which `main`
forks and waits for.
*Hard.* `stop` is read without the mutex and again with it; a worker may be
asleep on a slot when it is set.  `device_id` is read, the mutex given up for the
work, and the part counted later.  New slots are opened inside the critical
section of the worker that finished the device.
*Correct when* no place is lost or duplicated, the limits of two nuts and one
screw hold, a part goes to the device it was meant for, exactly the asked number
of devices is made, and everybody ends.

### Hello and Goodbye — `Final_test/single.c`

*State.* The counter `active` in shared memory and a named semaphore, both of
which outlive the processes; in each process the flag of the SIGINT handler and
`g_registered`.
*Operations.* `main`: register under the semaphore and choose the string, print
it a character a second, unregister.
*Hard.* Ctrl-C, a write error, or the death of a pipe's reader between
registering and unregistering.
*Correct when* `active` counts the printing processes, the greeting is right, and
the shared state survives any mixture of interrupted processes
(`Final_test/README.md:15-19`).

### Choir — `Bogatyr/lesson13_bogatyr.c`

*State.* One bounded System V message queue shared by n processes; in the
conductor the collected pids and its position in the song; in each process its
character.
*Operations.* Election by taking the single LOCK message, registration,
ASSIGN, TURN/ACK per character, DONE/BYE, removal of the queue.
*Hard.* Any process may become the conductor, at any moment of the others'
start; messages of several senders share one bounded queue; the queue is removed
while others may still use it; a fork may fail with some processes started.
*Correct when* the song is sung in order by one voice at a time, exit statuses
are right, and everybody ends, leaving no queue behind.

### Two pizzerias — `Lesson_8/lesson8_pizza_hoare.c`, `Lesson_7/lesson7_pizza.c`

*State.* A monitor with the counts of free tables, ready pizzas and active cooks
and two condition variables (Lesson 8); five semaphores, a ring buffer and
statistics (Lesson 7).
*Operations.* Cook and courier threads; in Lesson 7 `main` pushes one negative
value per courier when the cooks have ended.
*Hard.* Signals given to one waiter of many; late and spurious wakeups; the end
of the shift while couriers sleep; `sem_items` posted after the mutex has been
released; the ring's capacity.
*Correct when* each pizza is baked and carried away once, no courier goes home
while there is or will be something to carry, and all threads end.

### Cat with two threads — `Lesson_8/lesson8_pcat2.c`

*State.* A monitor with one buffer, `full`, `done`, `stop` and an error context.
*Operations.* `writer_thread` reads files or stdin and puts chunks;
`reader_thread` gets them and writes them to stdout; `main` joins and reports.
*Hard.* Errors on either side while the other sleeps or holds data; short writes;
the last chunk together with `done`.
*Correct when* stdout is always a prefix of the input, and all of it when the
exit status is 0, and the program always ends.

### Signal cat — `Lesson_11/lesson11_signal_cat.c`

*State.* The real-time signals queued for a parent and for its child; the bits
sent, and the bits stored.
*Operations.* `parent_send` queues a bit and waits for the ACK, then queues the FIN
and waits again; `child_recv` stores and acknowledges.
*Hard.* The kernel delivers the lowest signal first, whatever the order of sending;
any process may queue the same signals; an early FIN ends the child without an ACK;
`sigqueue` may fail on either side.
*Correct when* the child prints the parent's string, all of it or, if a call fails,
nothing, and both end.

### Relay race — `Lesson_5/lesson5_stadium.c`, `Lesson_5/lesson5_stadium_posix.c`

*State.* One System V queue whose messages are told apart by type, or one POSIX
queue with ten places per process, opened by name.
*Operations.* The judge forks the runners, counts arrivals, sends the baton, waits
for the finish and removes the queues; a runner reports, waits for the baton and
passes it on.
*Hard.* One queue for arrivals, batons and the finish; arrivals while the judge
still forks, in queues that fill; names unlinked and queues removed while runners
have not exited; a fork that fails.
*Correct when* the runners run in order, after all have arrived, the clock stops
after the last, and everybody ends with the queues removed (`Lesson_5/README.md`).

### Shell, cat and counter — `Lesson_4/lesson4_myshell.c`, `lesson4_pipe_my_cat.c`, `lesson4_counter.c`

*State.* Which process holds which end of which pipe, and the bytes in the pipes.
*Operations.* `run_pipeline`: pipes, forks, redirections, closing, waits.  The cat
copies through a pipe to a child of its own; the counter counts its input, or the
output of a command it runs.
*Hard.* An end left open anywhere keeps a reader waiting; a fork that fails half-way
through a pipeline; a child that still ignores Ctrl-C; a reader that never reads; the
cat's parent, which ends before its child; a builtin in a segment, which leaves by
`_exit` and flushes nothing.
*Correct when* every reader sees the end of its file, once all has been written and no
earlier, and the prompt comes back.

### The other programs

| program | what it does | state and interaction |
|---|---|---|
| `Lesson_7/lesson7_cp_mmap.c` | copies a file with two mappings | sequential |
| `Lesson_10/lesson10_myls.c` | ls | formatting; `print_columns` is a pure layout function |
| `Lesson_3/*.c`, `test_my_cp.sh` | cp and cat with options, and a test script of cp | sequential |
| `Lesson_2/*.c` | fork and wait exercises, sorting by sleeping | at most one fork/wait each |
| `Lesson_1/lesson1_my_echo.c` | echo | none |

## Modules

| program | specification | abstract specification | instance | proofs |
|---|---|---|---|---|
| shower | `Shower` | `UnisexRoom` | | `ShowerProofs` |
| assembly stand | `Assembly` | | | `AssemblyProofs` |
| Hello and Goodbye | `Single` | | | `SingleProofs` |
| choir | `Bogatyr` | `Choir` | `BogatyrMC` (songs) | `BogatyrProofs` |
| pizzeria, monitor | `Kitchen` | `Pizzeria` | | `KitchenProofs` |
| pizzeria, semaphores | `Pizza` | `Pizzeria` | | `PizzaStadiumProofs` |
| cat with two threads | `Pcat` | `Copying` | `PcatMC` (inputs) | `PcatShellProofs` |
| signal cat | `SignalCat` | `Printing` | | `SignalCatProofs` |
| relay race, both | `Stadium` | `Relay` | | `PizzaStadiumProofs` |
| shell, cat, counter | `Pipes`, `Filters`, `Shell` | | `ShellMC` (command lines) | `PcatShellProofs` |

`Shell` is a composition: `Pipes` is the kernel's part (who holds which end, end of
file, a broken pipe), `Filters` adds the cat and the counter as actions of any process,
and `Shell` adds the shell and puts the filters into its segments.

`ControlPoints` holds the two operators that several share: the set of processes that have
reached one of a set of labels, and how its size changes when a process moves.

### Conventions

- `pc` maps every process or thread to the place it has reached in the C function;
  the labels are named for what comes next.  Shared variables have the names of
  the C fields or, for semaphores, a short form of their macro.
- A critical section is one step, because what it touches is only touched with the
  same mutex held.  It is split wherever another process can run in between:
  at each call that can block, and at each `V` that another process can
  answer before the section ends (`LeaveRoom`/`SwitchRoom` in `Shower`, the two
  `OpenSlots` in `Assembly`).
- A monitor procedure is split where `pthread_cond_wait` gives the mutex up; a
  woken thread goes back to the test and competes with newcomers.
- A definition whose comment begins with `mutated` is a plausible bug that stands
  beside the right definition, and no action uses it.  It documents what a
  property is able to notice.
- System calls fail where the code goes on after the failure (`Pcat`, `Single`,
  `Shell`), or where others go on (a `fork` in `Bogatyr` and `Stadium`, `fork` and
  `sigqueue` in `SignalCat`).  Where a failure ends the whole program before it has
  shared anything, it is left out.

### How state and actions correspond to the code

**Shower.** `in`, `wait` and `streak` are the pairs `men_*`/`women_*` of
`state_t`, as functions of the gender, so `enter_men` and `enter_women` are one
set of actions.  The loop of `enter_gender` is: lock, `CheckAllowed` or
`CheckRefused`, `TakeCap`, lock again, `RecheckAllowed` or `RecheckRefused`.  The
refused client gives the mutex back, then its place (`ReturnCap`), locks again
and only then counts itself (`JoinQueue`); `WakeUp` is the `Pq` at the end of the
loop.  `SwitchRoom` is the whole decision of `leave_gender`.  `overtaken` is a
history variable and guards nothing.

A `Mortal` client may be killed at every step (`Kill`).  `Undo` is what `SEM_UNDO`
gives back.  Because a critical section is one step, a death in its middle is a
step of its own that does the stores up to some point: `KillJoining` dies after
`men_wait++`, `KillEntering` after any store between 221 and 231, `KillLeaving` after
`men_in--`, `KillSwitching` and `KillWaking` after any store of the switch.  The label
of a dead client says what it left in `state_t`: `ghost_inside` and `ghost_entering`
are still counted as inside, `ghost_waiting` has a waiting count or a token that
nobody will take, `torn` handed the room over and died before the `Vq_k`, so that
wakeups are missing.

**Assembly.** `placed` holds `nuts` and `screw`, `slots` the two slot semaphores.
`Loop` is the unlocked read of `stop`, `StopSeen` and `GiveBack` the second read
with the return of the slot, `ReadDevice` the copy of `device_id` into `dev`.
`Install` is the second critical section with its three outcomes; it ends
either by releasing the mutex or in the two `OpenSlots` and `Settle`.  The branch
for an exceeded count is modelled and proved dead (`Limits`).

**Single.** One process per start from a shell.  Every `write(2)` and the pauses
between them are steps; `AfterWrite` and `AfterPause` are the two tests of
`stop_flag`.  `CtrlC` is the default action before `sigaction` and the handler after
it.  `ReaderDies` and `SigPipe` stand for a process whose stdout is a pipe to a
program without a handler.  Hello and Goodbye have the same length `Len`.

**Bogatyr.** `msgrcv` takes the first message of a type, so the queue is kept per
type (`lock`, `reg`, `ack`, and a mailbox per process) with one bound on their
sum.  `idx` is the loop variable of whichever loop the conductor is in.
`Rank`, `Place` and `Owner` say what `collect_unique`, `qsort` and the owner
table compute.  `QueueGone` is what `die` does when a call on the removed queue
fails, `ForkFails` what it does in the launcher.

**Kitchen.** The four `kitchen_` procedures and the loops around them.  `Signal`
gives the threads `pthread_cond_signal` may wake, and `Spurious` wakes any sleeper.

**Pizza.** `queue_push` is `TakeSlot`, `Write`, `PostItem`; `queue_pop` is
`TakeItem`, `Read`, `PostSlot`.  A pizza is identified by its cook and its number.
`left` counts the pushes a producer has still to make; for `main` these are the
negative values, `Poison`.

**Pcat.** A chunk is the interval of the input it holds, so a misplaced or repeated
byte shows; a file is known by the place in the input where it ends.  Reads and writes may be short; open, read and write may fail at any
time.  `Fail` is `mon_fail_locked`: the first error wins and wakes both threads.

**SignalCat.** A bit is its place in the string, so a lost, repeated or reordered
bit shows.  `pending` keeps the signals of each number in their order; `First` takes
the lowest number.  `WaitAck` is both waiting loops of `parent_send`; a signal that is
not the ACK of the child is dropped.  `TakeBit` has the three outcomes of lines
96-109: ignore, early FIN, bit.  A child that leaves on the early FIN goes on to
`Puts` as the `goto done` does.  `Nuisance` is any other process, `Die` a fork or
`sigqueue` that fails.

**Stadium.** Both programs in one module, since they differ in the queues only:
`variant` is chosen in `Init`, `Space` is the bound of the one queue or of the
receiver's, `ArrivalBox` says that the POSIX judge receives arrivals and the finish in
one queue.  `Open` is the three `mq_open` of a POSIX runner, `QueueGone` a System V
runner whose queue is removed under it.

**Pipes, Filters, Shell.** Processes are named by where they come from: `<<i, 0>>` is the
child of the shell for segment i, `<<i, 1>>` a child of that, and so on; pipes by who made
them.  `proc[p].holds` are the ends a process has under numbers of their own, `in`
and `out` what its stdin and stdout are.  `Setup` is the child between
`sigaction` and `execvp`: the `dup2`, the redirections and the closing of all pipes.
`Start`, `ParentCloses`, `KidOfCat` and `KidOfCounter` are the same for the pipe inside
cat and counter.  Bytes are counted, not told apart.  Behind `cat` stand `-`, for
stdin, or a file (`FileNamed`), and words that the code does not look at.  `buffering` is
how stdio treats the shell's stdout, by lines on a terminal and in full otherwise
(`lesson4_myshell.c:322`); it is chosen in `Init`, and the line of a `pwd` in a segment
reaches its stdout only in the first case (`PwdPrints`), since `puts` is followed by `_exit`.
A `pwd` run by a counter is a program of its own, and prints.  A read or write that a signal
interrupts is made again in the cat; in the counter's own `read` it is an error, one of those
of `IoError`.

**Abstract specifications.** `UnisexRoom` admits one gender at a time and at most N
people; `Choir` lets the next character of the song be heard; `Pizzeria` bakes and
takes pizzas and sends a courier home only when nothing is left to carry or bake,
and both pizzerias implement it; `Copying` extends the output by a piece of the
input and may report success only when all of it is there (`Pcat`); `Printing` prints a
text in one piece, reports success only after that, and fails only if nothing has been or
will be printed (`SignalCat`); `Relay` starts the clock when all are present, lets the
runners run in order, and stops the clock after the last.

## Runs

| run | module, configuration | states | what is checked |
|---|---|---|---|
| `shower_clients` | `Shower`, `ShowerClients` | 439 000 | `TypeOK`, `CountersExact`, `ReservedForSomeone`, `OvertakingBounded`, `ImplementsRoom`, `ServedUnlessRechecked` |
| `shower_starvation` | `Shower`, `ShowerStarvation` | | `NoStarvation`: violated |
| `assembly_stand` | `Assembly`, `AssemblyStand` | 327 000 | `TypeOK`, `SlotsExact`, `FreshDevice`, `ExactTarget`, `EveryoneExits` |
| `single_shell` | `Single`, `SingleShell` | 173 000 | `TypeOK`, `ActiveExact`, `GreetingRight`, `EveryoneEnds` |
| `single_pipe` | `Single`, `SinglePipe` | | `StateSurvives`: violated |
| `bogatyr_song` | `BogatyrMC`, `BogatyrSong` | 26 000 | `OneVoice`, `Outcome`, `SingsInOrder`, `EveryoneExits` |
| `kitchen_shift` | `Kitchen`, `KitchenShift` | 12 000 | `TypeOK`, `NoLostWakeup`, `ImplementsPizzeria`, `EveryoneHome` |
| `pizza_shift` | `Pizza`, `PizzaShift` | 42 000 | `QueueExact`, `PizzasExact`, `PushNeverWaits`, `ImplementsPizzeria`, `EveryoneDone` |
| `pcat_copy` | `PcatMC`, `PcatCopy` | 1 400 | `InFlight`, `ImplementsCopying`, `Ends` |
| `stadium_race` | `Stadium`, `StadiumRace` | 550 | `MessagesExact`, `ImplementsRelay`, `EveryoneEnds` |
| `signal_cat` | `SignalCat`, `SignalCatBits` | 6 900 | `StopAndWait`, `ImplementsPrinting`, `BothEnd` |
| `shell_pipeline` | `ShellMC`, `ShellPipeline` | 363 000 | `NoStrayEnds`, `CountExact`, `PromptReturns` |

### What the runs show, and the bounds

**shower_clients.** Two men and three women at two places with `MaxStreak = 1`; one man
and one woman may be killed at any step.  More women than places make `SEM_CAP` block
and the recheck fail, and a streak of one makes `FairnessBlock` and both special
cases of `Contended` reachable; two men make a woken batch of more than one.  One
mortal client of each gender lets the dead of one gender meet the living of the other,
and a dead client meet living ones of its own.  `CountersExact` and `ImplementsRoom`
hold whoever is killed: a death never lets a second gender in and never leaks a
place.  `OvertakingBounded` is the quantitative form of the promise of fairness, for
the clients that are counted as waiting: at most `2 * MaxStreak` entries of the other
gender before the room is handed over.  `ServedUnlessRechecked` is the liveness the code
does give: in every behaviour in which no client is refused by the recheck and none is
killed, every client gets its shower.  There is no symmetry, since it is not sound for
liveness.

**assembly_stand.** Three wrenches and two drivers (the program starts two and
one) and two devices.  There is one worker more than slots of each kind, so some
worker sleeps on its slot when `stop` is set; with two devices a finished device is
replaced once while workers are past their slot, and once before the stop.

**single_shell.** Three processes, one of them writing to a pipe whose reader may
die, strings of two characters, Ctrl-C on any process at any step.  Two characters give
a first and a last pass of the print loop; the loop has no other case.

**bogatyr_song.** Four processes and six songs: the empty one, one with silent
processes, one that returns to a singer, one that ends with its own newline, one with
a character for every process, and one with more characters than there are
processes.  The launcher is in the middle of the order of pids, so conductor, launcher
and owner of the first character are three roles that fall together or not.  Any
fork may fail: then the launcher exits with status 1, the children that had started
register, elect a conductor and wait for the missing registrations for ever.
`Outcome` says that this is all that happens, so nothing is sung; the code has no
answer to it, and `EveryoneExits` excludes it.  The queue has as many places as there
are processes: the least that works.  With n - 1 places everybody can be stuck in
`msgsnd` (the conductor sending DONE, the workers BYE).  The real queue holds
thousands of these messages, so that takes as many processes.

**kitchen_shift.** Three cooks at two tables and three couriers, one or two pizzas
per cook, spurious wakeups everywhere.  A cook sleeps on a table, and signals
find several couriers asleep or none.  `NoLostWakeup` is what one signal per pizza
instead of a broadcast has to be justified by.

**pizza_shift.** Two cooks, two couriers, `main`, two tables, one or two pizzas per
cook: both cooks push at once and the ring is filled to its end and wraps.
`PizzasExact` is about the pizzas alone: nothing in it hinders a negative value from being
taken while another courier still carries a pizza, which the program allows.  That no
courier goes home while a pizza is left or to come is `ImplementsPizzeria`.

**pcat_copy.** A buffer of two bytes; three files of three, no and two bytes, or
four bytes on stdin.  A file takes two chunks, one is empty, and an error can hit
the first, a middle or the last file.

**stadium_race.** Four runners and queues of two messages, in both variants.  The
runners are twice the places, so arrivals wait for the judge while it still forks,
as with more than ten runners and POSIX queues.  Four runners are a first, a last and
two between them.  `MessagesExact` is why a full queue is harmless: before the start only
arrivals are in it, afterwards there is one message at most.

**signal_cat.** Strings of no, one and two characters, so that the child goes on to
another byte; two signals of strangers at any moment, of any number, with the payload of
a FIN.  Two suffice to stand before and behind the signal of the peer.
`StopAndWait` is why the order of delivery does not matter: never more than one
signal of the protocol is under way.  `BothEnd` shows that the early FIN of line 102,
after which the parent would wait for ever, never comes from this parent.
`ImplementsPrinting` says more than that the output is a prefix: a child that prints a part
of the string, or prints although its parent has failed before the end, breaks it.

**shell_pipeline.** Eight command lines of two or three segments: cats before counters, with and
without redirections; a command that never reads; one that does not exist; a counter
that runs a cat; a `pwd` before a cat; and behind a `pwd` a cat that is given a file, so that
it does not read the pipe, and one that is given `-`, so that it does.  Each is run with
stdout buffered by lines and in full, so that the line of the `pwd` is there or lost.  A file has three bytes, a pipe and a
buffer two, so nothing fits at once and writers wait for readers.  `pipe`,
`fork`, the redirections and every read and write may fail, and Ctrl-C may come at any
moment, more than once.

Four configurations turn deadlock checking off, for a state in which the program does
stop: `ShowerClients` and `ShowerStarvation` because of a client stranded on its queue
(see [Findings](#findings)), `StadiumRace` because of the runners left after a
failed fork, and `SignalCatBits` because of the one that is left when the other has
died.  In the other runs deadlock is checked, and `Terminating` lets only
finished programs stutter, and in `Bogatyr` those stranded by a failed fork.

No counter needs an artificial bound: every program makes a finite number of steps
from the constants given, apart from the spurious wakeups.  `Nuisances` bounds the
signals that strangers send in `SignalCat`; the segments of a line are bounded by
`MaxSegments`.

### Fairness

Every specification used for liveness asks for weak fairness of each process or
thread as a whole, and nothing else: the kernel runs what can run, and every
`sleep`, `usleep` and `msleep` ends.

- Semaphores and mutexes are *not* assumed to be fair.  Strong fairness is not needed,
  since the processes make finitely many rounds, so nobody can be overtaken for ever.
- `Spurious` wakeups, Ctrl-C, kills, failures of system calls, signals of strangers
  and the death of a reader may happen and need not.
- In `Pcat` the fairness of the writer says that files end: a `read` of a pipe
  that never ends is not a behaviour `Ends` is about.  Likewise the terminal and the
  files of `Shell` have `FILE_SIZE` bytes.
- `EveryoneEnds` of `Stadium` and `BothEnd` of `SignalCat` have a hypothesis: no fork
  and no `sigqueue` fails.

## Proofs

All proofs hold for every value of the constants that satisfies the named
assumption of the specification.

| theorem | module | statement | property of a run |
|---|---|---|---|
| `Inductive` | `ShowerProofs` | `Spec => []IInv` | |
| `TypeCorrect` | `ShowerProofs` | `Spec => []TypeOK` | `TypeOK` |
| `Exact` | `ShowerProofs` | `Spec => []CountersExact` | `CountersExact` |
| `OneGenderInside` | `ShowerProofs` | `Spec => []OneGender` | |
| `Capacity` | `ShowerProofs` | `Spec => []WithinCapacity` | |
| `Refinement` | `ShowerProofs` | `Spec => ImplementsRoom` | `ImplementsRoom` |
| `Promises` | `ShowerProofs` | `Spec => []PromiseInv` | |
| `Reserved` | `ShowerProofs` | `Spec => []ReservedForSomeone` | `ReservedForSomeone` |
| `Overtaking` | `ShowerProofs` | `Spec => []OvertakingBounded` | `OvertakingBounded` |
| `Inductive` | `AssemblyProofs` | `Spec => []IInv` | |
| `TypeCorrect` | `AssemblyProofs` | `Spec => []TypeOK` | `TypeOK` |
| `Slots` | `AssemblyProofs` | `Spec => []SlotsExact` | `SlotsExact` |
| `Limits` | `AssemblyProofs` | `Spec => []WithinLimits` | |
| `Fresh` | `AssemblyProofs` | `Spec => []FreshDevice` | `FreshDevice` |
| `Exactly` | `AssemblyProofs` | `Spec => []ExactTarget` | `ExactTarget` |
| `Inductive` | `SingleProofs` | `Spec => []IInv` | |
| `TypeCorrect` | `SingleProofs` | `Spec => []TypeOK` | `TypeOK` |
| `Exact` | `SingleProofs` | `Spec => []ActiveExact` | `ActiveExact` |
| `OneHello` | `SingleProofs` | `Spec => []HelloExclusive` | |
| `RightGreeting` | `SingleProofs` | `Spec => GreetingRight` | `GreetingRight` |
| `Survives` | `SingleProofs` | `Piped = {}` implies `Spec => []StateSurvives` | |
| `Inductive` | `KitchenProofs` | `Spec => []IInv` | |
| `TypeCorrect` | `KitchenProofs` | `Spec => []TypeOK` | `TypeOK` |
| `Wakeups` | `KitchenProofs` | `Spec => []NoLostWakeup` | `NoLostWakeup` |
| `Refinement` | `KitchenProofs` | `Spec => ImplementsPizzeria` | `ImplementsPizzeria` |
| `Inductive` | `PcatShellProofs` | `Spec => []IInv` | |
| `NothingLost` | `PcatShellProofs` | `Spec => []InFlight` | `InFlight` |
| `Refinement` | `PcatShellProofs` | `Spec => ImplementsCopying` | `ImplementsCopying` |
| `Inductive` | `SignalCatProofs` | `Spec => []IInv` | |
| `Discipline` | `SignalCatProofs` | `Spec => []StopAndWait` | `StopAndWait` |
| `Refinement` | `SignalCatProofs` | `Spec => ImplementsPrinting` | `ImplementsPrinting` |
| `Inductive` | `BogatyrProofs` | `Spec => []IInv` | |
| `AtMostOneSings` | `BogatyrProofs` | `Spec => []OneVoice` | `OneVoice` |
| `HowItEnds` | `BogatyrProofs` | `Spec => []Outcome` | `Outcome` |
| `Refinement` | `BogatyrProofs` | `Spec => SingsInOrder` | `SingsInOrder` |
| `Inductive` | `PizzaStadiumProofs` | `Spec => []IInv` | |
| `Queue` | `PizzaStadiumProofs` | `Spec => []QueueExact` | `QueueExact` |
| `EveryPizzaOnce` | `PizzaStadiumProofs` | `Spec => [](PizzasExact /\ DistinctInv)` | `PizzasExact` |
| `RoomForAll` | `PizzaStadiumProofs` | `Spec => []PushNeverWaits` | `PushNeverWaits` |
| `Refinement` | `PizzaStadiumProofs` | `Spec => ImplementsPizzeria` | `ImplementsPizzeria` |
| `RaceInductive` | `PizzaStadiumProofs` | `St!Spec => []RaceInv`, with `St` for `Stadium` | |
| `Messages` | `PizzaStadiumProofs` | `St!Spec => []St!MessagesExact` | `MessagesExact` of `Stadium` |
| `RaceRefinement` | `PizzaStadiumProofs` | `St!Spec => St!ImplementsRelay` | `ImplementsRelay` of `Stadium` |
| `EndsInductive` | `PcatShellProofs` | `Sh!Spec => []EndsInv`, with `Sh` for `Shell` | |
| `EndsClosed` | `PcatShellProofs` | `Sh!Spec => []Sh!NoStrayEnds` | `NoStrayEnds` of `Shell` |
| `CountsInductive` | `PcatShellProofs` | `Sh!Spec => [](EndsInv /\ ShapeInv /\ FlowInv)` | |
| `CountsExact` | `PcatShellProofs` | `Sh!Spec => []Sh!CountExact` | `CountExact` of `Shell` |

Two modules of proofs hold two programs each, because their arguments need the same
lemmas: the semaphore pizzeria and the relay race count with sums, pcat and the
shell move bytes from one process to the next.  The second program is then an instance,
`St` or `Sh`, with parameters of its own, and its theorems have the assumptions
of that specification as their hypothesis.

**Counting.** The invariants compare counters with numbers of processes.  In the modules
that count, `AtFinite` says these sets are finite, and `AtMove` (or `Counts`, `Moved`)
that one step of one process changes the number at a set of labels by `Crossing`: 1, -1
or 0.  Each step of each proof therefore reduces to arithmetic on two labels.

**Shower**, assuming `ShowerAssumption` (finite, disjoint sets of men and women, any of
them mortal, positive capacity and streak).  The inductive invariant is
`TypeOK /\ MutexInv /\ GenderInv /\ CountersExact`.  `MutexInv` says that
`SEM_MUTEX` is free exactly when nobody is in a critical section; without it the
check and its use could be torn apart.  `GenderInv` says that anyone inside has
the gender of `current_gender`; that is why testing `current_gender` in `Allow2` is enough.
`CountersExact` gives `in[g] = 0` exactly when nobody of g is inside, without
which `RoomEmpty` in `SwitchRoom` would mean nothing, and bounds the people inside by N
through the places they hold.  `OneGender` and `WithinCapacity` follow, and with them
every step is `Enter`, `Leave` or a stutter of `UnisexRoom`; a client killed inside
leaves.

Kills fit into the same argument because the invariant counts the dead.  `in[g]` counts
the clients inside and the ghosts that died there, so it is zero only if nobody is
inside, which is all the switch needs; with a ghost it never is, and the room
stays with its gender.  The queues are exact up to the clients that are `torn`: the
invariant has an inequality, and the equality as long as nobody is torn, which
`TornStays` carries over steps.  `DeathStep` is the common part of all deaths: if `in` and
`wait + queue` change by what the client leaves behind, and `current_gender` at most to
the gender of those inside, then `Undo` keeps the mutex and the places exact and
the invariant holds.

Two more promises hold while nobody is killed.  `ReservedInv` says that a room with a
`current_gender` has somebody of it inside, or a wakeup under way, or somebody awake on
the way in; what makes it inductive is that a streak above zero needs somebody
inside.  `OvertakingInv` bounds the overtakings of a gender by the streak of the other,
and by one more `MaxStreak` if `turn` is its own, because only then can
a switch give the room to the other gender again.  A death is for ever, so a
state without a killed client is reached only through such states (`NoDeath`), and
the two invariants are carried under that hypothesis.

**Assembly**, assuming `AssemblyAssumption` (finite, disjoint sets of wrenches and
drivers, at least one of each, and a positive target).  The inductive invariant is
`TypeOK /\ MutexInv /\ SlotsExact /\ FreshDevice`.  `SlotsExact` is the heart: a
worker that is about to count its part holds a slot, so the count is below its limit,
so the error branch is dead, and a device is finished only when no worker
holds a slot.  That last fact is what makes `FreshDevice` inductive.

The end of the shift is a second invariant on top of it, `TargetInv`: `stop` is set only
when `completed = Target`, and from then on nothing is placed, nobody holds a part,
and whoever finished the last device is on its way to set `stop`.  `Exactly`
follows; that there is at least one worker is needed for "all have exited" to say
anything about the target.

**Single**, assuming `SingleAssumption`.  The inductive invariant is
`TypeOK /\ MutexInv /\ RegisteredInv /\ ActiveExact /\ HelloExclusive`.
`RegisteredInv` ties `g_registered` to the place in `main`, and is needed for the
processes that a signal kills.  Only `Survives` assumes that no process writes to
a pipe; the other theorems allow it.

**Kitchen**, assuming `KitchenAssumption`.  The inductive invariant is
`TypeOK /\ Places /\ CountsExact /\ NoLostWakeup`.  `CountsExact` says that
`free_tables` and `active_cooks` count the cooks, `Places` that a cook has pizzas left
exactly while it goes round its loop.  `NoLostWakeup` is inductive together with
these: whoever frees a table or brings a pizza signals, so the awake takers grow with
what there is to take, and the last cook wakes everybody.  The refinement then needs only
that a courier that goes home has found `ready_pizzas = 0` and `active_cooks = 0`.

**Pcat**, assuming `PcatAssumption` (any command lines, a buffer of at least one byte).
The bytes in hand form one chain: stdout, the reader's chunk, the chunk of the monitor, the
writer's chunk, and the place the writer has read to.  `Chain` says that each begins where the
last one ends, while no error has stopped the threads; after a stop only `Delivered`
is left, which is what a prefix needs.  `Position` places the writer in the files, so
that the end of the last file is the end of the input, and `Leaving` says who may have
returned.  The lemmas on intervals (`Glue`, `Bytes`) are the only facts about sequences.

**SignalCat**, assuming `SignalCatAssumption`.  `Bits`, `Fins` and `Acks` count the protocol's
signals under way; strangers' signals in the same queues are told apart by their
pid.  `Balance` is the equation of `StopAndWait` with a dead child counted as one that
will never answer; `Phases` lists the pairs of places, `Signalling` says which signal can be
under way in which pair, and `Progress` how far the string has got.
`Contents` says that a pending bit is the bit sent last; then taking it extends what the child
has stored by the right place.  For the refinement the child's `Puts` is the step `Put`: a child that reaches it
without having left early has seen the FIN, and by `Progress` all of the string.  `CountAppend` and `CountTail` are the counting lemmas for
the queues.

**Bogatyr**, assuming `BogatyrAssumption` (any finite set of pids, any songs, room for at least
one message).  `Phase` divides a run: the processes gather; one conductor refuses the song, or performs
it; the queue is gone.  In a performance `Singer(q, c)` says what lies in the mailbox of
each process, as a function of the place of conductor c alone: its part, then a TURN
if it has the turn, or DONE if the conductor has come to it.  `Sung(k)` says
that k characters have been heard, and `Leaving` balances the goodbyes with those who
have left, so that the queue is removed only when nobody can want it.  A launcher whose
fork failed is never counted, so the gathering cannot end.  The proof also needs what the
conductor computes: `Pids` (sorted pids are numbered from 1 to n),
`Ranks` (different characters have different ranks) and `Owners` (with
enough processes each character has a singer of its own); they rest on `Least`, which
takes the least number of a set from the well-foundedness of the natural numbers.  The
assumption on the songs is that no character is `"silent"`: the code keeps 0 in `my_ch`
for a silent process (`lesson13_bogatyr.c:143`), and a song is a C string.

**Pizza**, assuming `PizzaAssumption` (finite sets of cooks and couriers, at least one
table).  `SemaphoresInv` says what the semaphores count: tables and the cooks that hold
one are `N_tables`; slots, values in the ring, slots claimed by a producer and slots a
courier has yet to give back are the capacity.  `RingInv` makes the ring a queue: `Cell(j)` is the value j places behind
its head, and `Around` the lemma that the places of a ring do not meet before it is
full.  On these rest `DistinctInv` (no pizza lies in two cells or is carried
twice, and none of these is baked again) and `PoisonInv` (nothing but negative values lies
behind a negative value).  `RoomInv` is stronger than the `PushNeverWaits`
it gives: free slots are at least the pushes *all* producers have still to make, since the
ring was made for one day's pizzas and the negative values; it is inductive because a push
takes one from both sides.  The sums in it are folds, and a fold is a recursive
choice.  No induction theorem is used: `SumsExist` takes, by `Least`, the smallest
size of a set of keys on which the recursion has no solution, and gets a contradiction from
the set with one key less; `SumChange` and `SumIn`, what changing one value does
to a sum and that it does not matter which key is taken out first, go the same way.

**Stadium**, assuming `St!StadiumAssumption` (any number of runners, any capacity of at
least one).  `Phase` divides a race: runners gather while the judge forks and counts;
they are lined up and nothing is under way; `Turn(k)`, the baton is with runner k or on its
way to it, behind k all have run and before k all wait, and its message is the only one
there is; the race is over.  A failed fork leads from the gathering to the end.
`MessagesExact` sums the lengths of all queues, and this sum is what is left when all but
one address are `Silent`.  `NotGone` shows that no System V runner meets a
removed queue, so the branch for it is dead.  The refinement hides all
steps but the arrival, the start, the passing of the baton and the stop of the clock.

**Shell**, assuming `LineAssumption` (the assumptions of `Pipes`, `Filters` and `Shell`: any
number of segments, any lines whose words are strings, any sizes.  A builtin alone on
its line is excluded, since the shell runs it itself; and a counter that runs a counter has
no further command, because `Children` has no names for deeper chains).  Nothing is assumed of
`buffering`.
What keeps `NoStrayEnds` from being inductive is that descriptors are inherited: what a child
holds depends on what its parent held when it forked.  `EndsInv` says it without history:
`Own(s, d)` gives the ends, stdin, stdout and arguments of process d of segment s as a
function of its own place and of the program and stdin and stdout of its parent, which no
longer change once the parent is past its start (`Past`).  `Family` says that only such a
process has a child, `Forked` that the shell forks the segments in order, and
`ShellHolds` that the shell holds all pipes or none.  `OwnStays` and `Carry` then reduce a step
of one process to that process and the child it may fork.  Failures, kills and
Ctrl-C are steps like the others, since a process that has ended holds nothing.

`CountExact` rests on two more invariants, for the segments that are `Undisturbed`.
`ShapeInv` says what the line makes of each process: `Main(s, c)` runs a program of the line
with the words, stdin and stdout that the line gives it, and a child that is not such a
program copies for its cat.  `FlowInv` says that there are numbers w[s], the bytes that
have come out of each segment, with which nothing is lost: what a cat has
got (`Taken`) lies in its buffer, its own pipe or its child's buffer, or has come out;
its parent ends when it has got all that it was to get (`Need`), and its child only when, besides, the
pipe between them is empty.  The numbers are a witness and no history variable: only a write
out of a segment changes them (`WriteFlow`, which takes one number for another),
every other step keeps them.  `Upstream` is the step from one segment to the next: if the
end of a file is seen, nobody holds the write end, so by `EndsInv` and `ShapeInv` the
programs of the segment before have all ended, so all that it was given has come out of it.
`Undisturbed` speaks of the segments up to s, and so makes this segment undisturbed too.
`Speaks` is the one place where the buffering matters: a segment whose program puts out a line
of its own, which a `pwd` does only if its line is flushed.
`Input` is a recursive function; that it has a solution, and so fulfils its
equation (`InputIs`), goes by descent from the least segment up to which there is none.

**What stays with TLC.** Liveness (`NoStarvation`, `ServedUnlessRechecked` and the
properties named for an end), because it rests on fairness and `ENABLED`.
Every safety invariant, action property and refinement that a run checks and expects to
hold is a theorem.

## Findings

**The shower can starve a client** (run `shower_starvation`).
`Lesson_6/README.md:6` promises that nobody starves.  A client that is refused by the
recheck gives back the mutex and its place (`lesson6_shower+bonus.c:209-210`)
before it counts itself as waiting (`:213`).  If the last client inside leaves in
between, `leave_gender` finds nobody waiting and frees the room, and the
refused client then sleeps with nobody left to wake it.  One man and one woman are
enough.  `ServedUnlessRechecked` shows, for the instance checked, that this gap is the only
way to starve, and
the theorems above that it endangers neither exclusion nor capacity.

**Ctrl-C on `single | cat` leaves `active` above zero** (run `single_pipe`).
`Final_test/README.md:19` asks that Ctrl-C must not break the shared state.  In a
pipeline it also kills the reader.  SIGPIPE has its default action, so the next
`write` (`single.c:250` or `:293`) kills the process before it uncounts itself,
and every later process says Goodbye.  `ActiveExact` says precisely how far `active` can be
off: by the processes killed in this way.

Two more disagreements have no run of their own; the modules follow the code in both.

**The cat feeds no program.**  `Lesson_4/README.md:11-12` calls
`lesson4_pipe_my_cat.c` an equivalent of `cat INPUT | PROGRAM ARGS...`, with the examples
`./pipe_my_cat input.txt wc -l` and `./pipe_my_cat - sort`.  The code looks at `argv[1]` only
(`:24-25`) and runs no program: its child writes what it gets to its own stdout (`:47`).
`Src` and `Dst` of `Filters` say the same: no word behind the first makes a difference.

**A `pwd` in a pipeline is lost without a terminal.**
`Lesson_4/README.md:9` lists pipelines and a built-in `pwd`.  In a segment `puts`
(`lesson4_myshell.c:280`) leaves the line in stdio's buffer, and `_exit` (`:281`) does not
flush it.  Only if the shell's own stdout is a terminal does `:322` make it buffered by lines.
Otherwise `pwd | counter` counts nothing, with exit status 0: in `CountExact` what is given
to a segment behind a `pwd` is one line or nothing, by `buffering`, and the run has both.

## Not modelled

- *SIGKILL in `single`.*  A process killed by SIGKILL stays counted, like one that a
  broken pipe kills; the code has no answer to it.
- *SIGPIPE in `pcat2`* kills the whole process, and with it the state.
- *The shell's text.*  Reading, trimming and splitting the line, quotes, tildes and the
  syntax of redirections are string handling; `ShellMC` starts from the words.  The
  builtins run by the shell itself (`cd`, `exit`, `pwd` on a line of their own) and
  exit statuses are left out as well.
- *Words and lines of the counter*: a fold over the bytes of one process.  The model
  keeps the bytes, which are what a pipe can lose.
- *The shower's other commands* (`init`, `force-init`, `destroy`, `status`, `selftest`): they
  run alone, or start the same clients again.
- *Command lines, usage errors, prompts and output formatting*, in all programs.
- *`cp` and `cat` (Lesson 3), `cp_mmap` (Lesson 7)*: one process, a straight line of system
  calls and prompts.  What matters in them is their effect on a file system that they
  do not own.
- *`ls` (Lesson 10)*: one process that formats text.  Its column layout is the only
  algorithm, and a pure one.
- *Lessons 1 and 2*: `echo`, and exercises with at most one fork and wait;
  `sort_time` sorts by real time.

## Plan

Done, in this order: the shower, since it has the most intricate protocol and the strongest
promises; the assembly stand and `single`, which share its counting argument; the
choir, the pizzerias and pcat with their abstract specifications; the signal cat, the two
stadiums, the shell with its filters; the deaths of shower clients, and failing forks.

Worth modelling next: `print_columns` of `ls`, as functions checked against their
definition over small widths.
