# A TLA+ verification of the ATLAS/CMS kernel and its shell

This directory holds TLA+ models of the kernel in `Kernel/` and of the user land
in `Userland/`, the configurations with which TLC checks them, and proofs that
TLAPS checks. The kernel is a small single-CPU x86-64 system: a Pure64 boot
loader starts `main()` (`Kernel/kernel.c`), which sets up memory, the scheduler,
the interrupt table and the keyboard, loads the packed user modules and drops to
the first process. From then on everything happens in interrupt handlers: the
timer, the keyboard and `int 80h`.

## Inventory

| Part | State | Operations | What makes it correct |
|---|---|---|---|
| Scheduler (`sched.c`, `asm/interrupts.asm`, `asm/sys.asm`, `asm/scheduling.asm`, `asm/stack.mac`) | process table, run ring `next`, `active`, saved stacks, kernel stacks | spawn, drop to user, preemption, syscall entry and exit, terminate | the ring holds exactly the live processes; a context is never lost or mixed up; answers reach the caller; nobody starves |
| Process syscalls (`syscall/proc.c`, `syscall/power.c`, `syscall/syscalls.c`) | none of their own | getpid, kill, exit, pause, halt | kill ends whom it names and says so |
| Physical memory (`pmm.c`) | stack of free frames, bit map | `init_mem`, `gmem`, `fmem` | a frame has one owner; the stack stays in its table |
| Kernel heap (`mmu.c`, second half) | linked list of blocks in frames | `mmu_kmalloc`, `mmu_kfree` | blocks do not overlap, the list stays linked, a block has one owner |
| Semaphores (`semaphore.c`) | count, queue of pids | create, wait, signal, flush, delete | used by pipes only; waiting is commented out |
| Pipes (`pipe.c`) | table of pipes, each with buffer, `head`, `avail`, `users` | open, read, write, close | bytes come out once and in order; the buffer is not overrun; the last close deletes |
| Keyboard (`keyboard.c`) and the read syscall (`syscall/io.c`) | ring of keys, modifiers, locks | interrupt, read | a bounded queue; modifiers do not stick |
| Speaker (`sound.c`) | `timeout`, the speaker | beep, tick | it falls silent |
| mmap windows (`mmu.c`, first half) | two pages per process and their fill | mmap, munmap | the bytes handed out and given back agree with the count; a page with bytes in use is not unmapped |
| Virtual memory (`vmm.c`, `pte.c`) | four levels of page tables, bitmap of full tables | identity mapping, allocate and free pages | a frame is in one place; a mapping does not change under its page; the search ends |
| Video (`video.c`), write, ioctl and halt syscalls, panic (`kernel.c`), idle process | two terminals, cursor, colours, the terminal shown (twice) | print, scroll, show, escape, halt | stores stay in the cells; the screen is one terminal, the one that escape turns from; the machine stops with its message in sight |
| Clock (`rtc-driver.c`, `time.c`, four commands of the shell) | CMOS registers of a chip that runs | get, set | a reading or setting that the chip ticks into is not far off; accepted dates exist |
| User heap (`Userland/libc/memory.c`) | list of blocks in the windows of mmap | malloc, free | a block in use stays mapped, is not handed out again, and can be freed |
| Standard input (`kbrd_key_to_ascii`, `syscall_read`, `getc.c`, `scanf.c`) | one character of pushback, the conversion under way | read a character, scanf | no stale character gets into a later read |
| Shell (`Userland/shell`) | line buffer, command table | edit, run | the line runs the command it names, with the words behind it; nothing of a line is left in the next |
| Module packer and loader (`Toolchain/ModulePacker`, `moduleLoader.c`) | the packed image | pack, find | what is packed is found |

The parts meet in few places. `main()` initialises them in order with interrupts
off. Every handler saves the interrupted context through
`sched_switch_to_kernel_stack`, runs to its end with interrupts off and leaves
through `sched_switch_to_user_stack`, which always passes the CPU on. The
keyboard handler calls the speaker and, for escape, the video terminals; the
timer handler calls the speaker. Pipes call semaphores, both call the kernel
heap, and the heap and the page tables call the frame allocator. In user land
there is one process, the shell: its `malloc` goes through mmap and the page
tables down to the frames, its input comes from the key ring through `read`, and
its commands call the clock, the pipes, the terminals and the process syscalls.

What is hard here is therefore not locking but order: a process can be preempted
between any two instructions, a syscall returns to another process than the one
that made it, a process can be killed by another, and the data structures
(rings, lists, stacks, flags) go through long sequences of legal calls. Two
things run on their own whatever the interrupt flag says: the clock chip, and
the user at the keyboard.
`PROJECT.json` lists the hazards at their lines.

## Modules

In the order in which they were written:

| Module | Models | Kind |
|---|---|---|
| `Sched` | scheduler, context switch, process syscalls, boot | system |
| `RoundRobin` | what the scheduler promises | abstract specification |
| `SchedRefinement` | the mapping of `Sched` to `RoundRobin` | refinement |
| `Pmm` | frame allocator | system |
| `Keyboard` | key ring, modifiers, speaker, read syscall | system |
| `KeyQueue` | what the key ring promises | abstract specification |
| `Semaphore` | operations of a semaphore | operators |
| `Pipe` | pipes, over `Semaphore` | system |
| `Kheap` | kernel heap | system |
| `Video` | terminals, write, ioctl and halt syscalls, escape, panic, idle process | system |
| `TextGrid` | what a terminal promises | abstract specification |
| `VideoRefinement` | the mapping of `Video` to `TextGrid` | refinement |
| `Vmm` | page tables, the search for pages, identity mapping | layer of a system |
| `Mmap` | stacks and mmap windows, over `Vmm` | layer of a system |
| `Uheap` | malloc and free, over `Mmap`: a user's byte down to its frame | composed system |
| `Clock` | the chip, gettime and settime, the commands on top | system |
| `Console` | key conversion, read, pushback, scanf | layer of a system |
| `Shell` | line editor, command lookup, commands, over `Console` | composed system |
| `CommandLine` | what the shell promises | abstract specification |
| `SchedProofs`, `KmemProofs` (`Pmm` and `Kheap`), `KeyboardProofs`, `PipeProofs`, `VideoProofs`, `VmmProofs` (`Vmm`, `Mmap` and `Uheap`), `ClockProofs`, `ShellProofs` | | theorems |
| `MCSched`, `MCPmm`, `MCKeyboard`, `MCPipe`, `MCKheap`, `MCVideo`, `MCUheap`, `MCClock`, `MCShell` | | instances for TLC |

In every module the variables have the names of the C variables, one action is
one handler or syscall, and a definition whose name ends in a suffix such as
`Resume_twice` and whose comment starts with *Fault* is a plausible mistake that
stands beside the right definition: replacing the latter by it must break a
property (`mutants` in `PROJECT.json`).

**Sched.** `active`, `next`, `pid`, `proc_idx` and `max_pid` are the variables of
`sched.c`. A stack pointer is abstracted to what it leads to: `stack[c]` is the
frame that the saved user stack of context `c` holds (whose execution it resumes,
its last syscall, its `rax`), `kernel_stack[c]` the owner of the page its kernel
stack is in. `cpu` is the frame in the registers. `Irq` is a timer or keyboard
interrupt; `Getpid`, `Kill`, `Exit`, `Halt` and `Other` are syscalls. Each is the
whole path: save (`Saved`), handler, answer (`Answered`), switch (`Resume`).
A handler is entered through a trap gate and begins with `cli`; an interrupt that
comes before that `cli` is the same as one that came before the syscall.
`Spawn` happens in `main()` only, as in the code; the shipped `main()` spawns one
module, the model up to `Modules` of them.

**Pmm.** A frame number stands for an address. `Flag` keeps the effect of `1 <<
(bit % 64)` on an `int`: frames 32 apart share a flag. The part of the map that
`init_mem` does not clear holds arbitrary bits. As a consequence `fmem` may
answer 0 for a frame that is in use, whose twin is free, and the frame is lost.
`owned` and `lost` are history: the frames in the hands of callers, and those
that `fmem` refused.

**Keyboard.** A scan code is modelled by its key; `Press` is a key that is stored
(`KEY_UNKNOWN` included, which the table has for unused codes), the other actions
are the modifier, lock and escape cases of `kbrd_irq`. `syscall_read(n)` removes
`n` keys, the number that its loop removes; the characters it makes of them are
in `Console`. A key without a code ends a read early, with keys left over. Prefix
codes and codes beyond the table are left out.

**Pipe.** The state of a pipe without its bytes. `avail` starts with an arbitrary
value, since `OpenPipe` does not assign it. `tail` never moves, so it is index 0.
`GetPipe` removes at most one byte, because `read` counts down and is compared as
unsigned. The count of the semaphore is an `int` that wraps: a write signals
without waiting, so it only grows, and when it is no longer positive a reader is
queued and comes back with -1. `writes` and `unread` are history. `MaxWrites`,
`MaxQueue` and `MaxUsers` bound what the code does not.

**Kheap.** Headers by address, with `size`, `free`, `next` and `prev`. A block
that `mmu_kfree` drops from the end of the list is forgotten: its memory is lost.
`gmem` is modelled as a supply of fresh frames, which `Pmm` justifies. The sizes
stand for those that callers ask for (pipes, their buffers, semaphores), and
`KheapAssumption` states what they have in common: a frame has room for the
block, its header and what `expand_heap` takes for the rest of the frame (`4096 %
size`). For some other sizes the code puts blocks beyond the end of a frame.

**Video.** A terminal is a row-by-row array of cells and a cursor into it.
`syscall_write` is split into its head, one `WriteChar` per character and its
tail; `fd` names the write in progress. A syscall runs with interrupts off, so
escape does not come inside it, but a page fault may, also in the middle of a
write, whose characters are a pointer of the process: `Fault` ends in `panic` from
wherever a process is, and so does a failed step of the boot. `panic` logs, shows
the log and goes on to `syscall_halt`, which a process may also call: it clears
the terminal of the processes, moves its cursor and prints its message there and
on the log (`HaltClear` to `HaltEnd`, `line` counts its statements).

When the last process has ended the idle process runs, and it calls
`syscall_write` itself, with interrupts on. Its `vid_update` looks up the terminal
once (`IdleUpdate`, `source`) and copies cell by cell (`IdleCopy`, `copied`), and
`handle_esc`, with a `vid_update` of its own, may come before any of these. Inside
a character of the idle process escape is `EscInChar`: what `handle_esc` copies may
then be any prefix of a scroll or of the stores (`Halfway`). `from` is history: the
terminal each cell of the screen was copied from.

`Stores` and `Moved` give the cells a character stores to and
the cursor it leaves. `TextGrid` says the same in rows and columns; it follows the
code in one oddity, a backspace at the first cell, which goes to the end of the
first row. Colours are left out.

**Vmm.** A virtual address is its page number, a physical one its frame number.
`table` holds the frame of each table, `present` and `frame` the entries of the
last level, and `cur_bitmap` the flags of full tables, with the aliasing of
`1 << (bit % 64)`. A call runs with interrupts off, so nothing comes in between,
but it takes several frames and may run out of them at any one: `call` is the
call under way, and each of its steps takes one frame (`identity_table`,
`alloc_page`, `map_page_table`) or enters one page. `gmem` answers -1 (`BAD`)
when no frame is left and its callers test for NULL; what they then store
through -1 stops the machine (`fault`). `fmem` is nondeterministic: it pushes the
frame or, as `Pmm` shows it may, loses it. `kmalloc_frame` is the kernel heap
taking frames in between. `search` is the scan for a hole; a hole that is too
small sends the code into an endless loop, here the state `pc = "loop"`.

**Mmap.** `_sched_alloc_pages` and `stack_ready` allocate the stacks during boot,
with the sizes and start addresses of `sched.c`. `pages` and `bytes_used` are the
windows; `request` is the mmap that waits for its page.

**Uheap.** Headers by address as in `Kheap`. `live` is history: the size asked for
by block that a caller holds. `free` of the last block unmaps it; an address
that `valid_address` refuses is ignored, and the caller has given it up.

**Clock.** The chip is external: it keeps the true time, shows it in the mode of
status register B and ticks between any two register accesses, for the code never
looks at the update flag. Conversions (BCD, 12 hours) are the code's;
characters of the arguments are their codes. `since` and `ticks` are history. The
model keeps three oddities: the PM bit is tested after the conversion from BCD
(`time.c:70`), `is_num` refuses the digit 9 (`command.c:421`), and `set_date`
returns before it sets anything (`command.c:99`). `valid_time` lets 60 seconds, 60
minutes and 24 hours pass, so the chip can be left at a time that does not exist;
what the properties promise of a reading or a setting is for times that do
(`Exists`) and for calls that take less than a minute (`Quick`).

**Console.** A read takes a burst of keys, whatever was pressed since the last
one (`Keyboard` shows that the ring is a queue), and converts them with the
modifiers of that moment. `fgetc` passes room for one character: of a burst it
keeps the first and the rest is stored beyond it. A read that stores nothing
leaves the character as it was: any of `Garbage`.

**Shell.** `shell_buffer`, `curr_pos` and the command table are the C variables.
`getc` of the prompt edits the line or submits it; `parse_command` and
`get_arguments` work in the buffer, zeros included, as the code does. A command
is modelled by its outcomes for the shell: it goes on, ends, halts the machine
or reads input of its own. Commands that use `args` before they look at `argc`
use uninitialised entries: any outcome, a crash included. Numbers are `int`s that
wrap (`AsInt`). For a line that names no command `parse_command` reads the name in
front of the table; by the link map of the shell (`Userland/shell/map`) that is
padding, so a null pointer, and address 0 is mapped: the read does no harm.
`kill_cmd` prints its two messages the wrong way round, since it takes the 0 that
`kill` answers for a success as a failure (`command.c:207`); what commands print is
left out, and the answer itself is `KillAnswersTruth` of `Sched`. `invoked` is
history.
`CommandLine` says declaratively what a line invokes: its first word, if that is
a name and starts the line, with its other words. `ShellAssumption` states three
facts about the real command table that the code relies on: a name has no space
in it, no name starts another, and a full line has no room for `MAX_ARGS` words.

## Runs

| Run | Bounds | Shows |
|---|---|---|
| `sched` | 4 processes, so that a process that is neither first, last nor next to its killer can be removed | type, ring, contexts, kernel stacks, answers; refinement of round-robin, kill, death, fairness |
| `pmm` | 12 frames in 3 words of 4 flags that alias in pairs, some words not cleared | a frame has one owner; the stack is bounded |
| `keyboard` | ring of 4, a known and an unknown key, both shift keys, a lock | bounded queue, keys get read, silence, modifiers |
| `pipes` | 2 pipes of 3 bytes, `unsigned` modulo 5, an `int` up to 2 and 3 writes, so that it wraps, 2 processes, one in a queue | the semaphore queues nobody before its count wraps; `head` stays in the buffer |
| `kheap` | 3 frames of 23 bytes; one size leaves a remainder that becomes a block, the other splits it | list, overlap, end of frame, ownership |
| `video` | 2 rows of 3 columns, tab stop at 2; moves inside, across a row's end, past the end and before the start; an idle message of one character, a halt message of two, empty lines in the log | cells, scrolling, refinement of the sheet, the screen under escape, page faults and halts, the torn screen of the idle process |
| `memory` | tables of 4 entries, 31 frames, bitmap words of 4 flags that alias in pairs, two windows of 10 bytes, a small size and one that fills a page | frames, mappings, the search, windows, blocks in use |
| `clock` | all four modes, six instants around each kind of carry, nine arguments, two commands, three ticks anywhere | readings, settings, dates |
| `shell` | lines of 6 characters, room for 3 arguments, 8 keys of each kind, bursts of 2, commands of each kind | refinement of the command line, clean buffer, pushback |

The bounds are small but every boundary lies inside them: rings of one process
and of all, an empty stack and a full one, indices that wrap, counts that wrap,
blocks that are split, taken whole and dropped, frames that run out at every step
of an allocation, tables that share a flag, ticks between any two registers, a
line that is full. `sched`, `kheap`, `video`, `memory`, `clock` and `shell`
switch off deadlock checking: a halted machine stops, a heap out of frames does,
and so do a shell that has ended and a clock at the bound of its ticks.

Three runs end in a violation, each because the code does something else than a
comment says; `findings` in `PROJECT.json` quotes them:

- `key_read_fits`: a read of size 1 stores as many characters as there are keys.
- `pipe_empty`: a pipe delivers bytes when none is left in it.
- `heap_free`: after a free of the last block, `free` refuses the address of a
  block in use, because `last_mmap` has moved below it.

What the passing runs show is not always obvious from the code:

- `memory`: `search` would loop for ever at a hole that is too small, but the
  requests of boot, in their order, never meet one; and although `free` gives
  back only the last block of a list that runs through both windows, the windows
  stay tiled, so `munmap`'s unsigned difference is zero exactly when a page is
  empty.
- `clock`: seconds first and day last is what keeps a torn reading from showing a
  time before the call, and a torn setting from running ahead.
- `shell`: a character that `scanf` pushes back is read again by the next
  conversion or not at all; it never reaches the prompt.

`pipes` shows a consequence that is easy to miss: the semaphore's count does not
fall to zero between calls, because writes signal without waiting, so the
waiting code, which stores through a null pointer, is not reached before the
count, an `int`, has wrapped: that takes 2^31 - 1 writes to one pipe.

`video` shows that escape may tear the screen while the idle process copies it:
part of it is then the terminal that was left. It stays so until the next
interrupt has let the idle process write again (`TornScreenHeals`). Panic, which
sets the terminal shown in `video.c` and not in `kernel.c`, does no harm, because
interrupts stay off behind it.

### Fairness

`Sched` assumes that boot ends and that, while a context runs, a timer interrupt
eventually comes: user code runs with interrupts on and the PIT is never masked.
Nothing is assumed about syscalls. `Keyboard` assumes the timer interrupt and
that somebody reads: the shell's `fgetc` polls `read`, and the scheduler gives it
its turn (`EveryoneRuns`). `Video` assumes that the idle process goes on: it runs
only when nothing else can, and the timer interrupt ends its `hlt`. Nobody has to
press escape. The other models have safety properties only; that
a search for pages ends is an invariant, since the one way not to end is a state
of its own.

## Proofs

TLC's results are for the bounds above; the theorems are for every value of the
constants.

**Scheduler** (`SchedProofs`; assumes `SchedAssumption`: at least one slot, no
more modules than slots, distinct null and idle). The inductive invariant is the
conjunction of the type invariant, `RingInv`, `ContextIntegrity` and the facts
that pids are distinct and that unused slots are untouched. `RingInv` says that
`next`, restricted to the live processes, is injective and has no closed proper
part; this form of "one ring" needs no induction, and lemmas show that inserting
before `active` and unlinking any process keep it, and that the walk of
`sched_terminate_process` visits exactly the live processes. Kernel stacks and
answers follow in a second invariant over the first. Proved: `TypeOK`, `RingInv`,
`ContextIntegrity`, `KernelStacksDisjoint`, `OwnAnswer`, `NoResurrection`,
`KillAnswersTruth`.

`SchedulerIsRoundRobin` is the refinement of `RoundRobin` without its fairness
(`KeepsRoundRobin`). The mapping reads the ring as a sequence from `active` on. A
path is such a sequence in which each process is followed by its `next` and none
occurs twice; that one exists and takes in every live process follows from
`RingInv` by counting (a path that returns early would be a closed proper part),
that it is the sequence of the mapping by a least position at which the two
differ. Every action is then a fact about paths: passing the CPU on rotates one,
a spawn appends to it, a death takes an element out of it.

**Frame allocator** (`KmemProofs`; assumes `PmmAssumption`). The free stack is
injective and disjoint from what callers hold, and its height plus the number of
frames outside is constant; the second fact gives the bound that `push` lacks.
Proved: `PmmTypeOK`, `FreeListSound`, `FramesConserved`.

**Keyboard** (`KeyboardProofs`; assumes `KeyboardAssumption`). Type correctness
makes the content of the ring a sequence shorter than the ring; storing a key
appends to it and a read removes a prefix, which gives the refinement of
`KeyQueue`. Proved: `TypeOK`, `ImplementsKeyQueue`, `HoldNeverSticks`.

**Pipes** (`PipeProofs`; assumes `PipeAssumption`). `SemaphoreIdle` is not
inductive: that the count is positive says nothing of the next write, which may
wrap it. `CountInv` says what the count is, one more than the writes, for as long
as they are fewer than `INT_MAX`. Proved: `TypeOK`, `SemaphoreIdle`.

**Terminals** (`VideoProofs`; assumes `VideoAssumption`: a screen that is not
empty, a tab stop inside a row and a halt message that fits in all rows but one). The cursor bound, part of `TypeOK`, is
inductive: a lemma splits a cell into its row and column and shows that the next
row starts inside the buffer or right behind it, which bounds both what a
character stores and where it leaves the cursor. The refinement of `TextGrid` goes
character by character: cell `VID_POS(r, c)` is row `r` and column `c`, and the
stores of a character, in cells, are its stores on the sheet. `ScreenSound` needs
an invariant of its own, `ScreenInv`: only the idle process copies the screen with
interrupts on, and `Halting` says how much of the message stands in front of the
cursor at each statement of `syscall_halt`. One more character keeps that true even
if it scrolls, since the message is shorter than the rows that stay. Proved:
`TypeOK`, `StoresInside`, `ScreenSound`, `ImplementsGrid`.

**Kernel heap** (`KmemProofs`; assumes `KheapAssumption`). `HeapInv` says that
each block lies in one of the frames that the heap got, that `next` and `prev`
undo each other, that the list is in the order of the addresses with each block
ending where or before the next one begins, and that what callers have is on the
list and not free. The order of the addresses is what makes the list one list:
following it can only go up, so it reaches every block in as many steps as there
are blocks. Each operation is first described field by field (what splitting,
extending and dropping do to the headers) and then shown to keep the invariant.
Proved: `ListSound`, `BlocksDisjoint`, `LiveIntact`.

**Clock** (`ClockProofs`; assumes `ClockAssumption`). The conversions are shown to
undo each other on two digits first. For a reading, the invariant is about the
time that it would show if the chip stopped now: the registers that were read and
the chip's own others. Reading a register does not change that view, and a tick
never takes it back while the month stays, since the registers still to be read
are the more significant ones. For a setting, it says that the registers written
so far run on from what was written; the minutes cannot carry into hours already
written, because `is_num` refuses the 9 of 59. Proved: `TypeOK`,
`ReadNotBehind`, `SetNotAhead`.

**Virtual memory** (`VmmProofs`; assumes `VmmAssumption`, `MmapAssumption`,
`UheapAssumption` and, for `SearchEnds` only, `LayoutAssumption`: sizes are positive, frames lie in the identity mapping, a stack
is no larger than the largest request, null is no address). The theorems are
about the whole of `Uheap`, from boot to malloc and free. `FramesApart` is not
inductive: that the page of the call is not mapped yet, and that a window's page
is its own, must be known as well. `MemInv` adds them: during the identity mapping
exactly the pages below the call's are present; later all of the identity mapping
is, so that the search finds only pages above it; what is left of a run is
free; a frame is in hand exactly while a page is being mapped; windows have
different pages, all present. Neither the bitmap nor the heap's list occurs in
the argument: it holds whatever the aliased flags say and whichever blocks are
freed. Proved: `FramesApart`, `MappingStable`.

`SearchEnds` does depend on the layout, and `LayoutAssumption` says on what: the
stacks fit between the identity mapping and the idle stack, the idle stack is
not the last page of its table, and the flags of the two tables where the
searches begin are cleaned and not marked. All of it is arithmetic on the
constants of `vmm.h` and `sched.c` (0x10000 pages of room for 18, tables 512
and 640, flags of tables 0 to 4095 cleaned). `BootInv` then says exactly which
pages are present at each point of the boot: those below a frontier, and the idle
stack. Every search from page 0 stops at the frontier, the flag of whose table
`update_bitmap` clears each time, and finds room up to the idle stack; after boot
only single pages are asked for, and no hole is too small for one. The number and
the size of the stacks are arbitrary, and so is the garbage in the part of the
bitmap that is not cleaned.

**User heap** (`VmmProofs`, on top of the above; same assumptions). `free` gives
back only the last block of the list, and `syscall_munmap` believes it that this
is the last of its page; the invariant has to say why that is so. `BlockInv`
says that every block is in the page of a window and ends inside what
`bytes_used` counts; that in each page the blocks lie end to end, from the first
byte to the last that is counted (`Tiled`); that the blocks form one list which
visits those of a page in the order of their addresses, though it goes back and
forth between pages (`Listed`); and that what callers have is on the list, not
free, and large enough (`Owned`). So the last block of the list is the top of its
page (`LastIsTop`), and what is unmapped is at most what the page holds: the
unsigned subtraction never wraps. `RequestInv` ties the allocation under way to a
window without a page. As for the kernel heap, each operation is first described
field by field (`IsSplit`, `Grows`, `Shrinks`). `TableInv` then bounds the entries
and the flags of the bitmap. Proved: `WindowsTiled`, `LiveMapped`, `TypeOK`.
`valid_address` plays no part: what it refuses wrongly (`heap_free`) leaks, and
harms nobody else.

**Shell** (`ShellProofs`; assumes `ConsoleAssumption` and `ShellAssumption`). The
invariant `ShellInv` has three parts. `EditInv`: the characters behind the line
are zero, whatever the shell is doing, so that clearing the line clears the
buffer. `ScanInv`: a conversion of `scanf` that goes on has room for another
character. `TrialInv`: of the calls of `scanf_cmd` only the first, for a number,
leaves a character pushed back, and the next one, for a string, takes it before
anything else; at the prompt no conversion is under way.
`get_arguments` cuts the line in place. The lemmas on `CutUpTo` are the invariant
of its loop: the words begun so far are counted, each argument points at the
first character of one, and since a word takes a space and a character, the
count stays below `MAX_ARGS` and `args` is never written past its end. That
`parse_command` compares a prefix only is harmless because no name starts
another: the name it finds is the only one that could match. Together these give
the refinement: what the shell invokes is what `CommandLine` says of the line
that was submitted. Proved: `TypeOK`, `BufferClean`, `PushbackStays`,
`ImplementsCommandLine`.

Recursive functions over positions (the list of a heap, the round of the
scheduler, the loop of `get_arguments`) are reasoned about with the least
position at which a claim fails, which the library's theorem on well-founded
relations provides.

Only model-checked: liveness (`EveryoneRuns`, `EveryKeyRead`, `SilenceReturns`,
`TornScreenHeals`) and the fairness part of round-robin, which are out of the prover's reach. Every
other property of the passing runs is a theorem. The three violations are
TLC's.

## Not modelled

Formatting and string functions, port I/O, the message of the day and the
template modules keep no state to reason about. The module packer and the loader
copy files one behind the other and back in the same order. The boot loader and
the file system tool are third-party code. The TLB, the attributes of page table
entries other than PRESENT, and the colours of the terminals are left out.
Functions without a caller are not modelled: `vmm_switch_process`,
`vmm_shutdown_process`, `free_thread_pages`, `merge_free_blocks`, `fgets`,
`fgetsn` and the validators of `time.c`. Descriptors outside the pipe table, the
free of an unknown heap address and scan codes beyond the table reach memory
that no model describes.

## Plan

1. The colours of the terminals, with the request that stores them in the wrong
   entries.
