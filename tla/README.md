# A TLA+ model of uzefox

uzefox runs the fox32 virtual machine on a Uzebox (an 8-bit AVR console): `cpu.c`, `disk.c`,
`bus.c`, `serial.c` and `main.c` are the machine, `smolrom/` is its ROM, and `smolos/` the
operating system that boots from the disk image. This directory holds TLA+ modules for the parts
of it whose correctness depends on the order of many steps, TLC configurations that check them on
small instances, and TLAPS proofs for every size of what they check.

## The system

| Part | Source | State | Operations | What is hard |
|---|---|---|---|---|
| Demand paging | `cpu.c` (`vm_read8`, `vm_write8`, `spi_read8`), `disk.c` (`load_page_in`, `flush_physical_page_out`) | SPI RAM, swap area, `page_is_in_memory_bitmap`, `physical_memory_bitmap`, `page_on_disk_is_at`, `is_consecutive_read`, `previous_read_address`, the file position | read or write a byte | three tables that must agree, a chip with a mode, entry 0 that means both "frame 0" and "no frame" |
| Disk controller | `bus.c`, `disk.c` | `buffer_pointer`, the file position shared with paging | set buffer, read sector, write sector | transfers bypass the page tables |
| ROM boot | `smolrom/main.asm`, `boot.asm`, `event.asm`, `disk.asm` | event queue pointer, the boot buffer | reset, read sector 0, check, jump | the buffer's page may not be in memory |
| CPU | `cpu.c`, `cpu.h` | registers, flags, two stacks, the error of a panic, the frame it jumps to | run, step, raise, recover, push, pop; 47 opcodes with four kinds of operand | an instruction that is broken off in the middle, frames of two sizes on two stacks, a length computed in two ways, arithmetic of three widths on a machine whose `int` has 16 bits |
| Tasks | `smolos/kernel/task.asm`, `fxf/launch.asm`, `sh/launch.asm` | queue, `task_id_bitmap`, `current_task`, the launch globals | new task, yield, end, launch, wait | globals read after a yield, IDs reused, a queue without a bounds check, a bitmap of 32 bits tested with an `int` of 16 |
| Allocator | `smolos/kernel/allocator.asm` | the free list, `total_heap_size` | allocate, free | a list threaded through the blocks it manages |
| RYFS | `smolrom/RYFS.okm` | directory sector, bitmap, linked sectors | create, open, delete, read, write, format | several sectors written one after the other, a full disk |
| VFS | `smolos/kernel/vfs/*` | file structs, copy's globals | open, read, write, copy | a stream read yields in the middle of a call |
| Events | `smolrom/event.asm`, `window/event.asm`, `event_manager_task.asm` | two kinds of queue | post, next, wait | no bounds check, but nothing posts an event |
| Windows and widgets | `smolos/kernel/window/*`, `widget/*` | window list, overlays | create, destroy, swap | UzeFox has no overlay hardware |
| Shell | `smolos/applications/sh/*` | line buffer, batch call stack, variables | commands, batch files | batch call depth without a check |
| TEd | `smolos/applications/ted/*` | lines, cursor, offsets of the window, file | one per key, open, save | splitting and joining lines, a cursor that nothing holds inside of the text |
| Terminal | `serial.c` | characters, colours, cursor, escape state | print a character | escape sequences split over calls, the screen's edges |
| Bootloader, relocation, resources | `smolos/bootloader`, `fxf/*`, `res.asm` | none kept | load the kernel, relocate | pure |

The machine is one thread. Concurrency arises in the OS, where tasks yield to each other, and in the
machine, where one memory access is made of many operations on devices that keep state (the chip's
mode, the file position) that other operations use as well. There are no timers and no interrupts:
nothing in `main.c` raises one.

### How the parts interact

* The CPU reads and writes bytes through `vm_read8` and `vm_write8`; a page that is not in the SPI
  RAM is loaded from the swap area, which is the end of the same image file that holds the disk.
* `in` and `out` go to `bus.c`. The disk ports move a sector between the image and the SPI RAM
  past the page tables: they use the entries without the bitmap.
* The ROM routines `read_sector` and `write_sector` are the only users of those ports except for
  one loop of the kernel (`main.asm:187-192`). RYFS calls them for every sector it touches, with
  one buffer. The VFS calls RYFS for files and a pair of routines for streams.
* Tasks share all memory and switch only in `yield_task`, `save_state_and_yield_task`, `new_task`
  and at their end. Every stream read yields, and so do the loops that wait for events and
  programs. A launcher opens a file, allocates two blocks, and hands them to the new task, which
  frees them when it ends.
* `main.c` initialises the CPU, runs 65535 instructions at a time, and stops for good at the first error.
  It calls nothing else of `cpu.h`; interrupts come from the `int` instruction only.
* Port 0 is the terminal: every task prints there, one byte at a time.
* Events would go from the ROM's queue to the queues of windows. On UzeFox nothing puts one there.

### What makes each part correct

| Part | Properties |
|---|---|
| Demand paging | the three tables agree; no endless loop is entered; the chip is never given a command while it streams; the program sees flat memory |
| Disk controller | a transfer touches the sector asked for and the buffer given, and nothing else |
| Boot | the ROM jumps only to the boot sector, and it does so in the end |
| CPU | an instruction happens as a whole or not at all; a skipped one is skipped whole; what an interrupt breaks off goes on as it was; a panic finds the frame it jumps to; conditions order numbers; arithmetic obeys the laws programs rely on |
| Tasks | no task is lost or doubled; tasks run in turn; IDs and blocks belong to one task; a waiting shell goes on exactly when its program has ended; the queue suffices |
| Allocator | blocks tile the heap; the list can be walked both ways; what is handed out is disjoint |
| RYFS | directory, bitmap and links agree; a file reads as what was written; a full disk or a lost power supply damages no other file |
| Terminal | a page that scrolls; every character within its memory |
| TEd | one string with a cursor in it, changed by one character per key; what is saved is that string |
| Shell (not modelled) | labels and returns of batch files end where they should |

## Modules

| Module | What it is |
|---|---|
| `Memory` | abstract: flat memory, one access at a time |
| `Pager` | `vm_read8`, `vm_write8`, `spi_read8`, `load_page_in`, `flush_physical_page_out` |
| `Machine` | abstract: `Memory` and a disk of whole sectors |
| `DiskController` | the disk ports, `set_disk_sector`, both transfers, `read_sector` and `write_sector`; extends `Pager` |
| `Boot` | the ROM from reset to its jump; extends `DiskController` |
| `Pager_proofs` | theorems about `Pager`, `DiskController` and `Boot`, among them that the first two implement `Memory` and `Machine` |
| `Scheduler` | abstract: a first-in first-out run queue |
| `Tasks` | `kernel/task.asm`, both launchers, the start of the kernel |
| `Tasks_proofs` | theorems about `Tasks`, the last of them that it implements `Scheduler` |
| `Heap` | abstract: disjoint blocks |
| `Allocator`, `Allocator_proofs` | `kernel/allocator.asm` |
| `FileSystem`, `FileSystem_proofs` | RYFS, `smolrom/RYFS.okm` |
| `Alu` | the arithmetic macros of `cpu.c` on values of one, two and four bytes |
| `Cpu`, `Cpu_proofs` | the interpreter and the calls of `cpu.h`; extends `Alu` |
| `TaskIds`, `TaskIds_proofs` | the bitmap of task IDs bit by bit; extends `Alu` |
| `Screen` | abstract: a page with a cursor |
| `Terminal`, `Terminal_proofs` | `serial.c` |
| `Text` | abstract: a string with a cursor, and a file |
| `Editor`, `Editor_proofs` | TEd, `ted/TEd.okm` |
| `MC_*` | instances for TLC |

### Pager, DiskController, Boot

The state is that of the C structs, under short names: `resident` is `page_is_in_memory_bitmap`,
`used` is `physical_memory_bitmap`, `at` is `page_on_disk_is_at`, `streaming` and `prev` are
`is_consecutive_read` and `previous_read_address`, `pos` is the position of the file library.
`chip` is the SPI RAM's own mode; a command given to it while it streams loses its effect or
returns anything. `pc` walks through one access: `translate` (the residency test), `find` (a frame),
`flush` and `flushCopy` (one frame, one sector), `load` (one sector), `access`. A page is `NSlots`
slots of one byte, each for a sector of 512. The code's omissions are in `Pager`
too: writes do not test their address, `disk.c:48` searches by entry alone, and a frame is marked
free before it is copied out.

`DiskController` adds `bufPtr` and the two ROM routines, whose pushes and pops are accesses that page
like any other. In the run the stack is in a page that may be flushed between the two port writes.
`PinnedOnly` restricts buffers to pages that are in memory in a frame outside 20..27. `Boot` drops
that restriction and takes the accesses of the ROM in order instead; it shows where the restriction
comes from: `PinnedAtJump` holds, and after the jump page 0, in which RYFS keeps its sector buffer and
the ROM the boot sector, never leaves its frame. The disk is arbitrary, with a boot sector and a swap
area that are bootable or not. `SwapIsBootable` names the one disk on which the ROM may jump into something other
than the boot sector: the first read misses its buffer, and what the ROM then compares is page 0 as
the swap area has it.

### Tasks

A task switch happens only in named places, so an action is everything between two of them. A
`Thread` is one run of a program, and stands for the two pointers in a queue entry that bring a task
back to where it was. `queue`, `task_queue_ptr`, `current_task` and `task_id_bitmap` are the words of
`task.asm`, with the pointer counted in entries; `Shift` is the copying loop of `yield_task_1`.
`free` is the heap as a set of blocks of which the lowest is taken (`Allocator` is the list that
the code really walks). `launch_fxf_task_id` is the kernel's global; the shell has one of its own per
thread, which is `made`. A launch may fail at each point at which it fails in the code: no file, no
program, no memory for the code, no memory for the stack, no memory for the message box that would
say so; `r0` is `None` after a failure as before the first launch, for no property tells
0xFFFFFFFF from no result. `Careful` says that programs are launched only while an ID is unused, which no launcher
tests.

### Allocator

A header is three words at an address: `size`, `prev`, `next`. An address that starts no block keeps
whatever it had, as memory does. `Link` walks the list as the code does. The contents of blocks, and
the loop that clears them, are left out. The sizes that `allocate_memory` computes wrap around at `Word`
(`RealSize`, `MayCarve`); requests so large that they do are excluded by `AllocatorAssumption`, for the code hands
out a block that is too small for them.

### FileSystem

`directory`, `used` and `disk` are the directory sector, the bitmap and the headers and bytes of all
sectors; `file` is the client's struct. RYFS never yields, so one operation runs at a time; what
can come between its steps is the end of the power. So each sector write is an action, and
every state is what a disk may be left as: `FilesKept` speaks of all of them. `pc` is the place in
`RYFS.okm`, `job` its local variables. What `ryfs_get_size`, the searches and the traversals read
between two writes is computed in the action that uses it. The magic bytes of a header are left out:
nothing reads them (and `RYFS.okm:108` overwrites those of all sectors but the last by calling
`ryfs_find_free_sector`, which uses the same buffer). `ryfs_mark_used` and `ryfs_mark_free` are
called without a disk at `RYFS.okm:100` and `:170`; the model has one disk, as uzefox has.

`Careful` keeps clients within what RYFS can do: they do not leave a file without bytes behind
(`NoneLeftEmpty`), they ask for no more sectors than are free or belong to the file itself (`RoomFor`,
which no part of RYFS tests), and they write where the arithmetic of full sectors is right
(`WellPlaced`). While the disk has room, what the shell, `copy` and TEd do falls within it except for a
redirected command that prints nothing, overwriting a file whose last sector is full, and saving
exactly a multiple of 506 bytes, which writes from the beginning of a file that was made with that
size. A struct that is used after its file was deleted through another one is not modelled.

### Alu, Cpu

`vm` is `fox32_vm_t` with the memory in it, and a helper of the code is an operator from machine to
machine that leaves the value read in `val`. `longjmp` is the field `err`: once a helper has set it, `Do`
skips the rest, as the jump does, and what was changed before stays changed. `jmp` says which call
set `panic_jmp` last. A panic after that call has returned would jump into a frame that is gone:
`mode = "wild"`, which `PanicsCaught` excludes. It is the reason why `int`, which calls `vm_raise`
and thereby moves `panic_jmp`, leaves the machine halted (`Enter`), so that `vm_resume` returns
and sets it again.

The memory is flat (that `vm_read8` and `vm_write8` make it so is the refinement of `Pager`), with the ROM
and its jump tables behind the RAM. An instruction is given decoded, with what its operands contain;
that its bytes can be read is asked of the memory all the same, because `vm_source` panics on them.
`Perform` is the switch of `vm_execute`; opcodes that share a macro share an operator. Left open are what a
port returns, and what a shift by more than the width of its operand does (`unshifted`): the loop
`avr-gcc` makes of it may run through or not at all.

`HostCalls` lets the host make every call of `cpu.h`, not only the two that `main.c` makes. `open` is
history: what is interrupted, as long as its frame has not been overwritten.

### TaskIds

`Tasks` takes `task_id_bitmap` for a set. `TaskIds` has the same operations at the level of the
instructions `bse`, `bcl` and `bts`, which shift the constant 1, an `int` of 16 bits on the AVR: ID 15 marks all
bits above it, and the IDs above mark nothing. `IdsReliable` proves that the set is right while no
more than 15 programs run, which is what `Tasks` assumes with `MaxId` of 15 or less.

### Terminal

One action for each way through `print_char`, which always ends in `scroll`. `vram` and `aram` are flat
arrays with one cell more than the screen has: that nothing is ever stored further behind is
`OneCellBehind`, and the proof. `Screen` promises a page of rows with a cursor, for every sequence of bytes.
`serial.c:31` has `>` for `>=`, so that a row ends one column late; `Screen` says what that does to the
page: what is typed behind the last column is seen in the first column of the row below until the next
character takes its place, and behind the last row it is not seen. A cursor that `MOVE` sets outside of the page
comes back with the next byte (`Left`, `GoTo`). So an ordinary line wrap is inside of the promise, and so is that
it disturbs no other row.

### Editor

One action for each key with all that it calls; the procedures of TEd keep their names. Rows are
sequences of letters, `cursorX` and `cursorY` are bytes (`CharRange`) that wrap around. `Text` promises one
string with a cursor: what `RowsToString` would save, with the cursor counted from its beginning. `lost`
marks the ways in which TEd leaves the promise: `JoinLines` appends the first line of the file instead of the
line that goes (`TEd.okm:508`), `Open` drops what is behind the last line feed and the beginning of
lines that fill its buffer, and the cursor wraps around after 256 steps. Three keys call procedures with
a negative length or with a row that does not exist (`NewLineBehind`, `RemoveFromEmpty`,
`SaveNothing`); what the memory is then is not modelled (`Stray`). A save may fail, after the old
file was deleted. The failure of any other call, and all drawing, are left out.

## Runs

| Run | What it asks | Bounds, and why they suffice |
|---|---|---|
| `pager_tables` | `TypeOK`, `TablesAgree`, `NeverStuck`, `PinnedForEver`, `Answered` | 6 pages, 4 frames, 2 of them flushed, 1 slot: pages below, in and above the flushed range, more pages than frames, and a second flush of a frame |
| `pager_data` | `StreamCoherent`, `FlatMemory` | 3 pages of 2 slots with contents, 2 frames: reads that run over the end of a page, of the frames and of the RAM |
| `disk_pinned` | `ChipFreeAtTransfer`, `OnlyAskedSector`, `FlatMachine` | 3 pages, 2 frames, 2 sectors of disk: the stack page is loaded and flushed around each port write |
| `boot` | `JumpsIntoBootSector`, `PinnedAtJump`, `Boots` | the three pages the ROM uses, with every content of page, swap area and boot sector over three bytes, of which two are bootable: every way in which boot sector and swap area may be bootable or not |
| `tasks` | `TypeOK`, `NoTaskLost`, `IdsAgree`, `BlocksOwned`, `ShellSeesTheEnd`, `QueueFits`, `EveryTaskRuns`, `RoundRobin` | 4 programs, 3 IDs, 6 blocks, 4 entries and one behind them: three programs at once, and a fourth gets the ID and the blocks of one that has ended while a shell waits. Programs are launched in a fixed order (`InOrder`) |
| `allocator` | `Tiled`, `ListLinked`, `HeapKept` | two regions of 7 and 9 addresses, a header of 2, requests of 1 and 3: carving, taking whole with and without a rest, unlinking at the head, in the middle and at the end. `Word` is 18, the first address behind the heap |
| `files` | `FilesKept`, `StructureAgrees`, `SystemKept` | 3 names for 2 entries, so that creating fails; sectors of 2 bytes and files of up to 5: empty, partly full and full last sectors, files of 3 sectors; 5 sectors for files, so that the disk gets full and `RoomFor` has to hold requests back |
| `cpu` | `CpuTypeOK`, `PanicsCaught`, `ArithmeticLaws`, `FaultsArePrecise`, `SkipsWhole`, `ComparesOrder`, `ReturnsWhereInterrupted` | every opcode, size and kind of operand, with and without displacement and condition, from four states with code, data and stacks at the edges of RAM, ROM and jump tables; programs of six steps in which interrupts and exceptions nest, with up to two calls of the host among them; the laws for all pairs of 4-bit values and for the edges of the wider ones. A byte has 4 bits and an `int` 8, so that a word has twice the bits of an `int`, as on the AVR |
| `terminal` | `TypeOK`, `OneCellBehind`, `IsScreen` | 2 rows of 2 columns: the fewest for which the last column, the last row, the cell behind them and another are different cells; every kind of byte in every state of a sequence |
| `editor` | `CursorInText`, `CursorShown`, `IsText` | texts of up to 4 characters of 2 letters from every file of up to 3; a window of 2 by 2, so that the text is larger; `CHAR`s of 4 values and a line buffer of 3, so that both limits are met |
| `tasks_returned_id` | `ReturnsItsTask` | violated: two programs launched at the same time |
| `task_bits` | `ReturnsUnused` | violated: words of 8 bits and an `int` of 4; the fifth program gets an ID twice |

Deadlock is checked in `disk_pinned`, `files`, `terminal`, `editor` and `task_bits`. In the others the
system really may stop: a read beyond the RAM ends `main.c` in an endless loop, the ROM's part of the model ends at its
jump, a failed message box stops the kernel, all programs may have been run, the allocator may
have nothing to give or take, and a program of the `cpu` run ends.

Symmetry is used in the safety runs `files`, `tasks_returned_id` and `task_bits` only, where programs and names
are only compared for being equal. It is not sound for liveness, so `tasks` has an action constraint
in its place: a program run is launched only when those before it in a fixed sequence have been,
which leaves out only behaviours that differ in the names of program runs. It constrains launches
only, of which the fairness assumes nothing.

### Fairness

* `Pager!FairSpec` and `Boot!BootSpec`: weak fairness of the steps of the machine. `main.c` is one
  endless loop around the interpreter, and no step of an access waits for anything.
* `Tasks!FairSpec`: weak fairness of what a running task does next other than start a program. This
  is what a cooperative system asks of its programs: one that neither yields nor ends stops all
  others, in the code as in the model. Nothing is assumed of the order of tasks; that is the queue's
  own doing. `EveryTaskRuns` makes an exception of `memory_error`, which stops the system in an
  endless loop.

### Findings

* `kernel/fxf/launch.asm:146`: the ID that a launch returns may be another task's
  (`tasks_returned_id`).
* `cpu.c:530`: with more than 15 programs an ID is given out while its task runs (`task_bits`).

Seen in the code and in the models, without a run of their own:

* `kernel/fxf/launch.asm:132`: with all IDs used the launchers go on with ID zero, and the queue is
  stored into the code behind it. `QueueFits` fails in `tasks` without `Careful`.
* `RYFS.okm:114`: a file created with a multiple of 506 bytes has its last part written behind it and
  reads as zeros there. `FilesKept` fails without `WellPlaced`.
* `RYFS.okm:99`: a full disk costs the boot sector; `SystemKept` fails without `RoomFor`. Two files
  created with size zero share a sector.
* `RYFS.okm:466`: a growing write that starts at a multiple of 506 inside the last sector goes to sector 0.
* `cpu.c:337`: a write beyond the RAM raises no fault, its page number wraps.
* `cpu.c:760`: `in` reads its source as if it had no displacement, so that the displacement is taken for
  the beginning of the target (`InTarget`).
* `cpu.c:528`: shifts and rotations by the width or more are undefined in C.
* `disk.c:208`: a disk transfer into a page that is not in memory goes to frame 0, as the first read
  of the boot sector does; that the system boots is due to the retry in the ROM's event loop (`boot`).
* `boot.asm:19`: a swap area whose page 0 has the magic bytes at 0x9FC is jumped into after the first read, which
  misses its buffer (`SwapIsBootable`). The machine does not make such a swap area itself: page 0 is never flushed.
* `kernel/allocator.asm:56`: a request less than a header below 2^32 wraps around and gets a block of a few bytes.
* `kernel/allocator.asm:115`: `heap_usage` adds the size asked for and subtracts the size of the block.
  `kernel/vfs/vfs.asm:149`, with an empty file, and TEd, with an empty text, ask `allocate_memory` for no
  bytes, and its clearing loop counts down from zero.
* `serial.c:31`: the last column is one too far. At the end of each full row the character typed behind it is
  replaced by the next one; in the last row it is stored behind the screen.
* `TEd.okm:508`, `:442`, `:477`, `:350`, `:530`: see `Editor` above.

That a shell's wait is right although IDs are used again (`ShellSeesTheEnd`) is less obvious than it
looks: it depends on `new_task` queueing the new task before its maker and switching to neither. The
mutant that runs the new task at once, as the comment at `task.asm:3` has it, breaks it.

## Proofs

Every safety and every action property that a passing run checks, and every refinement, is also a
theorem; what is only model-checked is liveness (see the end of this section). All theorems hold for every value of the
constants under the named assumption of each module they extend:

| Assumption | What it asks |
|---|---|
| `PagerAssumption` | at least one page and frame, a flushed range inside the frames that does not contain frame 0 |
| `DiskAssumption` | a disk of at least one sector before the swap area, a stack in memory |
| `BootAssumption` | a hypothesis of the two theorems about `Boot`, evaluated in `MC_Boot`, that asks nothing of the disk: 0x800, the event queue and the stack in three different pages, and at least three frames before the flushed range; a byte of a cleared page does not make a disk bootable |
| `TasksAssumption` | at least one ID, a queue with room for as many entries as there are IDs and one for the kernel, finitely many programs and memory behind the queue for an entry of each |
| `AllocatorAssumption` | two regions that do not overlap, each with room for a header, within a word; a header of at least one address; requests of at least one that do not wrap around a word with two headers and the 16 bytes of `allocator.asm:82` added, which the code does not test |
| `FileSystemAssumption` | at least two entries, one byte of a file in a sector and one sector of the system; `None` is neither a name nor the text of a file |
| `AluAssumption`, `IdsAssumption` | a byte and an `int` of at least one bit; finitely many programs, of which no more run at a time than an `int` has value bits |
| `PowersOfTwo` | up to the width of a word, 2^n is a positive number, and 2^n = 2^k * 2^(n-k): no assumption on the code, but arithmetic that the provers do not know (`^` means nothing to them); TLC evaluates it in `cpu` and `task_bits` |
| `CpuAssumption` | a byte of at least four bits, which the flags need; two registers at least, of which the laws of arithmetic speak; a size of the RAM that divides the range of a word and has room for every vector, as the 1 MiB of `cpu.h` has; a ROM behind it; jump tables that end within a word; the machines that programs start on are machines between two instructions |
| `EditorAssumption` | a buffer, a window and a range of `CHAR` that are not empty; a file is absent or made of letters and line feeds |
| `TerminalAssumption` | a screen of at most 254 columns and 255 rows |

`PinnedOnly` is a hypothesis of `MachineIsFlat`, and `Careful` one of `IdsAreUnique`,
`QueueNeverOverflows`, `ShellWaitsForItsProgram` and the three theorems about files: without them the code
does not do what these promise (see Findings). Everything else holds of all clients.

* `Pager_proofs`: `Typing`, `Tables`, `NoEndlessLoop`, `Streaming`, `Pinning`. `TablesAgree` is not
  inductive: that the search of `disk.c:48` finds a page depends on the frame being used, that a load
  takes a frame nobody has depends on what `find` saw, and that a second flush cannot be needed
  depends on the first having freed all of 20..27. `CallState` says what each place in the code
  (`pc`) knows of the tables; `IInv` joins it with the properties, and `Inductive` has a step for each
  action. `NoEndlessLoop` is the case of `retried`: after a flush the first frame of the flushed range
  is free. `Refinement` says that `Pager` implements `Memory`. To `IInv` it adds `CopiedSoFar`: the
  slots already copied by a load or a flush are equal on both sides. The memory the program sees is
  `View`, which takes each page from where its contents are; all steps but the last of an access
  leave it alone (`PagingKeepsView`, `QuietKeepsView`), and the last step of a write changes one byte
  of it (`WriteChangesView`).
* `Pager_proofs` on `DiskController`: `ChipIsFree`, `OneSectorATime` and `MachineIsFlat`, the refinement of `Machine`.
  `RoutineState` says what the VM is doing at each place of a ROM routine: the push with which it begins is
  a write, which ends a sequential read, so that the port access finds the chip free. The position of the
  file, which paging moves, is set anew by each transfer (`SeekArrives`). A transfer past the page
  tables changes the memory the program sees in the page of the buffer and nowhere else because that
  page is pinned.
* `Pager_proofs` on `Boot`: `JumpIsIntoBootSector` and `BootPinsPageZero`. `BootInv` joins the invariant of
  `DiskController`, without `PinnedOnly`, with three facts: three pages never need a flush
  (`FewPages`); in 0x800 is what the swap area had there or the boot sector (`BootContents`); and what
  the ROM has asked for at each of its places (`BootProgress`), with page 0 in memory when it decides. So it
  jumps into what the swap area had only where that has the magic bytes, which the theorem names as its exception.
  `BootPinsPageZero` is the reason why
  buffers in page 0 satisfy the hypothesis of `MachineIsFlat`.
* `Tasks_proofs`: `NoTaskIsLost`, `TasksOwnTheirBlocks`, `IdsAreUnique`, `QueueNeverOverflows`,
  `ShellWaitsForItsProgram`, `TasksTyping`. `IInv` joins type, tasks, IDs and blocks, which need each other:
  that an entry fits needs the number of tasks, which needs that none is doubled. `RoomForTwo` and
  `RoomInQueue` count: tasks have distinct IDs, so there are no more than IDs and the kernel.
  `WaitInv` is the reason for `ShellWaitsForItsProgram`: the program that a shell waits for is directly
  before it in the row, or has ended and nobody ran since. `TasksRunInTurn` says that the entries with
  their copying loop implement the queue of `Scheduler`.
* `Allocator_proofs`: `BlocksTileTheHeap`, `ListIsLinkedBothWays`, and `MemoryIsDisjoint`, that `Allocator`
  implements `Heap`. `Link` walks the list and is awkward while the list changes; `HeapIs(n, f)`
  names the list instead, as n blocks f[0] to f[n - 1]. Each way to take or give back a block is a
  statement of what becomes of f: nothing (a block is carved from the end of another), one block left out (`Without`),
  or one put in front. That
  `Link` walks along f (`LinkIsChain`) is all that needs induction.
* `FileSystem_proofs`: `SystemSectorsKept`, `OtherFilesKept`, `DirectoryAgrees`. The invariant names what
  directory, links and bitmap should say: `row[n]` are the sectors of the file n in order, and
  `own[n]` is the set of those that are marked for it. Whole files satisfy `Whole`; of the file in
  work `HeldInv` says at each `pc` how much of its entry, its links, its marks and its text is there, so
  that a step of an operation is a move from one of these to the next. `Installed` is what
  the steps share: what changes one file's row and marks leaves the rows of all others alone. `RoomInv` keeps count of
  what the operation still needs against `Available`, the sectors that are free or its own: it is
  why `ryfs_find_free_sector` never returns 0, and where `RoomFor` is needed. `OtherFilesKept` then holds in
  every state, also in those in which an operation was broken off.
* `TaskIds_proofs`: `IdsReliable`, that the ID returned is unused while no more programs run than an `int` has
  value bits. `IdsInv` says of the bits that do not stand for one ID what they can be: the bit of the
  sign marks itself and all above it, so that it is set whenever one of those is. `AnIdIsUnused` counts.
* `Terminal_proofs`: `OneBehind`, `TerminalTyping` and `TerminalIsScreen`. `OneCellBehind` is inductive together
  with the type: a byte in column `H` is only stored there if the row was not the last before, or in
  the cell behind the last row, and `scroll` takes the row back at the end of the same byte. That
  `Terminal` implements `Screen` is shown in two parts, as the code has them: a byte changes one cell or
  one line of the page (`ShownPut`), and `scroll` moves the page or leaves it alone (`ScrollGoes`). What joins them is
  arithmetic: a place in the flat arrays is one row and one column (`CellsDiffer`), and where the code stores a character
  is `Place`, where the page has it, also when that is the column behind the last (`HereIsPlace`).

* `Cpu_proofs`: `CpuTyped`, `PanicIsCaught`, `FaultsPrecise`, `InstructionsWhole`, `ConditionsOrder`,
  `InterruptsReturn` and `ArithmeticIsLawful`. The proof goes along `vm_execute` from the inside to the outside. `Same`, `Goes` and
  `Reads` compare a machine with the one before: an access to memory or to an operand moves
  `pointer_instr_mut` or panics, and touches nothing else. Each opcode is then either broken off with the
  machine as it was (`Precise`) or done with `pointer_instr_mut` where `After` says (`Done`), which together is
  `Performed`; `PerformPerforms` is the switch, with a lemma for each macro and kind of
  operand. `Ended` says it of a whole `vm_execute` with its condition and its exception, and the steps of the
  specification follow. Inductive is `Inv`: `CpuTypeOK`, `PanicsCaught`, and that between two instructions
  of `vm_resume` either `panic_jmp` is its own or the machine is halted. It is what makes
  `int` safe: `vm_raise` moves `panic_jmp`, but halts. `FaultsPrecise` and `InstructionsWhole` are read off
  `Ended`. `InterruptsReturn` needs one more invariant, `AllHeld`: the frame of everything in `open`
  is in the memory as `vm_raise` wrote it (`Holds`), since what writes over one of its bytes takes it out of
  `open`; `reti` pops in the reverse order of the pushes, on whichever stack. `ArithmeticIsLawful` needs no invariant but the types: `LawsHold` says it of
  all values. By induction on the width a value and the set of its bits determine each other (`BitsAndValues`), so
  that shifts and rotations are maps of positions; the signed operations are those of a number that differs from its
  value by a multiple of the modulus (`SignedIs`), and the rest is division with remainder.
* `Editor_proofs`: `CursorStaysInText`, `CursorStaysShown` and `EditsText`, the refinement of `Text`.
  `CursorInText` and `CursorShown` are inductive with the types of the variables, and of those
  `rows` is the hard one: `RowsOf` is a fold over the file, `RowsToString` one over the rows, and both are
  followed by induction on the length. `StringConcat` says that the string of two lists of rows is one
  behind the other, so that a key, which changes the rows in one of five ways (`Inserts`, `Breaks`, `AddsRow`,
  `Removes`, `Joins`), changes the string at one place, and `Place` moves with it. `EditsText` says more
  than that letters are not lost: what is saved and read back is the same string, and a key that does
  anything else is one of those that set `lost`.

The library's induction theorems take an operator as a parameter, which none of the provers can
instantiate. Where these proofs need an induction, they apply the well-foundedness of the natural numbers to a
set of counterexamples instead (`LeastExists`, `SetInduction`).

Only model-checked:

* Everything under fairness (`Answered`, `Boots`, `EveryTaskRuns`), which is out of the prover's reach.
* The findings, which are violations.

## Plan

1. `FileSystem`: a second struct of the same file, and what a boot after a power failure finds.
2. `Batch`: labels, rewinding and the return stack of the shell's batch files.

## Not modelled

* Event queues and windows: nothing adds an event. `bus.c` raises no interrupt, the ROM's `new_event` is
  reached through the jump table only, which no program here does, and the
  event manager task is not started. The one window there can be is the message box of a failed launch, whose
  endless wait is `Spin` of `Tasks`; the ROM's polling of its empty queue is in `Boot`. Overlays have no
  hardware here.
* VFS and streams: a jump through the struct of a file to what `FileSystem` models; a stream keeps a
  seek offset. What a reader gets of a stream that others read too is promised nowhere, so that
  there is no property to state.
* Shell and batch files: one client of files and registers; its launching is in `Tasks`.
* In the modelled parts: disks other than disk 0, the ports that remove a disk and ask for its size, the task
  that a disk 1 would be, `ryfs_format` other than as the initial state, the decoding of instruction
  bytes, the keyboard port, TEd's drawing.
* Bootloader, relocation, resources, widgets, the leaf routines of the ROM (strings, integers, copies): they
  keep no state between calls, or are a list walked for drawing. `smolrom.h` is generated.
