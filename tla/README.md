# TLA+ models of the ECE391 MP3 kernel

The repository's kernel, `src/ECE391/mp3/student-distrib`, runs on one x86 CPU. It does
round-robin multitasking over three terminals. This directory holds TLA+ models of its
parts, and TLC configurations that check them. All paths below are relative to
`src/ECE391/mp3/student-distrib`.

## 1. The system

| Part | Files | State | Operations |
|---|---|---|---|
| Process control | `filesys.c` (`execute`, `halt`, `file_to_mem`, `parse_exec`), `types.h` | PCBs at 8MB-8KB*(pid+1); `cur_pcb` | `execute`, `halt` system calls |
| Scheduler | `scheduling.c/.h` | `task_queue[]` of {pcb, enabled, saved esp/ebp}; static `con_idx` | `pit_interrupt` (IRQ0), `task_push`, `task_pop`, `task_grab`, `init_schedule` |
| Paging | `paging.c/.h` | `process_pdir_table[MAX_PROCESS]`; the present bit of each user PDE marks a used slot; `vmem_table2` (user video pages); CR3 | `init_paging`, `new_process_ptable`, `return_parent_paging`, `swap_task_paging` |
| System calls | `syscall.c`, `interrupts.c` | jump table | `syscall_handler` (trap gate 0x80, interrupts stay on); `read`, `write`, `open`, `close`, `getargs`, `vidmap` |
| File system | `filesys.c` | read-only boot image; per-process fd array | `read_dentry_by_name`, `read_dentry_by_index`, `read_data`, `file_*` and `dir_*` ops |
| Console / terminals | `console.c/.h` | three `vterms` with cursor, buffer and input line; `current_console`; `con_ovr` | `console_putchar`, `console_scroll`, `console_inccur`, `console_inputhandler`, `console_readline`, `vterm_swap_console` |
| Keyboard | `keyboard.c` | modifier state, `last` key | `kbd_int` (IRQ1), `interpret_scancode` |
| RTC | `rtc.c` | `rtc_interrupt_flag` | `rtc_interrupt` (IRQ8), `rtc_read`, `rtc_write` |
| PIC | `i8259.c` | IRQ masks | `enable_irq`, `disable_irq`, `send_eoi` |

The parts interact in these ways:
- **PIT and execute.** The PIT handler (`pit_interrupt`) starts the three shells by
  calling `execute("shell")` itself. For each one it selects the terminal through
  `con_ovr`.
- **Round robin.** After boot the PIT handler rotates `task_queue`, then switches CR3,
  `tss.esp0`, `cur_pcb` and the kernel stack to the task at the head.
- **execute.** It allocates a page-directory slot and makes the child `cur_pcb`. It
  copies the image, disables the parent's queue entry, puts the child at the head and
  `iret`s to user mode.
- **halt.** It undoes these steps and re-enables the parent.
- **Interrupts stay on.** The system-call gate is a trap gate
  (`interrupts.c:162`), so interrupts stay enabled during `execute` and `halt`, except
  inside their `cli`/`sti` pairs. The PIT can therefore switch tasks in the middle of
  either call. The comment at `filesys.c:607` says as much.

### What makes it hard

These behaviours are hard to test, and a model checker reaches them. Each is listed with
its line in `PROJECT.json` under "hazards".
- **Preemption inside `execute`.** `file_to_mem` enables interrupts at `filesys.c:379`.
  The state that `execute` keeps in globals (`cur_pcb`, CR3) is then replaced by
  `pit_interrupt` (`scheduling.c:56-61`). When the task resumes, those globals belong to
  the parent.
- **Nested bootstrap.** A PIT tick inside a bootstrap `execute` bootstraps again, and
  `con_idx` runs past the three terminals.
- **Error paths.** A short image copy (`filesys.c:382`) leaves a slot allocated and
  `cur_pcb` on a child that never runs.
- **halt's cleanup.** It clears the video page of pid 0, not its own (`filesys.c:701`).
- **Scheduler spin.** The rotate loop (`scheduling.c:40`) spins forever with interrupts
  off when no entry is enabled.
- **File system.** Off-by-one reads in the file system, a stale directory position, and a
  negative read length (FileSys).
- **Command lines.** `parse_exec` writes one byte past `fname[32]` for any name of 32
  bytes or more, and a longer word is cut and its tail passed on as arguments; `getargs`
  accepts a buffer exactly as long as the arguments and leaves no NUL (FileSys).
- **RTC.** A stolen RTC wake-up. `rtc_open` changes the IRQ8 mask and the CMOS index
  with interrupts on (RtcDev).
- **Console.** The keyboard ISR runs with interrupts on after its echo. So its cursor
  update and its write-back of `current_input` interleave with the shells' output and
  reads (Console).

### Properties that make the system correct

- **Queue integrity.** The task queue holds each live task exactly once, and compactly.
- **Who runs.** In user mode, `cur_pcb`, the queue head, `tss.esp0` and CR3 agree, and
  the address space holds that task's image.
- **Leaves only.** Only leaves of the process tree are enabled, one per terminal.
- **Parents.** Every non-shell has a live parent on its own terminal.
- **Consoles.** Console indices are in range.
- **Video mapping.** The user video page is mapped exactly for tasks that called
  `vidmap`.
- **Scheduler never stuck.** The scheduler never spins or resumes a context it does not
  have.
- **No starvation.** Every enabled task eventually runs.
- **Boot finishes.** Three shells are eventually running.
- **Terminal isolation.** A terminal's buffer holds only what was written to it.
  Video memory holds only what was written to the terminal on screen.
- **Atomic output.** When no output is in progress on a terminal, its buffer and
  cursor are what the outputs so far give when each is one step.
- **Readline.** A read returns only the line typed since it began, and Enter always
  releases a waiting reader.
- **Arguments.** A program started by `prog arg1 arg2` gets exactly `arg1 arg2` from
  `getargs`, whatever ran in its PCB slot before it.

## 2. Modules

### `ProcSched.tla`: process control, scheduling, paging slots (modelled)

**State.** The variables map onto the code as follows:
- `present[s]` is the present bit of `process_pdir_table[s].pde[USER_IDX]`.
- `pcb[s]` holds `parent_pid`, `con` and `vidmap_check`. It also has a ghost field
  `prog` for the program loaded into slot s.
- `cur_pcb`, `cr3` and `tss` are the current PCB, page directory and kernel stack.
- `queue` is `task_queue`.
- `image[s]` is the program in slot s's user page.
- `vidpte[s]` is `vmem_table2.pte[s]`.
- `con_ovr` and `con_idx` are the bootstrap variables of the same names.
- `irq0` is the PIT interrupt latched in the 8259.

**The CPU.** `cpu` is a stack of frames: a user frame, then kernel frames for
`pit_interrupt`, `execute` and `halt`, each with a `pc` and its locals (`parent`,
`temp_cur`). The PIT handler saves the interrupted kernel stack (esp/ebp) into
`task_queue[0]`; here that saved stack is the frame stack, and restoring an entry
resumes exactly what was interrupted. An entry whose esp was never saved has the empty
context `<<>>`.

**Actions.** Each action is the code between two points where the PIT may fire:

| Action | Code |
|---|---|
| `Tick` | all of `pit_interrupt`: bootstrap, or the rotate loop `Rotate` (a RECURSIVE operator over `task_pop`/`task_push`), `tss`, `swap_task_paging`, `cur_pcb`, stack switch |
| `PitFire` | the PIT raising IRQ0 |
| `ExecParse` | `execute` up to the choice of parent (513-546) |
| `ExecLoad` | `temp_cur`, `cli`, and `file_to_mem` up to its `sti` (549-557, 329-379) |
| `ExecCopy` | the image copy and its failure (381-389) |
| `ExecSetup` | PCB set-up and disabling `temp_cur` (559-582) |
| `ExecPush` | `task_push(&temp_cur)` (602-604) |
| `ExecSwitch` | head, `tss` and `iret` (605-643) |
| `HaltStart` | the first-shell restart, or fd and video cleanup (657-702) |
| `HaltPaging` | `return_parent_paging` (706) |
| `HaltParent` | `cur_pcb` and `tss` (709-712) |
| `HaltRequeue` | the `cli` block and the jump to `exec_ret` (716-734) |
| `SysExecute`, `SysHalt`, `Vidmap` | the user program's calls through `syscall_handler` |

**Constants.**
- `PreemptKernel` says whether the PIT may fire inside kernel code (the real system) or
  only in user mode (kernel calls atomic).
- `UsersWaitForBoot` says whether user programs wait until three tasks are queued. It
  is TRUE in every run: a shell waits for keyboard input, and the three bootstrap ticks
  take 30 ms. With FALSE, a shell that calls `execute` early gets a parentless child on
  terminal 0, which breaks `ExactlyLeavesEnabled`.
- `ShortImages` lists executables whose copy reads back short, that is, a file whose
  data-block index is invalid past its header.

**Data abstractions.**
- A program is a model value.
- File descriptors, arguments and user stacks are left out. No property depends on
  them.

### `FileSys.tla`: file system and descriptors (modelled in part)

**State.** The module models one PCB's descriptor table:
- `fds[fd]` is `file_array[fd]`, that is `in_use`, `optbl`, `inode` and `pos`.
  `optbl` names the operations table: `stdio`, `file`, `dir` or `rtc`.
- `got[fd]` is a ghost variable: what reads on `fd` delivered since it was opened.
- `overflow` is a ghost variable: the last call wrote outside a buffer it was given.
- `args` is `cur_pcb->args` up to its NUL.
- `cmd` is a ghost variable: the command line that started the program in the slot.

**Strings.** File names and command lines are sequences of one-character strings, and
`NUL` stands for the zero byte past the end. Name lookup is `strncmp(.., .., 32)`
(`NamesMatch`).

**The boot image.** It is given by constants: the dentry slots, the three counts in
the boot block, and each inode's length and `data_blocks`. The MC image has
two-byte blocks and these files:
- "." and the RTC;
- `frame`: 3 bytes, ending inside its second block, with a full 32-byte name;
- `hello` (the name `h`): 2 bytes, exactly one block.

Both files stand for executables (`Executables`): what `file_to_mem` checks of them is
that the lookup succeeds and that the first 40 bytes read in full and hold the ELF magic.

**Data.** A data byte is the pair `<<block, offset>>`, so a byte fetched from the wrong
block or offset is told apart from the right one.

**Operators.** Lookups and `read_data` are operators:
- `ReadDentryByName` and `ReadDentryByIndex` are `read_dentry_by_*`.
- `GetDataBlock` is `get_data_block`.
- `ReadLoop` is a RECURSIVE translation of `read_data`'s loop (298-317): the same
  end-of-file test, block test and block crossing.
- `ReadData` is `read_data` itself.
- `GetFreeFd` is `get_free_fd`.
- `NameEnd`, `SkipSpaces` and `ArgLoop` are RECURSIVE translations of `parse_exec`'s
  three loops (475-503). `ArgLoop` keeps a space only if a character other than the
  NUL follows it (`Kept`). `ParseExec` gives `fname`, `argstr` and whether a
  terminating NUL went past `fname[32]` or `argstr[128]`.
- `Loadable` is `file_to_mem`'s checks before it takes a slot (337-352). It does not
  look at `ftype`.
- `GetArgsResult(n)` is `getargs` (syscall.c 238-271): the return value and the bytes
  written to the caller's buffer.

**Actions.**

| Action | Code |
|---|---|
| `Open(name)` | `open` (syscall.c 178-205): `OpenBy` dispatches on the dentry's ftype to `RtcOpen` (`rtc_open`, rtc.c 79-88), `DirOpen` (`dir_open`, filesys.c 67-76) or `FileOpen` (`file_open`, filesys.c 45-56). `DirOpen` keeps the inode and pos that the descriptor's last user left. |
| `Close(fd)` | `close` (syscall.c 158-170), through `CloseOp`: `console_close`, `file_close`, `dir_close`, `rtc_close` |
| `Read(fd, n)` | `read` (syscall.c 128-134) into `FileRead` (`file_read`) or `DirRead` (`dir_read`) |
| `Execute(c)` | `halt`'s descriptor clearing (692-697), then `execute(c)` into the same slot: `parse_exec`, `file_to_mem`'s checks, fd 0/1 (559-565) and `strcpy(cur_pcb->args, argstr)` (570). A failing `execute` touches no slot and is no step. `Init` is the slot just after one. |
| `GetArgs(n)` | `getargs` (syscall.c 238-271): it changes no kernel state; its result is `GetArgsResult(n)` |

**Left out.**
- Reads of fd 0 (console) and of the RTC block on devices and change no descriptor.
  The RTC read is in `RtcDev`.
- `write` never changes a descriptor.
- `getargs`' pointer checks (NULL, outside the user window): they only return -1, and
  the buffer is taken to be valid.
- `read_dentry_by_name`'s `strcpy` of a 32-byte name into `dentry_t.fname[32]`: its
  NUL lands on `ftype`, which the next line overwrites.

### `RtcDev.tla`: RTC readers, rate changes and the IRQ8 mask (modelled in part)

**State.**
- `flag` is `rtc_interrupt_flag`.
- `pc[t]` says whether task t is in user mode, spinning in `rtc_read`, or at one of
  the eight statements of `rtc_set_frequency` inside `rtc_open` (`SetFreqPcs`).
- `mask` is IRQ8's bit of `slave_mask`. `pic` is the same bit in the slave PIC's mask
  register.
- `idx` is the CMOS register selected on port 0x70 (A, B or C).
- `regc` says whether register C was read since the last IRQ8, so that the RTC may
  interrupt again.
- `irq8` is the pending IRQ.
- `running` is the task on the CPU.
- `woken[t]` is a ghost variable: an interrupt came since t entered `rtc_read`.

**Actions.**
- `RtcFire` is the RTC.
- `RtcInterrupt` is `rtc_interrupt`. It needs IRQ8 unmasked at the PIC, and it selects
  register C.
- `Schedule` is `pit_interrupt`'s rotation, with every task enabled. ProcSched checks
  the rotation in full.
- `RtcRead` and `RtcReadReturn` are `rtc_read`'s store and the loop test that finds the
  flag clear.
- `RtcOpen` is `rtc_open` up to its call of `rtc_set_frequency(2)`, which runs with
  interrupts on. `SetFreqStep` is that call's steps, each a separate action, so a PIT
  tick or the ISR may come between any two of them:
  - `DisableIrq` and `DisableOutb` are `disable_irq`'s store to `slave_mask` and its
    `outb`, which reads the global again;
  - `SelectA` is the two selects of register A;
  - `ReadRegister` is the `inb` (reading register C acknowledges the RTC);
  - `WriteRate` is the rate write;
  - `EnableIrq` and `EnableOutb` are `enable_irq`'s store and `outb`.
- `RtcWrite` is `rtc_write` with a frequency that changes the rate. It is one step,
  because it runs between `cli` and `sti`. A bad argument, a bad frequency, or
  2048-8192 returns without a state change.

**Left out.** The rate value only scales time, and the model has no time. The
read-modify-write of `slave_mask` is one step, because it stores a constant into the
one modelled bit.

**Fairness.**
- `RtcFire`, `RtcInterrupt` and `Schedule` are weakly fair. Both devices are periodic
  and their IRQs are taken while a task runs.
- `RtcReadReturn` is strongly fair. A task that holds the CPU with the flag clear runs
  at least one loop iteration within its 10 ms quantum. The same holds for
  each task's `SetFreqStep`. Scheduling switches the action
  on and off, so weak fairness would not express this.

### `Console.tla`: terminals and keyboard (modelled in part)

One shell per terminal: task t writes to and reads from `vterms[t]`, the binding that
the bootstrap ticks make. Which stretches of code run with interrupts off decides the
split into actions:
- `console_putchar` runs from a trap gate, so interrupts are on except in its `cli`/`sti`
  section. `console_inccur` and `console_scroll` copy the cursor, work on the copy and
  write it back with interrupts on.
- The keyboard ISR enters through an interrupt gate. But `console_echo` executes `sti`
  after writing the character (`console.c:326`), so the PIT can switch tasks before the
  handler has stored the key and written back its copy of `current_input`. IRQ1 stays
  in service until `send_eoi`, so no second key arrives meanwhile.

**State.**
- `vid_buf`, `video`, `vcur`, `bkspstop`, `current_console` and `current_input` are the
  fields of the same names in `vterms[]`, plus video memory.
- A screen cell holds the terminal its character was written for, or `Blank`.
- `kbuf[t]` is task t's `console_readline_w` buffer, as "key", "nl" or "nul" entries.
- `pc`, `inc` and `ccopy` are each task's place in the console code, its `con_inc_t`
  and `console_inccur`'s local copy of the cursor.
- `kpc`, `khost`, `kkey`, `kinput` and `kstate` are the ISR's place, the task whose stack
  it runs on, the key, `console_inputhandler`'s local `current_input`, and
  `console_bksp`'s local constate (cursor and backspace stop column).
- Two ghost variables. `shown[c]` is the screen and cursor that terminal c would have if
  every output were one atomic step. `line[c]` is the line typed since c's reader last
  called `console_getinput`.

**Actions.**

| Action | Code |
|---|---|
| `PutChar`, `PutNewline` | `console_putchar`: the `cli` section, or `'\n'` straight to `console_inccur` |
| `IncRead`, `IncWrite` | `console_inccur`'s copy, then its write-back |
| `ScrollBuf`, `ScrollCheck`, `ScrollVideo`, `ScrollBlank` | `console_scroll`: the `vid_buf` memmove, the `con->current` test, the video memmove, and the blanking of the last row |
| `ReadStart`, `ReadReset`, `ReadReturn` | `console_readline_w`/`console_readline` (`ReadNb` caps the size at 128 and `Readline` installs the task's buffer in `current_input`), then `console_getinput` up to its `sti`, then the spin loop finding `complete` |
| `KbdChar`, `KbdBksp` | `interpret_scancode` to `console_echo` (or `console_bksp`) up to the `sti`. `KbdEcho(k)` is the shared echo. |
| `KbdCtrlL` | Ctrl+L, when the constant `CtrlL` allows it: `console_echokbd` echoes '^' (`console_echo` up to its `sti`) |
| `KbdCharEnd`, `KbdCtrlLEnd`, `KbdBkspEnd` | the rest of the ISR on its host task: the echo's increment, the store, the write-back of `current_input`, EOI. `KbdBkspEnd` also writes back `console_bksp`'s whole local constate, so a stop column set or cleared by a read meanwhile is overwritten (`console.c:247`). |
| `KbdCtrlLEnd` | the same for Ctrl+L. Between the increment and the store, `console_clrsc` blanks video memory (but not `vid_buf`) and moves the cursor to 0,0. The lowercase 'l' is then stored in the input line. |
| `KbdEnter` | Enter off the last row: `console_inccur` moves to the next line, and the stores (`EnterInput`) follow with no `sti` |
| `KbdEnterScroll`, `KbdEnterEnd` | Enter on the last row: `console_inccur` calls `console_scroll(1, true)`, whose memmoves and `console_echo(' ')` calls (each with an `sti`) blank the last row; then, on the host task, `console_inccur` writes its cursor copy back and the stores go through the copy of `current_input` taken before the `sti` |
| `KbdSwitch(i)` | Alt+F(i+1) with `vterms[i].present`: `vterm_swap_console` |
| `Schedule` | `pit_interrupt`'s rotation |

A task step is enabled only while the task is on the CPU and the ISR is not suspended on
its stack (`Runs`).

**Abstractions.**
- The echo's own `console_inccur` and the blanking loop of `console_scroll` are each
  taken as one step. For an Enter that scrolls, the NUM_COLS echoes of the blanking
  loop are taken as one step that ends at the preemption point.
- Colours and the hardware cursor are left out.
- Modifier keys and key repetition choose which character is typed, not what happens
  to it, so they are left out.
- `console_clrsc` as `halt` calls it on a shell restart is left out. ProcSched models that restart without the screen.
- `Init` is the state after every shell has entered its first read. Keys typed before
  that store through a NULL buffer (see the hazards).

**Fairness.** `Schedule` is weakly fair, because the PIT is periodic. `KbdCharEnd`,
`KbdBkspEnd`, `KbdCtrlLEnd`, `KbdEnterEnd` and `ReadReturn(t)` are strongly fair: a task on the CPU runs on, so the
suspended ISR finishes and the spin loop tests `complete` whenever the task is scheduled.
The scheduler keeps switching these actions off, so weak fairness would not do. Users
need not type, and shells need not write.

### `ProcTree.tla`: what process control promises (abstract)

`ProcTree` states the promise of `execute` and `halt` from the spec (section 4.2). It
leaves out the task queue, the paging slots and the kernel stacks.

**State.**
- `tree` is a function from the live tasks to their parent (`NoProc` for a shell) and
  their terminal.
- `run` is the task whose context the CPU is in.
- `user` says whether the CPU is in that task's program.

**Actions.**
- `Boot(c, t)`: a shell starts on a terminal that has no task.
- `Spawn(c)`: the running leaf gets a child on its own terminal, and the child runs at
  once.
- `Exit`: a leaf that is not a shell leaves, and its parent runs on.
- `Call` and `Return`: entering and leaving the kernel with the tree unchanged.
- `Switch(p)`: the CPU passes to another leaf's program.

**Refinement.** `ProcSched` defines the refinement mapping as the instance `Tree`. Each
abstract variable is mapped as follows:
- The live tasks are the tasks in `task_queue`, with the `parent_pid` and `con` of
  their PCBs. A child joins the queue when `execute` stores `temp_next` in
  `task_queue[0]`. It leaves when `halt` puts its parent there.
- `run` is `task_queue[0].pcb`.
- `user` holds when the CPU's top frame is a user frame.

`ImplementsProcTree` (`Tree!Spec`) is a PROPERTY of `atomic_safety`. Every other step of
the detailed model (parsing, loading, copying, paging, the PIT latch) leaves the three
mapped variables unchanged. Two quick checks show the property is not vacuous:
- If the PIT may preempt kernel code, the refinement fails within a few hundred states.
- So does a parent choice that drops the "fewer than three queued" test of
  `filesys.c:541`.

### Plan for later modules

In order of importance:
1. `FileSys`: the first shell's restart path, which keeps its descriptors, and images
   with a malformed data-block index.
2. `Console`: a three-row instance for the race between a task's scroll and a terminal
   swap (`console.c:116`), and the echo's own `console_inccur` split at its write-back.

## 3. Runs

The Console runs use `MC_Console.tla`. The ProcSched runs use `MC_ProcSched.tla`, with programs `sh` (the shell), `ls`, `bad`
(no ELF file) and `short`. The FileSys runs use the image of `MC_FileSys.tla`. The
RtcDev runs instantiate `RtcDev.tla` directly.

| Run | Config | Expect | Shows |
|---|---|---|---|
| `atomic_safety` | `ProcSched_atomic.cfg` | pass | Kernel code runs atomically between ticks and users wait for boot. Then queue integrity, who-runs, leaves-enabled, parents, consoles and no-hang all hold over all interleavings of three shells with up to two descendants (MAX_PROCESS = 5: a chain shell -> child -> grandchild, the queue full, `execute` failing on a full table and on a missing file). Every step implements `ProcTree` under the refinement mapping. |
| `atomic_liveness` | `ProcSched_live.cfg` | pass | Same setting, MAX_PROCESS = 4. Every enabled task eventually runs, and three shells, one per terminal, eventually run. |
| `short_copy` | `ProcSched_shortcopy.cfg` | violation | A short image copy returns -1 from `execute`. The calling shell then runs in user mode with `cur_pcb` and CR3 on the abandoned child slot. |
| `preempt_boot` | `ProcSched_preempt.cfg` | violation | A PIT tick during a bootstrap `execute` bootstraps again, and a shell is given console 3 (`vterms[3]` is out of bounds). |
| `preempt_exec` | `ProcSched_preemptexec.cfg` | violation | A tick between `file_to_mem` and the end of `execute` makes `execute` finish on the parent. The parent's image is overwritten by the child's program, the parent becomes its own parent, and the child slot leaks. |
| (`ProcSched_vidmap.cfg`) | not a listed run | violation | When a child halts, `halt` clears `pte[0]`. Shell 0 loses the video page it mapped, and the child's own page stays mapped for the next task in its slot. |
| `fs_safety` | `FileSys_safety.cfg` | pass | Any sequence of open, close and read (1 to 3 bytes) on two user descriptors, and of executes of four command lines into the slot, has these outcomes. Every byte a file read delivers from inside the file is the file's byte at that position, including reads that start, end or cross at a block boundary, and `pos` counts the bytes delivered. For `h a b` (spec 8's `prog arg1 arg2`) and `h`, `getargs` with 0, 1 or 3 bytes succeeds exactly when the arguments are not empty and fit, and returns them zero-padded (`ArgsRoundTrip`). |
| (`FileSys_parse.cfg`) | not a listed run | violation | `ExecuteAsSpecified` fails in the initial state: `h a  ` (two trailing spaces) gives the argument string `a `, since `parse_exec` drops only a space right before the NUL (`filesys.c:495`). Spec 4.6 strips trailing spaces. A 33-byte word violates it too: spec 4.4 rejects names over 32 bytes, and `parse_exec` cuts it. |
| (`FileSys_eof.cfg`) | not a listed run | violation | Reading a file to its end delivers one byte more than its length (`filesys.c:300`: `>` where spec 4.4 clamps at length - offset). |
| (`FileSys_dirpos.cfg`) | not a listed run | violation | `dir_open` does not reset `pos` (`filesys.c:74`), so "." opened on a descriptor that a file was read through starts listing at entry 1. The spec says the kth call returns the kth entry. |
| `fs_negread` | `FileSys_negread.cfg` | violation | `read(fd, buf, -1)` on a file copies the rest of the file, because `nbytes` becomes `read_data`'s uint32 length. |
| `rtc_safety` | `RtcDev_safety.cfg` | pass | Three tasks read, open and write the RTC. No `rtc_read` returns before an interrupt that came after it started. When all three are blocked, one is released, so IRQ8 never stays masked. Whenever no `rtc_set_frequency` is running, IRQ8 is unmasked in `slave_mask` and at the PIC (`IrqUnmaskedWhenIdle`), although one task's `outb` may publish another task's mask. |
| (`RtcDev_rate.cfg`) | not a listed run | violation | `RateWriteLands`: task 0 in `rtc_open` has stored the mask. Task 1's `rtc_write` unmasks IRQ8. Task 0's `outb` then publishes the cleared mask. The ISR selects register C before task 0's rate write, so that write is lost. |
| `rtc_starve` | `RtcDev_starve.cfg` | violation | Two readers. After an interrupt wakes reader 0, reader 1 enters `rtc_read` and sets the shared flag again before reader 0 tests it. Reader 1 reading in a loop starves reader 0 forever (`rtc.c:113`). |
| `console_safety` | `Console_safety.cfg` | pass | Two shells read from two terminals, and one character is written. Keys, backspaces, Enter, Ctrl+L and Alt+F arrive at every point the PIT can preempt. No terminal's text reaches another terminal's buffer, nor the screen while that terminal is not current. Enter typed while a shell reads always releases it. |
| `console_garble` | `Console_garble.cfg` | violation | One terminal. A key is echoed between `console_putchar`'s `sti` and its `console_inccur`. The inccur then writes back a cursor copied before the echo, so the shell's next character lands one column off from where either atomic order of the two outputs puts it (`console.c:287`). |
| (`Console_clear.cfg`) | not a listed run | violation | `ScreenShowsText` with Ctrl+L: `console_clrsc` blanks video memory, but the terminal's `vid_buf` keeps the '^' and the old text. The screen no longer mirrors the terminal, and the next Alt+F back restores the cleared text (`console.c:410`). |
| `console_phantom` | `Console_phantom.cfg` | violation | The keyboard ISR is preempted after its echo (Backspace here), while the shell finishes its read and starts the next one. Resuming, the ISR writes back its stale `current_input` with `complete` set, so the new read returns an empty line nobody typed (`console.c:581`). |

The three configurations in parentheses are kept so that their findings can be
reproduced with `tlc`. They are not among the twelve listed runs in `PROJECT.json`,
which keep to preemption and the device races; the hazards there describe them.

**Console bounds.**
- Terminals are 2x2. A third character, or a second line, scrolls, so every branch of
  `console_inccur` and `console_scroll` happens.
- There are two terminals, so isolation and Alt+F have somewhere to go.
- The read size is 3, the smallest buffer with a line of one key that then fills up
  (`next == buffer_length - 2`).
- In `console_safety`, `MaxKeys` = 4 and `MaxWrites` = 1 bound the user's keys and the
  shells' output. They are enough to type, delete, end a line and swap, to scroll from
  the keyboard, and to write on a terminal that is not on screen. A second write
  (512k states before the Enter window was modelled) takes the run past four minutes.
  `Console_garble.cfg` keeps two writes on one terminal. The
  counterexamples found have 7 and 12 states.
- `CtrlL` is TRUE only in `console_safety` and `Console_clear.cfg`. The two violation
  runs keep the keys their findings are about.

**RtcDev bounds.** `rtc_safety` has three tasks. That allows one task in `rtc_open`,
a second calling `rtc_write` while the first is preempted, and a third reading.
`rtc_starve` and `RtcDev_rate.cfg` need only two. The model has no counters, so its
state space is finite without a bound.

**Bounds.**
- MAX_PROCESS = 5 (the code has 6). That allows three shells plus a two-deep chain of
  descendants, so the queue fills and `new_process_ptable` fails.
- `MaxBootTicks` = 4 bounds `con_idx` through a state constraint. In the code the
  counter only stops growing when three tasks are queued. Four is one past the last
  terminal, which is what the nested-bootstrap run needs. The constraint is not a guard,
  so the bound never creates a state in which nothing can happen.

**FileSys bounds.**
- `NUM_FDS` = 4 (the code has 8). Two user descriptors are enough to reuse a
  descriptor and to fill the table.
- The blocks are two bytes long, and the read sizes are 1-3 bytes. So reads start,
  end and cross at every position relative to a block boundary, and reach the end of
  both files.
- `MAX_FNAME_SIZE` and the 128-byte argument buffer keep their real sizes. The command
  lines are `h`, `h a b`, `h a ` and `frame`'s 32-byte name plus one more byte. They
  reach every exit of `parse_exec`'s loops: a name ended by a space, by the NUL and by
  the 32-byte bound, and a trailing space dropped. `getargs` sizes 0, 1 and 3 give a
  zero size, a buffer too short, an exact fit without NUL and a padded fit. The
  128-byte argument bound is not reached.

**Fairness.** `WF(PitFire)`: the PIT is periodic. `WF(Tick)`: a latched IRQ0 is taken
at the next instruction boundary with IF = 1, and user programs cannot issue a call
while it is pending (`UserMayCall`). `WF(Kernel)`: kernel code runs on. User programs
get no fairness: a shell may wait for input forever.

## 4. Not modelled, and why

- **Stack memory contents.** `exec_ret` resumes on the fixed address `0x7FFFBE`
  (pid 0's stack), and halt's first-shell restart relies on leftover register values.
  The model resumes at the right place and records these as hazards.
- **Data.** ProcSched leaves out the argument strings, the fd arrays of
  `execute`/`halt` and the ELF entry point. FileSys models the fd arrays, the
  argument strings (`Execute`, `GetArgs`) and file contents, one `<<block, offset>>`
  per byte. The ELF entry point and the 40-byte header are abstracted to the set
  `Executables`.
- **Console details.** `console_clrsc`, which `halt` calls on a shell restart
  (`filesys.c:665`), is left out; Ctrl+L's call of it is modelled. So are colours, the hardware cursor and
  `console_getchar`, which only `tests.c` uses. Keys typed before a shell's first read
  store through the NULL buffer that `vterm_new` leaves. That faults on the unmapped
  page 0, which is recorded as a hazard and not modelled.
- **RTC rate value.** `RtcDev` keeps the steps of `rtc_set_frequency` but not the rate
  value: the model has no time. It also leaves out the value `inb` returns. After the
  ISR's select, that value comes from register C, and its bits are written back into
  register A's divider bits. What the RTC then does depends on the datasheet, not
  this code.
- **PIC set-up.** `i8259_init` and `send_eoi` are configuration writes.
- **Other parts.** VGA register writes (`vga.c`) and IDT set-up (`interrupts.c`) are
  configuration with no concurrent behaviour. Exception handlers just spin. `tests.c`
  is test code, and `mp2/text.h` belongs to another assignment.
