----------------------------- MODULE ProcSched -----------------------------
(***************************************************************************)
(* Process control, round-robin scheduling and per-task address spaces of *)
(* the ECE391 kernel (src/ECE391/mp3/student-distrib):                      *)
(*   execute / halt / file_to_mem                    filesys.c              *)
(*   pit_interrupt, task_push, task_pop, task_grab   scheduling.c           *)
(*   new_process_ptable, return_parent_paging,                              *)
(*   swap_task_paging                                paging.c               *)
(*   vidmap                                          syscall.c              *)
(*                                                                         *)
(* One CPU.  What it is running is a stack of frames `cpu`: a user frame   *)
(* at the bottom, kernel frames (a system call, the PIT handler) on top.   *)
(* The system call gate is a trap gate (interrupts.c:162), so kernel code  *)
(* runs with IF = 1 except between explicit cli/sti; each step below is    *)
(* the code between two points where the PIT may fire.  The PIT handler    *)
(* saves "esp" into task_queue[0]; here that is the whole frame stack, so  *)
(* restoring a queue entry resumes exactly what was interrupted.           *)
(***************************************************************************)
EXTENDS Integers, Sequences, FiniteSets
LOCAL INSTANCE FiniteSetsExt
LOCAL INSTANCE SequencesExt

CONSTANTS
  MAX_PROCESS,      \* paging.h: number of task slots and page directories
  Programs,         \* command names a user program may pass to execute
  Shell,            \* the program the PIT bootstraps (execute("shell"))
  Executables,      \* programs found in the file system with the ELF magic
  ShortImages,      \* executables whose full copy reads back short
  NoProg,           \* model value: no image loaded
  PreemptKernel,    \* TRUE: the PIT may fire inside kernel code (IF = 1)
  UsersWaitForBoot  \* TRUE: user programs make no call before 3 shells run

ASSUME MAX_PROCESS \in 3..6
ASSUME Shell \in Executables /\ Executables \subseteq Programs
ASSUME ShortImages \subseteq Executables \ {Shell}
ASSUME NoProg \notin Programs
ASSUME PreemptKernel \in BOOLEAN /\ UsersWaitForBoot \in BOOLEAN

NULL     == -1              \* NULL pcb pointer / parent_pid of a first shell
KernelPD == -1              \* page_dir, loaded by init_paging
Slots    == 0..MAX_PROCESS-1
Terms    == 0..2            \* MAX_VTERMS

(* Frames of the CPU stack.  pc names the next step of execute or halt;   *)
(* parent and tcur are execute's locals `parent` and `temp_cur`.          *)
Frame(f, pc, prog, parent, tcur) ==
  [f |-> f, pc |-> pc, prog |-> prog, parent |-> parent, tcur |-> tcur]
NoEntry   == [pcb |-> NULL, enabled |-> FALSE, ctx |-> <<>>]
UserFrame == Frame("user", "none", NoProg, NULL, NoEntry)
IdleFrame == Frame("idle", "none", NoProg, NULL, NoEntry)
PitFrame  == Frame("pit", "none", NoProg, NULL, NoEntry)
Stuck(why) == <<Frame(why, "none", NoProg, NULL, NoEntry)>>  \* "hang", "fault"

VARIABLES
  present,   \* present bit of process_pdir_table[s].pde[USER_IDX]
  pcb,       \* the PCB at 8MB - 8KB*(s+1): parent_pid, con, vidmap_check
  cur_pcb,   \* cur_pcb (slot, or NULL)
  cr3,       \* page directory loaded in CR3
  tss,       \* slot whose kernel stack tss.esp0 points at
  queue,     \* task_queue[0..MAX_PROCESS-1]: pcb, enabled, saved context
  cpu,       \* stack of frames the CPU is executing
  image,     \* program whose image is in the user window of slot s
  vidpte,    \* vmem_table2.pte[s] present (user video page of pid s)
  con_ovr,   \* con_ovr {idx, flag} (console.c:18)
  con_idx,   \* static con_idx of pit_interrupt
  irq0       \* IRQ0 (PIT) latched in the 8259, not yet taken by the CPU

vars == <<present, pcb, cur_pcb, cr3, tss, queue, cpu, image, vidpte,
          con_ovr, con_idx, irq0>>

Top(s)        == Last(s)
SetTop(s, fr) == [s EXCEPT ![Len(s)] = fr]
At(f, pc)     == Top(cpu).f = f /\ Top(cpu).pc = pc
InUser        == Top(cpu).f = "user"

-----------------------------------------------------------------------------
(* task_queue helpers (scheduling.c).                                      *)

\* task_push: store the entry in the first slot whose pcb is NULL.
TaskPush(q, t) ==
  LET free == {i \in Slots : q[i].pcb = NULL}
  IN IF free = {} THEN q ELSE [q EXCEPT ![Min(free)] = t]

\* Mutant: task_pop that forgets to NULL the last entry after the shift.
TaskPopKeepLast(q, p) ==
  LET hits == {i \in Slots : q[i].pcb = p}
      i    == Min(hits)
  IN IF hits = {} THEN q
     ELSE [j \in Slots |-> IF j < i \/ j = MAX_PROCESS - 1 THEN q[j] ELSE q[j+1]]

\* task_pop: remove the first entry with this pcb, shift the rest down and
\* NULL the pcb of the last entry (its other fields keep their values).
TaskPop(q, p) ==
  LET hits == {i \in Slots : q[i].pcb = p}
      i    == Min(hits)
  IN IF hits = {} THEN q
     ELSE [j \in Slots |->
             IF j < i THEN q[j]
             ELSE IF j < MAX_PROCESS - 1 THEN q[j+1]
             ELSE [q[j] EXCEPT !.pcb = NULL]]

\* task_grab: the saved stack pointers of the first entry with this pcb,
\* or an entry whose pcb is NULL when there is none.
TaskGrab(q, p) ==
  LET hits == {i \in Slots : q[i].pcb = p}
  IN IF hits = {} THEN [NoEntry EXCEPT !.enabled = TRUE]
     ELSE [pcb |-> p, enabled |-> TRUE, ctx |-> q[Min(hits)].ctx]

\* pit_interrupt's do-while: pop the head, push it back, until the head is
\* enabled.  The queue is compact (QueueWellFormed), so MAX_PROCESS rounds
\* visit every entry; a head still disabled then means the loop never ends.
\* Mutant: the loop as a while loop, which keeps an enabled head in place.
RECURSIVE RotateWhile(_, _)
RotateWhile(q, n) ==
  IF q[0].enabled \/ n = 0 THEN q
  ELSE RotateWhile(TaskPush(TaskPop(q, q[0].pcb), q[0]), n - 1)

RECURSIVE Rotate(_, _)
Rotate(q, n) ==
  LET r == TaskPush(TaskPop(q, q[0].pcb), q[0])
  IN IF r[0].enabled \/ n = 1 THEN r ELSE Rotate(r, n - 1)

\* new_process_ptable: the first slot whose user PDE is not present.
FreeSlot ==
  IF \A s \in Slots : present[s] THEN NULL
  ELSE Min({s \in Slots : ~present[s]})

\* Mutant: the console choice without the override the PIT sets for a
\* bootstrap shell.
SelectConNoOverride(s, parent_pcb) ==
  IF s = 0 THEN 0 ELSE IF parent_pcb # NULL THEN pcb[parent_pcb].con ELSE 0

\* file_to_mem's choice of console for the new PCB.
SelectCon(s, parent_pcb) ==
  IF s = 0 THEN 0
  ELSE IF con_ovr.flag THEN con_ovr.idx
  ELSE IF parent_pcb # NULL THEN pcb[parent_pcb].con
  ELSE 0

\* Mutant: unwinding two frames whatever the caller.
ExecReturnPopTwo(s) == SubSeq(s, 1, Len(s) - 2)

\* execute returning -1: back to the caller through syscall_handler's
\* iret, or, for a bootstrap shell, through the end of pit_interrupt.
ExecReturn(s) ==
  IF Len(s) > 1 /\ s[Len(s)-1].f = "pit" THEN SubSeq(s, 1, Len(s) - 2)
  ELSE Front(s)

\* Mutant: a bootstrap test that waits for a fourth queued task.
BootstrappingFourShells(q) == cur_pcb = NULL \/ q[3].pcb = NULL

\* pit_interrupt starts a shell while no task runs or fewer than three
\* tasks are queued.
Bootstrapping(q) == cur_pcb = NULL \/ q[2].pcb = NULL

-----------------------------------------------------------------------------
Init ==
  /\ present = [s \in Slots |-> FALSE]
  /\ pcb     = [s \in Slots |-> [parent_pid |-> 0, con |-> 0,
                                 vidmap |-> FALSE, prog |-> NoProg]]
  /\ cur_pcb = NULL
  /\ cr3     = KernelPD
  /\ tss     = NULL
  /\ queue   = [i \in Slots |-> [pcb |-> NULL, enabled |-> TRUE, ctx |-> <<>>]]
  /\ cpu     = <<IdleFrame>>
  /\ image   = [s \in Slots |-> NoProg]
  /\ vidpte  = [s \in Slots |-> FALSE]
  /\ con_ovr = [idx |-> 0, flag |-> FALSE]
  /\ con_idx = 0
  /\ irq0    = FALSE

(* pit_interrupt.  Saves the interrupted context into task_queue[0]; while *)
(* fewer than three shells are queued it starts one (sti, then execute     *)
(* "shell" on the interrupted stack); otherwise it rotates the queue to    *)
(* the next enabled task, points tss.esp0 and CR3 at it and resumes the    *)
(* context saved in its entry.                                             *)
Tick ==
  /\ irq0 /\ irq0' = FALSE
  /\ Top(cpu).f \notin {"hang", "fault"}
  /\ PreemptKernel \/ Top(cpu).f \in {"user", "idle"}
  /\ LET q1 == [queue EXCEPT ![0].ctx = cpu] IN
     IF Bootstrapping(q1)
     THEN /\ queue'   = q1
          /\ con_ovr' = [idx |-> con_idx, flag |-> TRUE]
          /\ con_idx' = con_idx + 1
          /\ cpu'     = cpu \o <<PitFrame, Frame("exec", "parse", Shell, NULL, NoEntry)>>
          /\ UNCHANGED <<present, pcb, cur_pcb, cr3, tss, image, vidpte>>
     ELSE \E r \in {Rotate(q1, MAX_PROCESS)} :
          /\ IF ~r[0].enabled
               THEN cpu' = Stuck("hang") /\ queue' = q1
                    /\ UNCHANGED <<cur_pcb, cr3, tss>>
             ELSE IF r[0].pcb = NULL \/ r[0].ctx = <<>>
               THEN cpu' = Stuck("fault") /\ queue' = r
                    /\ UNCHANGED <<cur_pcb, cr3, tss>>
             ELSE /\ queue'   = r
                  /\ tss'     = r[0].pcb
                  /\ cr3'     = r[0].pcb          \* swap_task_paging
                  /\ cur_pcb' = r[0].pcb
                  /\ cpu'     = r[0].ctx
          /\ UNCHANGED <<present, pcb, image, vidpte, con_ovr, con_idx>>

-----------------------------------------------------------------------------
(* The PIT counts down its period (QUANTUM_RATE) and raises IRQ0.        *)
PitFire ==
  /\ ~irq0 /\ irq0' = TRUE
  /\ UNCHANGED <<present, pcb, cur_pcb, cr3, tss, queue, cpu, image, vidpte,
                 con_ovr, con_idx>>

(* System calls made by the user program running on the CPU: the kernel   *)
(* uses cur_pcb as the caller.  A latched IRQ0 is taken before the next   *)
(* user instruction, since user mode runs with IF = 1.                    *)
UserMayCall == InUser /\ ~irq0 /\ (~UsersWaitForBoot \/ queue[2].pcb # NULL)

SysExecute(prog) ==
  /\ UserMayCall
  /\ cpu' = Append(cpu, Frame("exec", "parse", prog, NULL, NoEntry))
  /\ UNCHANGED <<present, pcb, cur_pcb, cr3, tss, queue, image, vidpte,
                 con_ovr, con_idx, irq0>>

SysHalt ==
  /\ UserMayCall
  /\ cpu' = Append(cpu, Frame("halt", "start", NoProg, NULL, NoEntry))
  /\ UNCHANGED <<present, pcb, cur_pcb, cr3, tss, queue, image, vidpte,
                 con_ovr, con_idx, irq0>>

(* vidmap: sets pte[pid] before it tests vidmap_check, then sets the flag. *)
Vidmap ==
  /\ UserMayCall
  /\ cur_pcb # NULL
  /\ vidpte' = [vidpte EXCEPT ![cur_pcb] = TRUE]
  /\ pcb'    = [pcb EXCEPT ![cur_pcb].vidmap = TRUE]
  /\ UNCHANGED <<present, cur_pcb, cr3, tss, queue, cpu, image, con_ovr,
                 con_idx, irq0>>

-----------------------------------------------------------------------------
(* execute(), filesys.c:513-647, one action per interruptible stretch.    *)

\* Mutant: the parent chosen from cur_pcb alone, without the test that
\* fewer than three tasks are queued.
ExecParseNoBootCheck ==
  /\ At("exec", "parse")
  /\ LET parent == IF cur_pcb = NULL THEN NULL ELSE cur_pcb
     IN cpu' = SetTop(cpu, [Top(cpu) EXCEPT !.pc = "load", !.parent = parent])
  /\ UNCHANGED <<present, pcb, cur_pcb, cr3, tss, queue, image, vidpte,
                 con_ovr, con_idx, irq0>>

\* parse_exec, then the parent the child will record: none while fewer
\* than three tasks are queued.
ExecParse ==
  /\ At("exec", "parse")
  /\ LET parent == IF cur_pcb = NULL \/ queue[2].pcb = NULL THEN NULL ELSE cur_pcb
     IN cpu' = SetTop(cpu, [Top(cpu) EXCEPT !.pc = "load", !.parent = parent])
  /\ UNCHANGED <<present, pcb, cur_pcb, cr3, tss, queue, image, vidpte,
                 con_ovr, con_idx, irq0>>

\* temp_cur = task_queue[0]; cli; file_to_mem up to its sti: name lookup,
\* ELF check, new_process_ptable (marks the slot present, loads its CR3),
\* cur_pcb = the child, console choice.
ExecLoad ==
  /\ At("exec", "load")
  /\ LET fr == [Top(cpu) EXCEPT !.tcur = queue[0], !.pc = "copy"]
         s  == FreeSlot
     IN IF fr.prog \notin Executables \/ s = NULL
        THEN /\ cpu' = ExecReturn(cpu)
             /\ UNCHANGED <<present, pcb, cur_pcb, cr3, con_ovr>>
        ELSE /\ present' = [present EXCEPT ![s] = TRUE]
             /\ cr3'     = s
             /\ cur_pcb' = s
             /\ pcb'     = [pcb EXCEPT ![s].parent_pid = s - 1,
                                       ![s].con = SelectCon(s, cur_pcb),
                                       ![s].prog = fr.prog]
             /\ con_ovr' = IF s # 0 /\ con_ovr.flag
                           THEN [con_ovr EXCEPT !.flag = FALSE] ELSE con_ovr
             /\ cpu'     = SetTop(cpu, fr)
  /\ UNCHANGED <<tss, queue, image, vidpte, con_idx, irq0>>

\* read_data copies the whole file to LOAD_LOC through the loaded CR3; a
\* short copy makes execute return -1 with the slot still taken.
ExecCopy ==
  /\ At("exec", "copy")
  /\ IF Top(cpu).prog \in ShortImages
     THEN cpu' = ExecReturn(cpu) /\ UNCHANGED image
     ELSE IF cr3 = KernelPD
     THEN cpu' = Stuck("fault") /\ UNCHANGED image
     ELSE /\ image' = [image EXCEPT ![cr3] = Top(cpu).prog]
          /\ cpu'   = SetTop(cpu, [Top(cpu) EXCEPT !.pc = "setup"])
  /\ UNCHANGED <<present, pcb, cur_pcb, cr3, tss, queue, vidpte, con_ovr,
                 con_idx, irq0>>

\* Mutants: the parent's entry left enabled; parent_pid left at s - 1.
ExecSetupKeepParent ==
  /\ At("exec", "setup")
  /\ pcb' = [pcb EXCEPT ![cur_pcb].parent_pid = Top(cpu).parent,
                        ![cur_pcb].vidmap = FALSE]
  /\ cpu' = SetTop(cpu, [Top(cpu) EXCEPT !.pc = "push"])
  /\ UNCHANGED <<present, cur_pcb, cr3, tss, queue, image, vidpte, con_ovr,
                 con_idx, irq0>>
ExecSetupNoParentPid ==
  /\ At("exec", "setup")
  /\ LET fr == Top(cpu) IN
     /\ pcb' = [pcb EXCEPT ![cur_pcb].vidmap = FALSE]
     /\ cpu' = SetTop(cpu, [fr EXCEPT !.pc = "push",
                              !.tcur.enabled = IF fr.parent # NULL THEN FALSE
                                               ELSE fr.tcur.enabled])
  /\ UNCHANGED <<present, cur_pcb, cr3, tss, queue, image, vidpte, con_ovr,
                 con_idx, irq0>>

\* stdin/stdout, esp/ebp, args, vidmap_check = false, parent_pid = parent
\* on cur_pcb; the saved parent entry is put to sleep unless parent = -1.
ExecSetup ==
  /\ At("exec", "setup")
  /\ LET fr == Top(cpu) IN
     /\ pcb' = [pcb EXCEPT ![cur_pcb].parent_pid = fr.parent,
                           ![cur_pcb].vidmap = FALSE]
     /\ cpu' = SetTop(cpu, [fr EXCEPT !.pc = "push",
                              !.tcur.enabled = IF fr.parent # NULL THEN FALSE
                                               ELSE fr.tcur.enabled])
  /\ UNCHANGED <<present, cur_pcb, cr3, tss, queue, image, vidpte, con_ovr,
                 con_idx, irq0>>

\* if (cur_pcb->pid != 0) task_push(&temp_cur);
ExecPush ==
  /\ At("exec", "push")
  /\ queue' = IF cur_pcb # 0 THEN TaskPush(queue, Top(cpu).tcur) ELSE queue
  /\ cpu'   = SetTop(cpu, [Top(cpu) EXCEPT !.pc = "switch"])
  /\ UNCHANGED <<present, pcb, cur_pcb, cr3, tss, image, vidpte, con_ovr,
                 con_idx, irq0>>

\* Mutant: tss.esp0 not moved to the child's kernel stack.
ExecSwitchNoTss ==
  /\ At("exec", "switch")
  /\ queue' = [queue EXCEPT ![0] = [pcb |-> cur_pcb, enabled |-> TRUE, ctx |-> <<>>]]
  /\ cpu'   = <<UserFrame>>
  /\ UNCHANGED <<present, pcb, cur_pcb, cr3, tss, image, vidpte, con_ovr,
                 con_idx, irq0>>

\* task_queue[0] = temp_next; tss.esp0 = child's stack; sti; iret to the
\* entry point in user mode.
ExecSwitch ==
  /\ At("exec", "switch")
  /\ queue' = [queue EXCEPT ![0] = [pcb |-> cur_pcb, enabled |-> TRUE, ctx |-> <<>>]]
  /\ tss'   = cur_pcb
  /\ cpu'   = <<UserFrame>>
  /\ UNCHANGED <<present, pcb, cur_pcb, cr3, image, vidpte, con_ovr, con_idx, irq0>>

-----------------------------------------------------------------------------
(* halt(), filesys.c:657-738.                                              *)

\* Mutant: halt without the first-shell check.
HaltStartNoShellCheck ==
  /\ At("halt", "start")
  /\ vidpte' = [vidpte EXCEPT ![0] = FALSE]
  /\ pcb'    = [pcb EXCEPT ![cur_pcb].vidmap = FALSE]
  /\ cpu'    = SetTop(cpu, [Top(cpu) EXCEPT !.pc = "paging"])
  /\ UNCHANGED <<present, cur_pcb, cr3, tss, queue, image, con_ovr, con_idx,
                 irq0>>

\* A first shell (parent -1, or pid 0) is restarted in place; any other
\* task has its file descriptors cleared, then pte[0] (not pte[pid]) of
\* the user video table and its vidmap_check.
HaltStart ==
  /\ At("halt", "start")
  /\ IF pcb[cur_pcb].parent_pid = NULL \/ cur_pcb = 0
     THEN cpu' = <<UserFrame>> /\ UNCHANGED <<pcb, vidpte>>
     ELSE /\ vidpte' = [vidpte EXCEPT ![0] = FALSE]
          /\ pcb'    = [pcb EXCEPT ![cur_pcb].vidmap = FALSE]
          /\ cpu'    = SetTop(cpu, [Top(cpu) EXCEPT !.pc = "paging"])
  /\ UNCHANGED <<present, cur_pcb, cr3, tss, queue, image, con_ovr, con_idx, irq0>>

\* return_parent_paging: CR3 = parent's directory; `pde -= 1` on the
\* task's user PDE, which clears the present bit, or sets it if clear.
HaltPaging ==
  /\ At("halt", "paging")
  /\ IF pcb[cur_pcb].parent_pid = NULL
     THEN cpu' = Stuck("fault") /\ UNCHANGED <<cr3, present>>
     ELSE /\ cr3'     = pcb[cur_pcb].parent_pid
          /\ present' = [present EXCEPT ![cur_pcb] = ~present[cur_pcb]]
          /\ cpu'     = SetTop(cpu, [Top(cpu) EXCEPT !.pc = "parent"])
  /\ UNCHANGED <<pcb, cur_pcb, tss, queue, image, vidpte, con_ovr, con_idx, irq0>>

\* cur_pcb = parent's PCB; tss.esp0 = parent's kernel stack.
HaltParent ==
  /\ At("halt", "parent")
  /\ cur_pcb' = pcb[cur_pcb].parent_pid
  /\ tss'     = pcb[cur_pcb].parent_pid
  /\ cpu'     = SetTop(cpu, [Top(cpu) EXCEPT !.pc = "requeue"])
  /\ UNCHANGED <<present, pcb, cr3, queue, image, vidpte, con_ovr, con_idx, irq0>>

\* cli; task_grab + task_pop the parent's entry and make it task_queue[0],
\* enabled; sti; jump to exec_ret, returning 0 to user mode.
HaltRequeue ==
  /\ At("halt", "requeue")
  /\ LET t == TaskGrab(queue, cur_pcb)
     IN queue' = [TaskPop(queue, t.pcb) EXCEPT ![0] = t]
  /\ cpu' = <<UserFrame>>
  /\ UNCHANGED <<present, pcb, cur_pcb, cr3, tss, image, vidpte, con_ovr,
                 con_idx, irq0>>

-----------------------------------------------------------------------------
Kernel ==
  \/ ExecParse \/ ExecLoad \/ ExecCopy \/ ExecSetup \/ ExecPush \/ ExecSwitch
  \/ HaltStart \/ HaltPaging \/ HaltParent \/ HaltRequeue

User == (\E p \in Programs : SysExecute(p)) \/ SysHalt \/ Vidmap

Next == PitFire \/ Tick \/ Kernel \/ User

(* The PIT keeps firing, the CPU takes a latched IRQ0 as soon as it runs  *)
(* with IF = 1 and runs kernel code on to its next step.  User programs   *)
(* are free to never make a call.                                          *)
Fairness == WF_vars(PitFire) /\ WF_vars(Tick) /\ WF_vars(Kernel)

Spec == Init /\ [][Next]_vars /\ Fairness

-----------------------------------------------------------------------------
(* Definitions used by the properties.                                     *)
Live       == {s \in Slots : present[s]}
Queued     == {queue[i].pcb : i \in {j \in Slots : queue[j].pcb # NULL}}
Booted     == queue[2].pcb # NULL
Child(s)   == {c \in Live : c # s /\ pcb[c].parent_pid = s}
IsShell(s) == pcb[s].parent_pid = NULL

TypeOK ==
  /\ present \in [Slots -> BOOLEAN]
  /\ cur_pcb \in Slots \cup {NULL}
  /\ cr3 \in Slots \cup {KernelPD}
  /\ tss \in Slots \cup {NULL}
  /\ \A i \in Slots : queue[i].pcb \in Slots \cup {NULL}
                      /\ queue[i].enabled \in BOOLEAN
  /\ image \in [Slots -> Programs \cup {NoProg}]
  /\ vidpte \in [Slots -> BOOLEAN]
  /\ con_idx \in Nat
  /\ cpu # <<>>


(* Integrity of task_queue, the structure pit_interrupt, execute and halt  *)
(* all rewrite: whenever a user program runs, the queue holds every live   *)
(* task exactly once, packed at the front as task_push/task_pop assume,    *)
(* and nothing else.  Broken by a task_push of an entry already queued or  *)
(* an entry lost between execute's task_push and task_queue[0] = temp_next.*)
QueueIntegrity ==
  InUser =>
    /\ \A i, j \in Slots : i < j /\ queue[j].pcb # NULL => queue[i].pcb # NULL
    /\ \A i, j \in Slots : i # j /\ queue[i].pcb # NULL => queue[i].pcb # queue[j].pcb
    /\ Queued = Live

(* The running task is the one the kernel thinks it is: when the CPU is in *)
(* user mode, cur_pcb, the head of task_queue, tss.esp0 and CR3 all name   *)
(* the same live task, and the image in its address space is the program  *)
(* execute loaded for it (pit_interrupt's swap vs. execute's CR3 and      *)
(* cur_pcb updates).                                                       *)
UserRunsOwnImage ==
  InUser =>
    /\ cur_pcb # NULL /\ present[cur_pcb]
    /\ queue[0].pcb = cur_pcb /\ tss = cur_pcb /\ cr3 = cur_pcb
    /\ image[cur_pcb] = pcb[cur_pcb].prog

(* The scheduler runs only the leaves of the process tree: a queued task   *)
(* is enabled exactly when it has no live child (execute disables the      *)
(* parent's entry through temp_cur, halt re-enables it), and each of the   *)
(* three terminals has exactly one enabled task, on its own console.       *)
ExactlyLeavesEnabled ==
  (InUser /\ Booted) =>
    /\ \A i \in Slots : queue[i].pcb # NULL =>
          (queue[i].enabled <=> Child(queue[i].pcb) = {})
    /\ \A t \in Terms :
          Cardinality({i \in Slots : queue[i].pcb # NULL /\ queue[i].enabled
                                     /\ pcb[queue[i].pcb].con = t}) = 1

(* A user program that calls halt gets back to its parent: every live      *)
(* task other than the three shells has a live parent on the same console, *)
(* so return_parent_paging and cur_pcb = parent never use a freed slot.    *)
ParentsLive ==
  InUser =>
    \A s \in Live : ~IsShell(s) =>
       /\ pcb[s].parent_pid \in Live \ {s}
       /\ pcb[pcb[s].parent_pid].con = pcb[s].con

(* The user video page of slot s (vmem_table2.pte[s]) is present exactly   *)
(* when the live task in s has called vidmap (vidmap_check), so no task    *)
(* inherits another's mapping and a mapping is not taken from a task that  *)
(* still uses it (vidmap sets pte[pid]; halt clears it).                   *)
VidmapConsistent ==
  InUser => \A s \in Live : vidpte[s] <=> pcb[s].vidmap

(* Every task runs on one of the MAX_VTERMS terminals: the console index  *)
(* file_to_mem takes from con_ovr, set by pit_interrupt from con_idx, is a *)
(* valid index of vterms[].                                                *)
ConsolesInRange == \A s \in Live : pcb[s].con \in Terms

(* The scheduler never spins forever in its rotate loop with interrupts    *)
(* off and never resumes a task it has no saved stack for.                 *)
NoHangOrFault == Top(cpu).f \notin {"hang", "fault"}

(* No enabled task starves: whenever a user program runs, every task that *)
(* is queued and enabled eventually runs in user mode itself, since        *)
(* pit_interrupt rotates task_queue past disabled entries.  (A task's own  *)
(* execute may disable it while it is in the kernel, hence "user".)        *)
Running(s)  == InUser /\ cur_pcb = s
Runnable(s) == \E i \in Slots : queue[i].pcb = s /\ queue[i].enabled
EnabledTasksRun == \A s \in Slots : (InUser /\ Runnable(s)) ~> Running(s)

(* The boot sequence completes: three shells are eventually running, one   *)
(* per terminal, started by the first three PIT ticks.                     *)
ShellsStarted == <>[](\A t \in Terms : \E s \in Live : IsShell(s) /\ pcb[s].con = t)

(* The refinement mapping to ProcTree.  The live tasks are those in        *)
(* task_queue, with the parent_pid and con of their PCBs; a child joins    *)
(* the queue when execute stores temp_next in task_queue[0], and leaves it *)
(* when halt puts its parent there.  The CPU is in the context of the task *)
(* at the head of the queue, in user mode when the top frame is a user     *)
(* frame.                                                                  *)
Tree == INSTANCE ProcTree WITH
  tree <- [s \in Queued |-> [parent |-> pcb[s].parent_pid, con |-> pcb[s].con]],
  run  <- queue[0].pcb,
  user <- InUser,
  NoProc <- NULL

(* execute, halt and pit_interrupt together implement the process tree:   *)
(* every step of the kernel is a step of ProcTree or leaves the tree and   *)
(* the running task unchanged.  A shell only starts on a terminal that has *)
(* none, a child is added under the caller on the caller's terminal and   *)
(* runs at once, halt removes only the caller and resumes its parent, and *)
(* the PIT only ever resumes a leaf.                                       *)
ImplementsProcTree == Tree!Spec
=============================================================================
