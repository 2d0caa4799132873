------------------------------ MODULE RtcDev -------------------------------
(***************************************************************************)
(* The RTC driver of rtc.c with several tasks reading /dev/rtc.  All      *)
(* readers share the one volatile rtc_interrupt_flag: rtc_read sets it    *)
(* and spins until rtc_interrupt clears it.  The RTC asserts IRQ8 again   *)
(* only once register C has been read.  Tasks take turns on the CPU in    *)
(* the round-robin order of pit_interrupt (ProcSched models that order in *)
(* full); the spin loop runs with interrupts on, since the system-call    *)
(* gate is a trap gate, so both IRQs reach a spinning reader.             *)
(*                                                                         *)
(* rtc_open sets the rate through rtc_set_frequency(2) with interrupts on:*)
(* it masks IRQ8 at the PIC, selects register A on the CMOS index port,   *)
(* reads it, selects it again, writes the new rate and unmasks IRQ8, and  *)
(* a PIT tick may come between any two of these steps.  rtc_write runs    *)
(* the same function between cli and sti, as one step.  The rate value   *)
(* itself only scales time and is left out; which register the index     *)
(* port selects, and the IRQ8 mask (slave_mask and the PIC's copy), are   *)
(* kept.                                                                  *)
(***************************************************************************)
EXTENDS Naturals

CONSTANT N          \* number of tasks on the CPU
ASSUME N \in Nat \ {0}

Tasks == 0..N-1

VARIABLES
    flag,      \* rtc_interrupt_flag
    pc,        \* per task: "user", or "spin" inside rtc_read's loop
    regc,      \* register C read since the last IRQ8: the RTC may interrupt
    irq8,      \* IRQ8 raised and not yet taken
    running,   \* the task on the CPU
    woken,     \* ghost: an interrupt came since the task entered rtc_read
    mask,      \* IRQ8's bit of slave_mask: TRUE when masked
    pic,       \* IRQ8's bit of the slave PIC's mask register
    idx        \* the CMOS register selected on port 0x70: "A", "B" or "C"

vars == <<flag, pc, regc, irq8, running, woken, mask, pic, idx>>

\* Where a task inside rtc_open's rtc_set_frequency(2) is, named by the
\* statement it runs next: disable_irq's store to slave_mask and its outb,
\* outb of index A, inb of the data port, outb of index A again, outb of
\* the new rate, enable_irq's store and its outb.
SetFreqPcs == {"dis", "disOut", "selA", "inA", "selA2", "outA", "en", "enOut"}

\* Task t, on the CPU, runs the statement at from and goes on to to.
Step(t, from, to) ==
    /\ running = t /\ pc[t] = from
    /\ pc' = [pc EXCEPT ![t] = to]

\* rtc_interrupt_flag is a zeroed global; init_rtc turns periodic
\* interrupts on, leaves register B selected and unmasks IRQ8 (which
\* i8259_init masked); the first task runs in user mode.
Init ==
    /\ flag = 0
    /\ pc = [t \in Tasks |-> "user"]
    /\ regc = TRUE
    /\ irq8 = FALSE
    /\ running = 0
    /\ woken = [t \in Tasks |-> FALSE]
    /\ mask = FALSE /\ pic = FALSE
    /\ idx = "B"

\* The RTC's periodic interrupt (enabled by init_rtc through register B):
\* raised only if register C was read after the previous one.
RtcFire ==
    /\ regc /\ ~irq8
    /\ irq8' = TRUE
    /\ regc' = FALSE
    /\ UNCHANGED <<flag, pc, running, woken, mask, pic, idx>>

\* A plausible slip: an ISR that acknowledges the PIC but skips the
\* register C read, so the RTC never interrupts again.
RtcInterruptNoRegC ==
    /\ irq8 /\ ~pic
    /\ irq8' = FALSE
    /\ flag' = 0
    /\ woken' = [t \in Tasks |-> woken[t] \/ pc[t] = "spin"]
    /\ UNCHANGED <<pc, regc, running, mask, pic, idx>>

\* rtc_interrupt, taken when IRQ8 is pending and unmasked at the PIC:
\* select and read register C, send EOI, clear the flag.
RtcInterrupt ==
    /\ irq8 /\ ~pic
    /\ irq8' = FALSE
    /\ regc' = TRUE
    /\ idx' = "C"
    /\ flag' = 0
    /\ woken' = [t \in Tasks |-> woken[t] \/ pc[t] = "spin"]
    /\ UNCHANGED <<pc, running, mask, pic>>

\* A plausible slip: advancing the queue index without wrapping.
ScheduleNoWrap ==
    /\ running' = running + 1
    /\ UNCHANGED <<flag, pc, regc, irq8, woken, mask, pic, idx>>

\* pit_interrupt with every task enabled: the next task in queue order.
Schedule ==
    /\ running' = (running + 1) % N
    /\ UNCHANGED <<flag, pc, regc, irq8, woken, mask, pic, idx>>

\* A plausible slip: rtc_read entering its loop without taking the flag.
RtcReadNoSet(t) ==
    /\ running = t /\ pc[t] = "user"
    /\ pc' = [pc EXCEPT ![t] = "spin"]
    /\ woken' = [woken EXCEPT ![t] = FALSE]
    /\ UNCHANGED <<flag, regc, irq8, running, mask, pic, idx>>

\* The running task calls read on its RTC descriptor: rtc_read sets the
\* flag and enters the loop.
RtcRead(t) ==
    /\ running = t /\ pc[t] = "user"
    /\ flag' = 1
    /\ pc' = [pc EXCEPT ![t] = "spin"]
    /\ woken' = [woken EXCEPT ![t] = FALSE]
    /\ UNCHANGED <<regc, irq8, running, mask, pic, idx>>

\* An iteration of while(rtc_interrupt_flag) that finds it clear: rtc_read
\* returns 0.  An iteration that finds it set changes nothing.
RtcReadReturn(t) ==
    /\ running = t /\ pc[t] = "spin"
    /\ flag = 0
    /\ pc' = [pc EXCEPT ![t] = "user"]
    /\ UNCHANGED <<flag, regc, irq8, running, woken, mask, pic, idx>>

(***************************************************************************)
(* rtc_open (rtc.c:79-88): get_free_fd and the descriptor (FileSys), then *)
(* rtc_set_frequency(2), whose switch picks TWO, with interrupts on.       *)
(***************************************************************************)
RtcOpen(t) ==
    /\ Step(t, "user", "dis")
    /\ UNCHANGED <<flag, regc, irq8, running, woken, mask, pic, idx>>

\* disable_irq(RTC_IRQ_NUMBER): slave_mask |= bit (the load, or and store
\* set the one modelled bit whatever was loaded), then outb(slave_mask),
\* which reads the global again.
DisableIrq(t) ==
    /\ Step(t, "dis", "disOut")
    /\ mask' = TRUE
    /\ UNCHANGED <<flag, regc, irq8, running, woken, pic, idx>>

DisableOutb(t) ==
    /\ Step(t, "disOut", "selA")
    /\ pic' = mask
    /\ UNCHANGED <<flag, regc, irq8, running, woken, mask, idx>>

\* outb(RTC_NMI_DISABLED_REG_A, RTC_REG_PORT), before the read and again
\* before the write.
SelectA(t, from, to) ==
    /\ Step(t, from, to)
    /\ idx' = "A"
    /\ UNCHANGED <<flag, regc, irq8, running, woken, mask, pic>>

\* prev_data = inb(RTC_DATA_PORT) reads whichever register is selected;
\* reading register C acknowledges the RTC, which may then interrupt again.
ReadRegister(t) ==
    /\ Step(t, "inA", "selA2")
    /\ regc' = (regc \/ idx = "C")
    /\ UNCHANGED <<flag, irq8, running, woken, mask, pic, idx>>

\* outb(new rate, RTC_DATA_PORT) goes to the selected register; the rate
\* is abstracted, so only the step is kept.
WriteRate(t) ==
    /\ Step(t, "outA", "en")
    /\ UNCHANGED <<flag, regc, irq8, running, woken, mask, pic, idx>>

\* enable_irq(RTC_IRQ_NUMBER): slave_mask &= ~bit, then outb(slave_mask).
EnableIrq(t) ==
    /\ Step(t, "en", "enOut")
    /\ mask' = FALSE
    /\ UNCHANGED <<flag, regc, irq8, running, woken, pic, idx>>

\* A plausible slip: enable_irq writing the other PIC's data port, so the
\* slave's mask register keeps IRQ8 masked.
EnableOutbWrongPic(t) ==
    /\ Step(t, "enOut", "user")
    /\ UNCHANGED <<flag, regc, irq8, running, woken, mask, pic, idx>>

EnableOutb(t) ==
    /\ Step(t, "enOut", "user")
    /\ pic' = mask
    /\ UNCHANGED <<flag, regc, irq8, running, woken, mask, idx>>

\* rtc_write with nbytes = 4 and a frequency rtc_set_frequency changes:
\* the whole of rtc_set_frequency between cli and sti, so IRQ8 is masked
\* and unmasked again and register A is left selected.  A bad argument,
\* a bad frequency or 2048..8192 returns before touching any of it.
RtcWrite(t) ==
    /\ running = t /\ pc[t] = "user"
    /\ mask' = FALSE /\ pic' = FALSE
    /\ idx' = "A"
    /\ UNCHANGED <<flag, pc, regc, irq8, running, woken>>

SetFreqStep(t) ==
    \/ DisableIrq(t) \/ DisableOutb(t)
    \/ SelectA(t, "selA", "inA") \/ ReadRegister(t)
    \/ SelectA(t, "selA2", "outA") \/ WriteRate(t)
    \/ EnableIrq(t) \/ EnableOutb(t)

Next ==
    \/ RtcFire
    \/ RtcInterrupt
    \/ Schedule
    \/ \E t \in Tasks : RtcRead(t) \/ RtcReadReturn(t)
    \/ \E t \in Tasks : RtcOpen(t) \/ SetFreqStep(t) \/ RtcWrite(t)

(***************************************************************************)
(* The RTC and the PIT are periodic and their IRQs are taken while a task *)
(* runs (interrupts on), so RtcFire, RtcInterrupt and Schedule are weakly *)
(* fair.  A task that holds the CPU with the flag clear runs at least one *)
(* loop iteration in its quantum: RtcReadReturn is strongly fair, since   *)
(* scheduling disables and re-enables it; so are the steps of a started   *)
(* rtc_set_frequency.  User programs need not read, open or write.        *)
(***************************************************************************)
Fairness ==
    /\ WF_vars(RtcFire)
    /\ WF_vars(RtcInterrupt)
    /\ WF_vars(Schedule)
    /\ \A t \in Tasks : SF_vars(RtcReadReturn(t))
    /\ \A t \in Tasks : SF_vars(SetFreqStep(t))

Spec == Init /\ [][Next]_vars /\ Fairness
-----------------------------------------------------------------------------
TypeOK ==
    /\ flag \in {0, 1}
    /\ pc \in [Tasks -> {"user", "spin"} \cup SetFreqPcs]
    /\ regc \in BOOLEAN /\ irq8 \in BOOLEAN
    /\ running \in Tasks
    /\ woken \in [Tasks -> BOOLEAN]
    /\ mask \in BOOLEAN /\ pic \in BOOLEAN
    /\ idx \in {"A", "B", "C"}

\* rtc_read blocks until an interrupt: no read returns unless an RTC
\* interrupt came after it entered rtc_read, whatever the other readers
\* did to the shared flag in between.
ReadWaitsForInterrupt ==
    [][\A t \in Tasks : pc[t] = "spin" /\ pc'[t] = "user" => woken[t]]_vars

\* When every task is blocked in rtc_read, one of them eventually returns:
\* the ISR's register C read keeps the interrupts coming, and nothing but
\* rtc_read sets the flag.
ReadersProgress ==
    (\A t \in Tasks : pc[t] = "spin") ~> (\E t \in Tasks : pc[t] = "user")

\* IRQ8 is unmasked, in slave_mask and at the PIC, whenever no task is
\* inside rtc_set_frequency, however rtc_open's unprotected disable_irq
\* and enable_irq interleave with each other and with rtc_write: the
\* outb of one task's enable_irq may publish another's fresh mask.
IrqUnmaskedWhenIdle ==
    (\A t \in Tasks : pc[t] \notin SetFreqPcs) => ~mask /\ ~pic

\* rtc_set_frequency writes the new rate into register A (rtc.c:217-218,
\* and spec 5: the PIC masks and the RTC are set with interrupts off).
\* Not so from rtc_open: another task's rtc_write unmasks IRQ8, and
\* rtc_interrupt's select of register C comes between the two outb.
RateWriteLands ==
    [][\A t \in Tasks : pc[t] = "outA" /\ pc'[t] = "en" => idx = "A"]_vars

\* Every rtc_read returns (rtc.c: "It should block until next interrupt,
\* and return 0"), under the round robin of pit_interrupt.
EveryReadReturns ==
    \A t \in Tasks : pc[t] = "spin" ~> pc[t] = "user"
=============================================================================
