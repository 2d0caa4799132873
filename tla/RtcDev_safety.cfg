\* Three tasks sharing the RTC, opening it, writing its rate and reading
\* it: a read waits for an interrupt, readers all blocked at once are
\* released, and IRQ8 is unmasked whenever no rtc_set_frequency is running.
CONSTANT N = 3
SPECIFICATION Spec
INVARIANTS TypeOK IrqUnmaskedWhenIdle
PROPERTIES ReadWaitsForInterrupt ReadersProgress
