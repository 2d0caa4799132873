\* Two tasks: one in rtc_open's rtc_set_frequency, one calling rtc_write;
\* whether the rate write still reaches register A.
CONSTANT N = 2
SPECIFICATION Spec
PROPERTY RateWriteLands
