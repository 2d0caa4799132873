\* Two readers: whether each read returns.
CONSTANT N = 2
SPECIFICATION Spec
PROPERTY EveryReadReturns
