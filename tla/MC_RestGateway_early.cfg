\* Start returns once the process ends itself; the goroutine that lost the
\* select stays blocked on its send, so terminal states are expected.
CONSTANT EarlyRunFailure = TRUE

SPECIFICATION Spec


PROPERTY
    StartReturns

CHECK_DEADLOCK FALSE
