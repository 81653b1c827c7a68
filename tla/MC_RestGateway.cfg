\* Start returns once the process ends itself; the goroutine that lost the
\* select stays blocked on its send, so terminal states are expected.
CONSTANT EarlyRunFailure = FALSE

SPECIFICATION Spec

INVARIANTS
    ListenAfterInit

PROPERTY
    StartReturns
    LifecycleSpec

CHECK_DEADLOCK FALSE
