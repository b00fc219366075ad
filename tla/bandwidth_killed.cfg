\* A client that is to send for as long as the server receives.  The ends of the
\* programs are their returns, so nothing is said about deadlock.
SPECIFICATION Spec
CONSTANTS
    Limit = 2
    Durations = {2}
    Buffer = 2
    Cap = 3
INVARIANTS
    ClientMeasures
CHECK_DEADLOCK FALSE
