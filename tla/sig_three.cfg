\* Three interrupts and nothing else.
SPECIFICATION FairSpec
CONSTANTS
    MaxSends <- ThreeInterrupts
PROPERTIES
    ThreeInterruptsExit
CHECK_DEADLOCK FALSE
