--------------------------- MODULE SignalHandling ---------------------------
(***************************************************************************)
(* signal_handling.c: a main loop that sleeps and prints until a handler   *)
(* sets should_exit, and three handlers that the kernel runs on top of it, *)
(* or on top of one another, between any two steps.                        *)
(*                                                                         *)
(* A standard signal is pending or not: it does not queue.  Each handler   *)
(* is installed with an empty sa_mask and without SA_NODEFER, so that only *)
(* its own signal is blocked while it runs.                                *)
(***************************************************************************)
EXTENDS Integers, Sequences, SequencesExt

CONSTANTS
    MaxSends    \* bound: how often each signal is sent

ASSUME MaxSendsAssumption ==
    MaxSends \in [{"SIGINT", "SIGUSR1", "SIGTERM"} -> Nat]

VARIABLES
    status,         \* of the process
    frames,         \* call stack, main at the bottom
    installed,      \* signals with a handler
    pending,        \* signals sent and not delivered
    sent,           \* sent[s]: how often s was sent
    delivered,      \* delivered[s]: how often a handler was run for s
    signal_count,
    should_exit,
    late            \* "Working..." lines since should_exit, up to 2

signals == <<installed, pending, sent, delivered>>
data == <<signal_count, should_exit, late>>
vars == <<status, frames, signals, data>>

Signals == {"SIGINT", "SIGUSR1", "SIGTERM"}

\* A frame at "printf..." is inside the call.  tmp is the value a frame of
\* sigint_handler() has read to increment.
Frame == [fn  : Signals \cup {"main"},
          at  : {"sigaction", "printf_banner", "test", "sleep", "printf_work",
                 "printf_bye", "load", "store", "printf_count", "compare",
                 "printf_exit", "printf", "set", "return"},
          tmp : Nat]

TypeOK ==
    /\ status \in {"running", "exited", "killed"}
    /\ frames \in Seq(Frame)
    /\ installed \in SUBSET Signals
    /\ pending \in SUBSET Signals
    /\ sent \in [Signals -> Nat]
    /\ delivered \in [Signals -> Nat]
    /\ signal_count \in Nat
    /\ should_exit \in BOOLEAN
    /\ late \in 0..2

Init ==
    /\ status = "running"
    /\ frames = <<[fn |-> "main", at |-> "sigaction", tmp |-> 0]>>
    /\ installed = {}
    /\ pending = {}
    /\ sent = [s \in Signals |-> 0]
    /\ delivered = [s \in Signals |-> 0]
    /\ signal_count = 0
    /\ should_exit = FALSE
    /\ late = 0

\* The function on top of the stack goes from one place to another.
Step(fn, from, to) ==
    /\ status = "running"
    /\ Last(frames).fn = fn
    /\ Last(frames).at = from
    /\ frames' = [frames EXCEPT ![Len(frames)].at = to]
    /\ UNCHANGED status

-----------------------------------------------------------------------------
(* The kernel and whoever sends signals.                                   *)

SendSignal(s) ==
    /\ status = "running"
    /\ sent[s] < MaxSends[s]
    /\ sent' = [sent EXCEPT ![s] = @ + 1]
    /\ pending' = pending \cup {s}
    /\ UNCHANGED <<status, frames, installed, delivered, data>>

Blocked == {frames[k].fn : k \in 2..Len(frames)}

Push(s) ==
    /\ frames' = Append(frames, [fn |-> s, tmp |-> 0,
                                 at |-> IF s = "SIGINT" THEN "load" ELSE "printf"])
    /\ pending' = pending \ {s}
    /\ delivered' = [delivered EXCEPT ![s] = @ + 1]
    /\ UNCHANGED <<status, installed, sent, data>>

\* Seeded fault: the handlers are installed with SA_NODEFER.
RunHandlerNoDefer(s) ==
    status = "running" /\ s \in pending \cap installed /\ Push(s)

\* The handler runs on top of whatever is running.
RunHandler(s) ==
    status = "running" /\ s \in (pending \cap installed) \ Blocked /\ Push(s)

\* Without a handler each of the three signals ends the process.
DefaultAction(s) ==
    /\ status = "running"
    /\ s \in pending \ installed
    /\ status' = "killed"
    /\ UNCHANGED <<frames, signals, data>>

HandlerReturns ==
    /\ status = "running"
    /\ Last(frames).at = "return"
    /\ frames' = Front(frames)
    /\ UNCHANGED <<status, signals, data>>

-----------------------------------------------------------------------------
(* main()                                                                  *)

\* The signals in the order of their sigaction() calls.
Registration == <<"SIGINT", "SIGUSR1", "SIGTERM">>

Register ==
    /\ \E k \in 1..3 :
          /\ installed = {Registration[j] : j \in 1..(k - 1)}
          /\ installed' = installed \cup {Registration[k]}
          /\ Step("main", "sigaction", IF k = 3 THEN "printf_banner" ELSE "sigaction")
    /\ UNCHANGED <<pending, sent, delivered, data>>

Banner == Step("main", "printf_banner", "test") /\ UNCHANGED <<signals, data>>

\* Seeded fault: should_exit is not volatile and the loop keeps a copy.
LoopTestHoisted == Step("main", "test", "sleep") /\ UNCHANGED <<signals, data>>

LoopTest ==
    /\ Step("main", "test", IF should_exit THEN "printf_bye" ELSE "sleep")
    /\ UNCHANGED <<signals, data>>

\* The second is over, or a handler ran and cut the sleep short.
Sleep == Step("main", "sleep", "printf_work") /\ UNCHANGED <<signals, data>>

Working ==
    /\ Step("main", "printf_work", "test")
    /\ late' = IF should_exit /\ late < 2 THEN late + 1 ELSE late
    /\ UNCHANGED <<signals, signal_count, should_exit>>

Return ==
    /\ status = "running"
    /\ Last(frames).at = "printf_bye"
    /\ status' = "exited"
    /\ UNCHANGED <<frames, signals, data>>

-----------------------------------------------------------------------------
(* sigint_handler(): signal_count++ is a read and a write.                 *)

CountLoad ==
    /\ status = "running"
    /\ Last(frames).at = "load"
    /\ frames' = [frames EXCEPT ![Len(frames)] =
                     [@ EXCEPT !.tmp = signal_count, !.at = "store"]]
    /\ UNCHANGED <<status, signals, data>>

CountStore ==
    /\ Step("SIGINT", "store", "printf_count")
    /\ signal_count' = Last(frames).tmp + 1
    /\ UNCHANGED <<signals, should_exit, late>>

PrintCount ==
    Step("SIGINT", "printf_count", "compare") /\ UNCHANGED <<signals, data>>

\* Seeded fault: one interrupt too many is asked for.
CompareLate ==
    /\ Step("SIGINT", "compare", IF signal_count > 3 THEN "printf_exit" ELSE "return")
    /\ UNCHANGED <<signals, data>>

Compare ==
    /\ Step("SIGINT", "compare", IF signal_count >= 3 THEN "printf_exit" ELSE "return")
    /\ UNCHANGED <<signals, data>>

PrintExit == Step("SIGINT", "printf_exit", "set") /\ UNCHANGED <<signals, data>>

(* sigusr1_handler() and sigterm_handler()                                 *)

PrintReceived(s) ==
    /\ Step(s, "printf", IF s = "SIGTERM" THEN "set" ELSE "return")
    /\ UNCHANGED <<signals, data>>

SetShouldExit(s) ==
    /\ Step(s, "set", "return")
    /\ should_exit' = TRUE
    /\ UNCHANGED <<signals, signal_count, late>>

-----------------------------------------------------------------------------
MainStep == Register \/ Banner \/ LoopTest \/ Sleep \/ Working \/ Return

HandlerStep ==
    \/ CountLoad
    \/ CountStore
    \/ PrintCount
    \/ Compare
    \/ PrintExit
    \/ \E s \in {"SIGUSR1", "SIGTERM"} : PrintReceived(s)
    \/ \E s \in {"SIGINT", "SIGTERM"} : SetShouldExit(s)
    \/ HandlerReturns

Deliver == \E s \in Signals : RunHandler(s) \/ DefaultAction(s)

Next == MainStep \/ HandlerStep \/ Deliver \/ \E s \in Signals : SendSignal(s)

Spec == Init /\ [][Next]_vars

\* The process is scheduled and the kernel delivers what is pending.
FairSpec ==
    Spec /\ WF_vars(MainStep) /\ WF_vars(HandlerStep) /\ WF_vars(Deliver)

-----------------------------------------------------------------------------
(* Properties.                                                             *)

Counting == {k \in 1..Len(frames) :
               frames[k].fn = "SIGINT" /\ frames[k].at \in {"load", "store"}}

\* Every run of sigint_handler() counts once, though signal_count++ is not
\* atomic and other handlers run in its middle (line 13).
CountIsExact ==
    signal_count = delivered["SIGINT"] - Cardinality(Counting)

\* A request that falls between the test of should_exit and sleep() is not
\* seen by this round, but the next one is the last (lines 57-61).
AtMostOneLateRound == late <= 1

\* Three interrupts that were delivered, or one SIGTERM, end the program; no
\* later signal, handler or sleep puts it off for ever (lines 12-30, 57-64).
RequestHonoured ==
    (delivered["SIGINT"] >= 3 \/ delivered["SIGTERM"] >= 1)
        ~> status # "running"

\* "Or press Ctrl+C three times" (line 53, README.md:117): interrupts ask for
\* the exit as often as they are sent.
ThreeInterruptsExit == sent["SIGINT"] >= 3 ~> status # "running"

=============================================================================
