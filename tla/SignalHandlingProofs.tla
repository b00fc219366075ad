------------------------- MODULE SignalHandlingProofs -------------------------
(***************************************************************************)
(* signal_handling.c, proved for any number of signals that come at any    *)
(* moment, also inside a handler: signal_count is exact, the program does  *)
(* no more than one round after the request to exit, and it exits only     *)
(* when it was asked to.                                                   *)
(***************************************************************************)
EXTENDS SignalHandling, FiniteSetTheorems, TLAPS

\* Where each function can be.
Places(fn) ==
    CASE fn = "main" -> {"sigaction", "printf_banner", "test", "sleep",
                         "printf_work", "printf_bye"}
      [] fn = "SIGINT" -> {"load", "store", "printf_count", "compare",
                           "printf_exit", "set", "return"}
      [] fn = "SIGUSR1" -> {"printf", "return"}
      [] fn = "SIGTERM" -> {"printf", "set", "return"}

\* main() is at the bottom of the stack, and on top of it is at most one run of
\* each handler, because the kernel blocks its signal meanwhile.
Stack ==
    /\ Len(frames) >= 1
    /\ frames[1].fn = "main"
    /\ \A k \in 1..Len(frames) : frames[k].at \in Places(frames[k].fn)
    /\ \A j, k \in 1..Len(frames) : frames[j].fn = frames[k].fn => j = k

\* A run of sigint_handler() that has not stored the new count yet.
Incrementing(k) == frames[k].fn = "SIGINT" /\ frames[k].at \in {"load", "store"}

\* Every other run has counted, and what this one read is still the count.
Count ==
    /\ signal_count = delivered["SIGINT"]
                      - (IF \E k \in 1..Len(frames) : Incrementing(k) THEN 1 ELSE 0)
    /\ \A k \in 1..Len(frames) : frames[k].at = "store" => frames[k].tmp = signal_count

\* A late round has brought main() back to its test of should_exit.
Round ==
    /\ late <= 1
    /\ late = 1 => should_exit /\ frames[1].at \in {"test", "printf_bye"}

\* Three interrupts or a SIGTERM asked for the exit.
Asked == delivered["SIGINT"] >= 3 \/ delivered["SIGTERM"] >= 1

\* Whoever is about to set should_exit was asked to, and main() says goodbye
\* only after should_exit was set.
Requests ==
    /\ \A k \in 1..Len(frames) :
          /\ frames[k].at \in {"printf_exit", "set"} => Asked
          /\ frames[k].fn = "SIGTERM" => Asked
    /\ should_exit => Asked
    /\ frames[1].at = "printf_bye" => should_exit
    /\ status = "exited" => should_exit

SignalInv == TypeOK /\ Stack /\ Count /\ Round /\ Requests

\* Nothing but three interrupts or a SIGTERM makes the program exit by itself.
ExitIsRequested == should_exit \/ status = "exited" => Asked

-----------------------------------------------------------------------------
(* The stack.                                                              *)

LEMMA PlacesValues ==
  /\ Places("main") = {"sigaction", "printf_banner", "test", "sleep",
                       "printf_work", "printf_bye"}
  /\ Places("SIGINT") = {"load", "store", "printf_count", "compare",
                         "printf_exit", "set", "return"}
  /\ Places("SIGUSR1") = {"printf", "return"}
  /\ Places("SIGTERM") = {"printf", "set", "return"}
BY DEF Places

LEMMA Frames ==
  ASSUME SignalInv
  PROVE  /\ frames \in Seq(Frame) /\ Len(frames) \in Nat /\ Len(frames) >= 1
         /\ \A k \in 1..Len(frames) : /\ frames[k] \in Frame
                                      /\ frames[k].fn \in Signals \cup {"main"}
                                      /\ frames[k].tmp \in Nat
         /\ Last(frames) = frames[Len(frames)]
         /\ TypeOK /\ Stack /\ Count /\ Round /\ Requests
<1>1. frames \in Seq(Frame) /\ Len(frames) >= 1
  BY DEF SignalInv, TypeOK, Stack
<1>2. \A k \in 1..Len(frames) : frames[k] \in Frame
  BY <1>1
<1> QED
  BY <1>1, <1>2 DEF SignalInv, Last, Frame

\* The function fn on top of the stack goes on; its frame becomes g.
TopGoes(fn, from, g) ==
    /\ UNCHANGED status
    /\ frames[Len(frames)].fn = fn /\ frames[Len(frames)].at = from
    /\ g.fn = fn
    /\ frames' \in Seq(Frame)
    /\ Len(frames') = Len(frames)
    /\ frames'[Len(frames)] = g
    /\ \A k \in 1..Len(frames) : k # Len(frames) => frames'[k] = frames[k]
    /\ Stack'

LEMMA TopChanges ==
  ASSUME SignalInv, UNCHANGED status, NEW g \in Frame,
         frames' = [frames EXCEPT ![Len(frames)] = g],
         g.fn = Last(frames).fn,
         g.at \in Places(g.fn)
  PROVE  TopGoes(g.fn, Last(frames).at, g)
<1>1. PICK n \in Nat : n = Len(frames) /\ n >= 1
  BY Frames
<1>2. /\ frames' \in Seq(Frame) /\ Len(frames') = n /\ frames'[n] = g
      /\ \A k \in 1..n : k # n => frames'[k] = frames[k]
  BY <1>1, Frames
<1>3. frames[n].fn = g.fn /\ frames[n].at = Last(frames).at
  BY <1>1, Frames
<1>4. \A k \in 1..n : frames'[k].fn = frames[k].fn
  BY <1>1, <1>2, <1>3
<1>5. Stack'
  <2>1. frames'[1].fn = "main" /\ Len(frames') >= 1
    BY <1>1, <1>2, <1>4, Frames DEF Stack
  <2>2. \A k \in 1..n : frames'[k].at \in Places(frames'[k].fn)
    BY <1>1, <1>2, Frames DEF Stack
  <2>3. \A j, k \in 1..n : frames'[j].fn = frames'[k].fn => j = k
    BY <1>1, <1>4, Frames DEF Stack
  <2> QED
    BY <1>1, <1>2, <2>1, <2>2, <2>3 DEF Stack
<1> QED
  BY <1>1, <1>2, <1>3, <1>5 DEF TopGoes

LEMMA StepGoes ==
  ASSUME SignalInv, NEW fn, NEW from, NEW to, Step(fn, from, to), to \in Places(fn)
  PROVE  \E g : g.at = to /\ g.tmp = Last(frames).tmp /\ TopGoes(fn, from, g)
<1> DEFINE g == [Last(frames) EXCEPT !.at = to]
<1>1. /\ Last(frames) \in Frame /\ Last(frames).fn = fn /\ Last(frames).at = from
  BY Frames DEF Step
<1>2. to \in {"sigaction", "printf_banner", "test", "sleep", "printf_work",
              "printf_bye", "load", "store", "printf_count", "compare",
              "printf_exit", "printf", "set", "return"}
  BY <1>1, PlacesValues DEF Frame, Signals
<1>3. g \in Frame /\ g.at = to /\ g.tmp = Last(frames).tmp /\ g.fn = fn
  BY <1>1, <1>2 DEF Frame
<1>4. frames' = [frames EXCEPT ![Len(frames)] = g]
  BY Frames DEF Step
<1> HIDE DEF g
<1>5. TopGoes(fn, from, g)
  BY <1>1, <1>3, <1>4, TopChanges DEF Step
<1> QED
  BY <1>3, <1>5

\* main() runs alone, a handler on top of main().
LEMMA OnTop ==
  ASSUME SignalInv, NEW fn, NEW from, NEW g, TopGoes(fn, from, g)
  PROVE  /\ fn = "main" => Len(frames) = 1 /\ frames'[1] = g /\ frames[1].at = from
         /\ fn # "main" => Len(frames) > 1 /\ frames'[1] = frames[1]
<1>1. 1 \in 1..Len(frames) /\ Len(frames) \in 1..Len(frames)
  BY Frames
<1>2. fn = "main" <=> Len(frames) = 1
  BY <1>1, Frames DEF TopGoes, Stack
<1> QED
  BY <1>1, <1>2, Frames DEF TopGoes

\* A step that does not touch the incrementation.
LEMMA CountKept ==
  ASSUME SignalInv, NEW fn, NEW from, NEW g, TopGoes(fn, from, g),
         from \notin {"load", "store"}, g.at \notin {"load", "store"},
         UNCHANGED <<signal_count, delivered>>
  PROVE  Count'
<1>1. PICK n \in Nat : n = Len(frames) /\ n >= 1
  BY Frames
<1>2. \A k \in 1..n : Incrementing(k)' <=> Incrementing(k)
  BY <1>1 DEF TopGoes, Incrementing
<1>3. \A k \in 1..n : frames'[k].at = "store" => frames'[k] = frames[k]
  BY <1>1 DEF TopGoes
<1>4. Len(frames') = n
  BY <1>1 DEF TopGoes
<1>5. (\E k \in 1..Len(frames') : Incrementing(k)')
         <=> (\E k \in 1..Len(frames) : Incrementing(k))
  BY <1>1, <1>2, <1>4
<1> QED
  BY <1>1, <1>3, <1>4, <1>5, Frames DEF Count

-----------------------------------------------------------------------------
(* main()                                                                  *)

LEMMA MainStepInv ==
  ASSUME SignalInv, MainStep
  PROVE  SignalInv'
<1>0. TypeOK /\ Stack /\ Count /\ Round /\ Requests
  BY Frames
<1>1. ASSUME NEW from, NEW to, Step("main", from, to)
      PROVE  frames[1].at = from /\ from \in Places("main")
  <2>1. /\ Len(frames) \in 1..Len(frames) /\ 1 \in 1..Len(frames)
        /\ frames[Len(frames)].fn = "main" /\ frames[Len(frames)].at = from
    BY <1>1, Frames DEF Step
  <2>2. Len(frames) = 1
    BY <1>0, <2>1 DEF Stack
  <2> QED
    BY <1>0, <2>1, <2>2 DEF Stack
<1>2. ASSUME NEW from, NEW to, Step("main", from, to), to \in Places("main"),
             UNCHANGED <<pending, sent, delivered, signal_count, should_exit>>,
             installed' \subseteq Signals,
             to = "printf_bye" => should_exit,
             late' = late \/ (late' = 1 /\ should_exit /\ to = "test"),
             (late = 1 /\ late' = late) => to \in {"test", "printf_bye"}
      PROVE  SignalInv'
  <2>1. PICK g : g.at = to /\ TopGoes("main", from, g)
    BY <1>2, StepGoes
  <2>2. /\ Len(frames) = 1 /\ Len(frames') = 1 /\ frames'[1] = g
        /\ frames[1].at = from /\ UNCHANGED status /\ frames' \in Seq(Frame)
        /\ Stack' /\ g.fn = "main"
    BY <2>1, OnTop DEF TopGoes
  <2>3. from \notin {"load", "store"} /\ to \notin {"load", "store"}
    BY <1>1, <1>2, PlacesValues
  <2>4. Count'
    BY <1>2, <2>1, <2>3, CountKept
  <2>5. TypeOK'
    BY <1>0, <1>2, <2>2 DEF TypeOK
  <2>6. Round'
    BY <1>0, <1>2, <2>1, <2>2 DEF Round, TypeOK
  <2>7. Requests'
    <3>1. g.at \notin {"printf_exit", "set"}
      BY <1>2, <2>1, PlacesValues
    <3>2. \A k \in 1..Len(frames') : frames'[k] = g
      BY <2>2
    <3> QED
      BY <1>0, <1>2, <2>1, <2>2, <3>1, <3>2 DEF Requests, Asked
  <2> QED
    BY <2>2, <2>4, <2>5, <2>6, <2>7 DEF SignalInv
<1>3. CASE Register
  <2>1. PICK to \in {"printf_banner", "sigaction"} : Step("main", "sigaction", to)
    BY <1>3 DEF Register, Step
  <2>2. installed' \subseteq Signals
    BY <1>0, <1>3 DEF Register, TypeOK, Registration, Signals
  <2>3. late # 1
    BY <1>0, <1>1, <2>1 DEF Round
  <2>4. UNCHANGED <<pending, sent, delivered, signal_count, should_exit>> /\ late' = late
    BY <1>3 DEF Register, data
  <2>5. to \in Places("main") /\ to # "printf_bye"
    BY <2>1, PlacesValues
  <2> QED
    BY <1>2, <2>1, <2>2, <2>3, <2>4, <2>5
<1>4. CASE Banner \/ Sleep
  <2>1. PICK from \in {"printf_banner", "sleep"}, to \in {"test", "printf_work"} :
           Step("main", from, to)
    BY <1>4 DEF Banner, Sleep
  <2>2. late # 1
    BY <1>0, <1>1, <2>1 DEF Round
  <2>3. /\ UNCHANGED <<pending, sent, delivered, signal_count, should_exit>>
        /\ late' = late /\ installed' \subseteq Signals
    BY <1>0, <1>4 DEF Banner, Sleep, signals, data, TypeOK
  <2>4. to \in Places("main") /\ to # "printf_bye"
    BY <2>1, PlacesValues
  <2> QED
    BY <1>2, <2>1, <2>2, <2>3, <2>4
<1>5. CASE LoopTest
  <2>1. PICK to \in {"printf_bye", "sleep"} :
           /\ Step("main", "test", to)
           /\ to = "printf_bye" <=> should_exit
    BY <1>0, <1>5 DEF LoopTest, TypeOK
  <2>2. /\ UNCHANGED <<pending, sent, delivered, signal_count, should_exit>>
        /\ late' = late /\ installed' \subseteq Signals
    BY <1>0, <1>5 DEF LoopTest, signals, data, TypeOK
  <2>3. late = 1 => to = "printf_bye"
    BY <1>0, <2>1 DEF Round
  <2>4. to \in Places("main")
    BY <2>1, PlacesValues
  <2> QED
    BY <1>2, <2>1, <2>2, <2>3, <2>4
<1>6. CASE Working
  <2>1. Step("main", "printf_work", "test")
    BY <1>6 DEF Working
  <2>2. late = 0
    BY <1>0, <1>1, <2>1 DEF Round, TypeOK
  <2>3. /\ UNCHANGED <<pending, sent, delivered, signal_count, should_exit>>
        /\ installed' \subseteq Signals
        /\ late' = late \/ (late' = 1 /\ should_exit)
    BY <1>0, <1>6, <2>2 DEF Working, signals, TypeOK
  <2>4. "test" \in Places("main")
    BY PlacesValues
  <2> QED
    BY <1>2, <2>1, <2>2, <2>3, <2>4
<1>7. CASE Return
  <2>1. /\ UNCHANGED <<frames, signals, data>> /\ status' = "exited"
        /\ frames[Len(frames)].at = "printf_bye"
    BY <1>7, Frames DEF Return
  <2>2. frames[1].at = "printf_bye"
    <3>1. PICK n \in 1..Len(frames) : n = Len(frames)
      BY Frames
    <3>2. frames[n].fn = "main"
      BY <2>1, <3>1, Frames, PlacesValues DEF Stack, Signals
    <3> QED
      BY <2>1, <3>1, <3>2, Frames DEF Stack
  <2>3. TypeOK' /\ Stack' /\ Round'
    BY <1>0, <2>1 DEF signals, data, TypeOK, Stack, Round
  <2>4. Count'
    BY <1>0, <2>1 DEF signals, data, Count, Incrementing
  <2>5. Requests'
    BY <1>0, <2>1, <2>2 DEF signals, data, Requests, Asked
  <2> QED
    BY <2>3, <2>4, <2>5 DEF SignalInv
<1> QED
  BY <1>3, <1>4, <1>5, <1>6, <1>7 DEF MainStep

-----------------------------------------------------------------------------
(* The handlers.                                                           *)

\* What a step of a handler has to keep, if the count is right after it.
LEMMA HandlerGoes ==
  ASSUME SignalInv, NEW fn \in Signals, NEW from, NEW g, TopGoes(fn, from, g),
         UNCHANGED <<signals, late>>, signal_count' \in Nat,
         should_exit' \in BOOLEAN, should_exit => should_exit', should_exit' => Asked,
         g.at \in {"printf_exit", "set"} => Asked,
         Count'
  PROVE  SignalInv'
<1>0. TypeOK /\ Stack /\ Count /\ Round /\ Requests
  BY Frames
<1>1. PICK n \in Nat : n = Len(frames) /\ n > 1
  BY Frames, OnTop DEF Signals
<1>2. /\ frames'[1] = frames[1] /\ UNCHANGED status /\ frames' \in Seq(Frame)
      /\ Stack' /\ Len(frames') = n /\ frames'[n] = g
      /\ frames[n].fn = fn /\ g.fn = fn
      /\ \A k \in 1..n : k # n => frames'[k] = frames[k]
  BY <1>1, OnTop DEF TopGoes, Signals
<1>3. TypeOK'
  BY <1>0, <1>2 DEF TypeOK, signals
<1>4. Round'
  BY <1>0, <1>2 DEF Round
<1>5. Requests'
  <2>1. Asked' <=> Asked
    BY DEF Asked, signals
  <2>2. fn = "SIGTERM" => Asked
    BY <1>0, <1>1, <1>2 DEF Requests
  <2>3. ASSUME NEW k \in 1..n
        PROVE  /\ frames'[k].at \in {"printf_exit", "set"} => Asked
               /\ frames'[k].fn = "SIGTERM" => Asked
    BY <1>0, <1>1, <1>2, <2>2 DEF Requests
  <2> QED
    BY <1>0, <1>2, <2>1, <2>3 DEF Requests
<1> QED
  BY <1>2, <1>3, <1>4, <1>5 DEF SignalInv

\* Three counted interrupts were delivered.
LEMMA CountedWereDelivered ==
  ASSUME SignalInv, signal_count >= 3
  PROVE  Asked
<1>1. delivered["SIGINT"] \in Nat /\ signal_count \in Nat
  BY Frames DEF TypeOK, Signals
<1> QED
  BY <1>1, Frames DEF Count, Asked

LEMMA CountLoadInv ==
  ASSUME SignalInv, CountLoad
  PROVE  SignalInv'
<1>0. TypeOK /\ Stack /\ Count /\ Round /\ Requests
  BY Frames
<1> DEFINE g == [Last(frames) EXCEPT !.tmp = signal_count, !.at = "store"]
<1>1. PICK n \in Nat : n = Len(frames) /\ n >= 1
  BY Frames
<1>2. /\ Last(frames) \in Frame /\ Last(frames) = frames[n]
      /\ Last(frames).at = "load" /\ signal_count \in Nat
  BY <1>0, <1>1, Frames DEF CountLoad, TypeOK
<1>3. Last(frames).fn = "SIGINT"
  BY <1>0, <1>1, <1>2, PlacesValues, Frames DEF Stack, Signals
<1>4. g \in Frame /\ g.fn = "SIGINT" /\ g.at = "store" /\ g.tmp = signal_count
  BY <1>2, <1>3 DEF Frame
<1>5. frames' = [frames EXCEPT ![Len(frames)] = g]
  BY <1>1, <1>2, Frames DEF CountLoad
<1> HIDE DEF g
<1>6. TopGoes("SIGINT", "load", g)
  BY <1>2, <1>3, <1>4, <1>5, TopChanges, PlacesValues DEF CountLoad
<1>7. UNCHANGED <<signals, data>> /\ signal_count' = signal_count
  BY DEF CountLoad, data
<1>8. Count'
  <2>1. \A k \in 1..n : Incrementing(k)' <=> Incrementing(k)
    BY <1>1, <1>4, <1>6 DEF TopGoes, Incrementing
  <2>2. \A k \in 1..n : frames'[k].at = "store" => frames'[k].tmp = signal_count
    BY <1>0, <1>1, <1>4, <1>6 DEF TopGoes, Count
  <2>3. Len(frames') = n
    BY <1>1, <1>6 DEF TopGoes
  <2>4. (\E k \in 1..Len(frames') : Incrementing(k)')
           <=> (\E k \in 1..Len(frames) : Incrementing(k))
    BY <1>1, <2>1, <2>3
  <2> QED
    BY <1>0, <1>7, <2>2, <2>3, <2>4 DEF Count, signals
<1>9. should_exit => Asked
  BY <1>0 DEF Requests
<1> QED
  BY <1>0, <1>4, <1>6, <1>7, <1>8, <1>9, HandlerGoes DEF data, TypeOK, Signals

LEMMA CountStoreInv ==
  ASSUME SignalInv, CountStore
  PROVE  SignalInv'
<1>0. TypeOK /\ Stack /\ Count /\ Round /\ Requests
  BY Frames
<1>1. PICK n \in Nat : n = Len(frames) /\ n >= 1
  BY Frames
<1>2. PICK g : g.at = "printf_count" /\ TopGoes("SIGINT", "store", g)
  BY StepGoes, PlacesValues DEF CountStore
<1>3. /\ Len(frames') = n /\ frames'[n] = g
      /\ frames[n].fn = "SIGINT" /\ frames[n].at = "store"
      /\ \A k \in 1..n : k # n => frames'[k] = frames[k]
  BY <1>1, <1>2 DEF TopGoes
<1>4. /\ signal_count \in Nat /\ frames[n].tmp = signal_count
      /\ signal_count' = signal_count + 1 /\ UNCHANGED <<signals, should_exit, late>>
  BY <1>0, <1>1, <1>3, Frames DEF CountStore, Count, TypeOK
<1>5. \A k \in 1..n : ~ Incrementing(k)' /\ frames'[k].at # "store"
  <2>1. ASSUME NEW k \in 1..n, k # n
        PROVE  frames'[k].fn # "SIGINT" /\ frames'[k].at \in Places(frames'[k].fn)
               /\ frames'[k].fn \in Signals \cup {"main"}
    BY <1>0, <1>1, <1>3, <2>1, Frames DEF Stack
  <2>2. ASSUME NEW k \in 1..n, k # n
        PROVE  frames'[k].at # "store"
    BY <2>1, <2>2, PlacesValues DEF Signals
  <2> QED
    BY <1>2, <1>3, <2>1, <2>2 DEF Incrementing
<1>6. \E k \in 1..Len(frames) : Incrementing(k)
  BY <1>1, <1>3 DEF Incrementing
<1>7. Count'
  <2>1. delivered["SIGINT"] = signal_count + 1
    BY <1>0, <1>4, <1>6 DEF Count, TypeOK, Signals
  <2>2. ~ \E k \in 1..Len(frames') : Incrementing(k)'
    BY <1>3, <1>5
  <2> QED
    BY <1>3, <1>4, <1>5, <2>1, <2>2 DEF Count, signals
<1>8. should_exit => Asked
  BY <1>0 DEF Requests
<1> QED
  BY <1>0, <1>2, <1>4, <1>7, <1>8, HandlerGoes DEF TypeOK, Signals

\* The steps of a handler that only go on, print or set should_exit.
LEMMA HandlerStepInv ==
  ASSUME SignalInv, HandlerStep, ~ HandlerReturns
  PROVE  SignalInv'
<1>0. TypeOK /\ Stack /\ Count /\ Round /\ Requests
  BY Frames
<1>1. ASSUME NEW fn \in Signals, NEW from, NEW to, Step(fn, from, to),
             to \in Places(fn), from \notin {"load", "store"},
             to \notin {"load", "store"},
             to \in {"printf_exit", "set"} => Asked,
             UNCHANGED <<signals, late, signal_count>>,
             should_exit' = should_exit \/ (should_exit' = TRUE /\ Asked)
      PROVE  SignalInv'
  <2>1. PICK g : g.at = to /\ TopGoes(fn, from, g)
    BY <1>1, StepGoes
  <2>2. Count'
    BY <1>1, <2>1, CountKept DEF signals
  <2>3. /\ should_exit' \in BOOLEAN /\ signal_count' \in Nat
        /\ should_exit => should_exit'
        /\ should_exit' => Asked
    <3>1. signal_count' \in Nat
      BY <1>0, <1>1 DEF TypeOK
    <3>2. should_exit \in BOOLEAN /\ (should_exit => Asked)
      BY <1>0 DEF TypeOK, Requests
    <3>3. CASE should_exit' = should_exit
      BY <3>1, <3>2, <3>3
    <3>4. CASE should_exit' = TRUE /\ Asked
      BY <3>1, <3>2, <3>4
    <3> QED
      BY <1>1, <3>3, <3>4
  <2> QED
    BY <1>1, <2>1, <2>2, <2>3, HandlerGoes
<1>2. ASSUME NEW fn, NEW from, NEW to, Step(fn, from, to)
      PROVE  /\ from \in {"printf_exit", "set"} => Asked
             /\ fn = "SIGTERM" => Asked
  <2>1. /\ Len(frames) \in 1..Len(frames)
        /\ frames[Len(frames)].fn = fn /\ frames[Len(frames)].at = from
    BY <1>2, Frames DEF Step
  <2> QED
    BY <1>0, <2>1 DEF Requests
<1>3. CASE CountLoad
  BY <1>3, CountLoadInv
<1>4. CASE CountStore
  BY <1>4, CountStoreInv
<1>5. CASE PrintCount
  <2>1. Step("SIGINT", "printf_count", "compare") /\ "compare" \in Places("SIGINT")
    BY <1>5, PlacesValues DEF PrintCount
  <2>2. UNCHANGED <<signals, late, signal_count>> /\ should_exit' = should_exit
    BY <1>5 DEF PrintCount, data
  <2> QED
    BY <1>1, <2>1, <2>2 DEF Signals
<1>6. CASE Compare
  <2>1. PICK to \in {"printf_exit", "return"} :
           /\ Step("SIGINT", "compare", to)
           /\ to = "printf_exit" => signal_count >= 3
    BY <1>6 DEF Compare
  <2>2. to \in Places("SIGINT") /\ (to = "printf_exit" => Asked)
    BY <2>1, PlacesValues, CountedWereDelivered
  <2>3. UNCHANGED <<signals, late, signal_count>> /\ should_exit' = should_exit
    BY <1>6 DEF Compare, data
  <2> QED
    BY <1>1, <2>1, <2>2, <2>3 DEF Signals
<1>7. CASE PrintExit
  <2>1. Step("SIGINT", "printf_exit", "set") /\ "set" \in Places("SIGINT")
    BY <1>7, PlacesValues DEF PrintExit
  <2>2. UNCHANGED <<signals, late, signal_count>> /\ should_exit' = should_exit
    BY <1>7 DEF PrintExit, data
  <2>3. Asked
    BY <1>2, <2>1
  <2> QED
    BY <1>1, <2>1, <2>2, <2>3 DEF Signals
<1>8. ASSUME NEW s \in {"SIGUSR1", "SIGTERM"}, PrintReceived(s)
      PROVE  SignalInv'
  <2>1. PICK to \in {"set", "return"} :
           Step(s, "printf", to) /\ (to = "set" => s = "SIGTERM")
    BY <1>8 DEF PrintReceived
  <2>2. to \in Places(s)
    BY <1>8, <2>1, PlacesValues
  <2>3. UNCHANGED <<signals, late, signal_count>> /\ should_exit' = should_exit
    BY <1>8 DEF PrintReceived, data
  <2>4. to = "set" => Asked
    BY <1>2, <2>1
  <2> QED
    BY <1>1, <2>1, <2>2, <2>3, <2>4 DEF Signals
<1>9. ASSUME NEW s \in {"SIGINT", "SIGTERM"}, SetShouldExit(s)
      PROVE  SignalInv'
  <2>1. Step(s, "set", "return") /\ "return" \in Places(s)
    BY <1>9, PlacesValues DEF SetShouldExit
  <2>2. UNCHANGED <<signals, late, signal_count>> /\ should_exit' = TRUE
    BY <1>9 DEF SetShouldExit
  <2>3. Asked
    BY <1>2, <2>1
  <2> QED
    BY <1>1, <2>1, <2>2, <2>3 DEF Signals
<1> QED
  BY <1>3, <1>4, <1>5, <1>6, <1>7, <1>8, <1>9 DEF HandlerStep

-----------------------------------------------------------------------------
(* The kernel.                                                             *)

\* A handler is run only while none of its runs is on the stack.
LEMMA RunHandlerInv ==
  ASSUME SignalInv, NEW s \in Signals, RunHandler(s)
  PROVE  SignalInv'
<1>0. TypeOK /\ Stack /\ Count /\ Round /\ Requests
  BY Frames
<1> DEFINE g == [fn |-> s, tmp |-> 0,
                 at |-> IF s = "SIGINT" THEN "load" ELSE "printf"]
<1>1. PICK n \in Nat : n = Len(frames) /\ n >= 1
  BY Frames
<1>2. /\ g \in Frame /\ g.fn = s /\ g.at \in Places(s)
      /\ g.at \notin {"store", "printf_exit", "set"}
      /\ g.at = "load" <=> s = "SIGINT"
  BY PlacesValues DEF Frame, Signals
<1>3. /\ frames' = Append(frames, g)
      /\ UNCHANGED <<status, installed, sent, data>>
      /\ pending' = pending \ {s}
      /\ delivered' = [delivered EXCEPT ![s] = @ + 1]
  BY DEF RunHandler, Push
<1> HIDE DEF g
<1>4. /\ frames' \in Seq(Frame) /\ Len(frames') = n + 1 /\ frames'[n + 1] = g
      /\ \A k \in 1..n : frames'[k] = frames[k]
  BY <1>1, <1>2, <1>3, Frames
<1>5. \A k \in 1..n : frames[k].fn # s
  <2>1. \A k \in 2..n : frames[k].fn # s
    BY <1>1 DEF RunHandler, Blocked
  <2> QED
    BY <1>0, <1>1, <2>1 DEF Stack, Signals
<1>6. /\ delivered' \in [Signals -> Nat] /\ delivered'[s] = delivered[s] + 1
      /\ \A t \in Signals : t # s => delivered'[t] = delivered[t]
      /\ \A t \in Signals : delivered[t] \in Nat
  BY <1>0, <1>3 DEF TypeOK
<1>7. Stack'
  <2>1. \A k \in 1..(n + 1) : k \in 1..n \/ k = n + 1
    BY <1>1
  <2>2. frames'[1].fn = "main"
    BY <1>0, <1>1, <1>4 DEF Stack
  <2>3. \A k \in 1..(n + 1) : frames'[k].at \in Places(frames'[k].fn)
    BY <1>0, <1>1, <1>2, <1>4, <2>1 DEF Stack
  <2>4. \A j, k \in 1..(n + 1) : frames'[j].fn = frames'[k].fn => j = k
    BY <1>0, <1>1, <1>2, <1>4, <1>5, <2>1 DEF Stack
  <2> QED
    BY <1>1, <1>4, <2>2, <2>3, <2>4 DEF Stack
<1>8. TypeOK'
  BY <1>0, <1>3, <1>4, <1>6 DEF TypeOK, data
<1>9. Count'
  <2>1. \A k \in 1..n : Incrementing(k)' <=> Incrementing(k)
    BY <1>4 DEF Incrementing
  <2>2. \A k \in 1..Len(frames') : frames'[k].at = "store" => frames'[k].tmp = signal_count
    BY <1>0, <1>1, <1>2, <1>4 DEF Count
  <2>3. CASE s = "SIGINT"
    <3>1. ~ \E k \in 1..Len(frames) : Incrementing(k)
      BY <1>1, <1>5, <2>3 DEF Incrementing
    <3>2. \E k \in 1..Len(frames') : Incrementing(k)'
      BY <1>1, <1>2, <1>4, <2>3 DEF Incrementing
    <3>3. signal_count = delivered["SIGINT"]
      BY <1>0, <1>6, <3>1 DEF Count, Signals
    <3>4. signal_count' = delivered'["SIGINT"] - 1
      BY <1>3, <1>6, <2>3, <3>3 DEF data, Signals
    <3> QED
      BY <1>3, <2>2, <3>2, <3>4 DEF Count, data
  <2>4. CASE s # "SIGINT"
    <3>1. ~ Incrementing(n + 1)'
      BY <1>2, <1>4, <2>4 DEF Incrementing
    <3>2. (\E k \in 1..Len(frames') : Incrementing(k)')
             <=> (\E k \in 1..Len(frames) : Incrementing(k))
      BY <1>1, <1>4, <2>1, <3>1
    <3>3. delivered'["SIGINT"] = delivered["SIGINT"]
      BY <1>6, <2>4 DEF Signals
    <3> QED
      BY <1>0, <1>3, <2>2, <3>2, <3>3 DEF Count, data
  <2> QED
    BY <2>3, <2>4
<1>10. Round'
  BY <1>0, <1>1, <1>3, <1>4 DEF Round, data
<1>11. Requests'
  <2>1. (Asked => Asked') /\ (s = "SIGTERM" => Asked')
    BY <1>6 DEF Asked, Signals
  <2>2. ASSUME NEW k \in 1..(n + 1)
        PROVE  /\ frames'[k].at \in {"printf_exit", "set"} => Asked'
               /\ frames'[k].fn = "SIGTERM" => Asked'
    BY <1>0, <1>1, <1>2, <1>4, <2>1 DEF Requests
  <2> QED
    BY <1>0, <1>1, <1>3, <1>4, <2>1, <2>2 DEF Requests, data
<1> QED
  BY <1>7, <1>8, <1>9, <1>10, <1>11 DEF SignalInv

LEMMA HandlerReturnsInv ==
  ASSUME SignalInv, HandlerReturns
  PROVE  SignalInv'
<1>0. TypeOK /\ Stack /\ Count /\ Round /\ Requests
  BY Frames
<1>1. PICK n \in Nat : n = Len(frames) /\ n >= 1
  BY Frames
<1>2. /\ frames[n].at = "return" /\ UNCHANGED <<status, signals, data>>
      /\ frames' = SubSeq(frames, 1, n - 1)
  BY <1>1, Frames DEF HandlerReturns, Front
<1>3. n > 1
  BY <1>0, <1>1, <1>2, PlacesValues DEF Stack
<1>4. /\ frames' \in Seq(Frame) /\ Len(frames') = n - 1
      /\ \A k \in 1..(n - 1) : frames'[k] = frames[k]
  <2>1. frames \in Seq(Frame) /\ Len(frames) = n
    BY <1>1, Frames
  <2>2. Len(frames') = n - 1
    BY <1>1, <1>2, <1>3, <2>1
  <2>3. frames' \in Seq(Frame)
    BY <1>1, <1>2, <1>3, <2>1
  <2>4. \A k \in 1..(n - 1) : frames'[k] = frames[k]
    BY <1>1, <1>2, <1>3, <2>1
  <2> QED
    BY <2>2, <2>3, <2>4
<1>5. Stack'
  <2>1. Len(frames') >= 1 /\ frames'[1].fn = "main"
    BY <1>0, <1>1, <1>3, <1>4 DEF Stack
  <2>2. \A k \in 1..(n - 1) : k \in 1..Len(frames) /\ frames'[k] = frames[k]
    BY <1>1, <1>3, <1>4
  <2>3. \A k \in 1..Len(frames') : frames'[k].at \in Places(frames'[k].fn)
    BY <1>0, <1>4, <2>2 DEF Stack
  <2>4. \A j, k \in 1..Len(frames') : frames'[j].fn = frames'[k].fn => j = k
    BY <1>0, <1>4, <2>2 DEF Stack
  <2> QED
    BY <2>1, <2>3, <2>4 DEF Stack
<1>6. TypeOK' /\ Round'
  BY <1>0, <1>2, <1>3, <1>4 DEF TypeOK, Round, signals, data
<1>7. Count'
  <2>1. \A k \in 1..(n - 1) : Incrementing(k)' <=> Incrementing(k)
    BY <1>4 DEF Incrementing
  <2>2. ~ Incrementing(n)
    BY <1>2 DEF Incrementing
  <2>3. (\E k \in 1..Len(frames') : Incrementing(k)')
           <=> (\E k \in 1..Len(frames) : Incrementing(k))
    BY <1>1, <1>4, <2>1, <2>2
  <2> QED
    BY <1>0, <1>1, <1>2, <1>4, <2>3 DEF Count, signals, data
<1>8. Requests'
  BY <1>0, <1>1, <1>2, <1>3, <1>4 DEF Requests, Asked, signals, data
<1> QED
  BY <1>5, <1>6, <1>7, <1>8 DEF SignalInv

\* Sending a signal and its default action leave the stack alone.
LEMMA StackUntouched ==
  ASSUME SignalInv, UNCHANGED <<frames, installed, delivered, data>>,
         pending' \subseteq Signals, sent' \in [Signals -> Nat],
         status' = status \/ status' = "killed"
  PROVE  SignalInv'
<1>0. TypeOK /\ Stack /\ Count /\ Round /\ Requests
  BY Frames
<1>1. TypeOK' /\ Stack' /\ Round'
  BY <1>0 DEF TypeOK, Stack, Round, data
<1>2. Count'
  BY <1>0 DEF Count, Incrementing, data
<1>3. Requests'
  BY <1>0 DEF Requests, Asked, data
<1> QED
  BY <1>1, <1>2, <1>3 DEF SignalInv

-----------------------------------------------------------------------------
(* The theorems.                                                           *)

LEMMA InitInv == Init => SignalInv
<1> SUFFICES ASSUME Init PROVE SignalInv
  OBVIOUS
<1> DEFINE g == [fn |-> "main", at |-> "sigaction", tmp |-> 0]
<1>1. g \in Frame /\ g.fn = "main" /\ g.at = "sigaction"
  BY DEF Frame, Signals
<1>2. frames = <<g>>
  BY DEF Init
<1> HIDE DEF g
<1>3. /\ frames \in Seq(Frame) /\ Len(frames) = 1 /\ frames[1] = g
      /\ \A k \in 1..Len(frames) : k = 1
  BY <1>1, <1>2
<1>4. TypeOK /\ Stack /\ Round
  <2>1. /\ status = "running" /\ installed = {} /\ pending = {}
        /\ sent \in [Signals -> Nat] /\ delivered \in [Signals -> Nat]
        /\ signal_count = 0 /\ should_exit = FALSE /\ late = 0
    BY DEF Init
  <2>2. Stack
    BY <1>1, <1>3, PlacesValues DEF Stack
  <2>3. Round
    BY <2>1 DEF Round
  <2>4. TypeOK
    <3>1. installed \in SUBSET Signals /\ pending \in SUBSET Signals
      BY <2>1
    <3>2. should_exit \in BOOLEAN
      BY <2>1
    <3>3. signal_count \in Nat /\ late \in 0..2
      BY <2>1
    <3> QED
      BY <1>3, <2>1, <3>1, <3>2, <3>3 DEF TypeOK
  <2> QED
    BY <2>2, <2>3, <2>4
<1>5. Count
  BY <1>1, <1>3 DEF Init, Count, Incrementing, Signals
<1>6. Requests
  BY <1>1, <1>3 DEF Init, Requests
<1> QED
  BY <1>4, <1>5, <1>6 DEF SignalInv

LEMMA NextInv == SignalInv /\ [Next]_vars => SignalInv'
<1> SUFFICES ASSUME SignalInv, [Next]_vars PROVE SignalInv'
  OBVIOUS
<1>0. TypeOK
  BY Frames
<1>1. CASE MainStep
  BY <1>1, MainStepInv
<1>2. CASE HandlerStep
  BY <1>2, HandlerStepInv, HandlerReturnsInv
<1>3. ASSUME NEW s \in Signals, RunHandler(s)
      PROVE  SignalInv'
  BY <1>3, RunHandlerInv
<1>4. ASSUME NEW s \in Signals, DefaultAction(s)
      PROVE  SignalInv'
  <2>1. /\ UNCHANGED <<frames, installed, delivered, data>>
        /\ pending' \subseteq Signals /\ sent' \in [Signals -> Nat]
        /\ status' = "killed"
    BY <1>0, <1>4 DEF DefaultAction, signals, TypeOK
  <2> QED
    BY <2>1, StackUntouched
<1>5. ASSUME NEW s \in Signals, SendSignal(s)
      PROVE  SignalInv'
  <2>1. /\ UNCHANGED <<frames, installed, delivered, data>>
        /\ pending' \subseteq Signals /\ sent' \in [Signals -> Nat]
        /\ status' = status
    BY <1>0, <1>5 DEF SendSignal, TypeOK
  <2> QED
    BY <2>1, StackUntouched
<1>6. CASE UNCHANGED vars
  <2>1. /\ UNCHANGED <<frames, installed, delivered, data>>
        /\ pending' \subseteq Signals /\ sent' \in [Signals -> Nat]
        /\ status' = status
    BY <1>0, <1>6 DEF vars, signals, TypeOK
  <2> QED
    BY <2>1, StackUntouched
<1> QED
  BY <1>1, <1>2, <1>3, <1>4, <1>5, <1>6 DEF Next, Deliver

\* Signals in any number and at any moment leave every variable in its type and
\* the kernel's stack well formed.
THEOREM TypeCorrect == Spec => []TypeOK
<1>1. SignalInv => TypeOK
  BY DEF SignalInv
<1> QED
  BY InitInv, NextInv, <1>1, PTL DEF Spec

\* The runs of sigint_handler() that have not counted are none or one.
LEMMA CountingCardinality ==
  ASSUME SignalInv
  PROVE  Cardinality(Counting)
           = IF \E k \in 1..Len(frames) : Incrementing(k) THEN 1 ELSE 0
<1>1. Counting = {k \in 1..Len(frames) : Incrementing(k)}
  BY DEF Counting, Incrementing
<1>2. CASE \E k \in 1..Len(frames) : Incrementing(k)
  <2>1. PICK k \in 1..Len(frames) : Incrementing(k)
    BY <1>2
  <2>2. \A j \in 1..Len(frames) : Incrementing(j) => j = k
    BY <2>1, Frames DEF Incrementing, Stack
  <2>3. Counting = {k}
    BY <1>1, <2>1, <2>2
  <2> QED
    BY <1>2, <2>3, FS_Singleton
<1>3. CASE ~ \E k \in 1..Len(frames) : Incrementing(k)
  <2>1. Counting = {}
    BY <1>1, <1>3
  <2> QED
    BY <1>3, <2>1, FS_EmptySet
<1> QED
  BY <1>2, <1>3

\* signal_count++ in sigint_handler() is a read and a write that any other
\* handler can interrupt (line 13), and yet no interrupt that was delivered is
\* lost or counted twice: SIGINT itself is blocked in between.
THEOREM CountExact == Spec => []CountIsExact
<1>1. SignalInv => CountIsExact
  BY CountingCardinality, Frames DEF CountIsExact, Count
<1> QED
  BY InitInv, NextInv, <1>1, PTL DEF Spec

\* A request to exit that falls between the test of should_exit and sleep()
\* costs one more round and never two (lines 57-61).
THEOREM OneLateRound == Spec => []AtMostOneLateRound
<1>1. SignalInv => AtMostOneLateRound
  BY DEF SignalInv, Round, AtMostOneLateRound
<1> QED
  BY InitInv, NextInv, <1>1, PTL DEF Spec

\* should_exit is set and main() returns only after three interrupts or a
\* SIGTERM (lines 12-30, 57-64): SIGUSR1 and the first two interrupts never do it.
THEOREM ExitsOnRequest == Spec => []ExitIsRequested
<1>1. SignalInv => ExitIsRequested
  BY DEF SignalInv, Requests, ExitIsRequested
<1> QED
  BY InitInv, NextInv, <1>1, PTL DEF Spec
=============================================================================
