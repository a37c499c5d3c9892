----------------------------- MODULE ClockMain ------------------------------
(***************************************************************************)
(* clock_main.cpp: a program that shows how fast PTIMER runs.  Its main    *)
(* loop handles the buttons and shows the clocks once a frame; an alarm    *)
(* interrupt, OnAlarmFired, arms the next alarm each time it fires; a skew *)
(* test compares the clocks over a fixed time.  The handler interrupts the *)
(* loop anywhere and the loop does not run meanwhile; the counter runs all *)
(* the time, and its two halves are read one after the other.              *)
(*                                                                         *)
(* 64-bit times are (hi, lo) numbers modulo HighSize * LowSize.  What      *)
(* ClockState::Update makes of a reading is in PtimerClock; here it only   *)
(* is a part of the frame, which changes nothing else.  The time stamp     *)
(* counter and the conversions to MHz and nanoseconds are left out.        *)
(*                                                                         *)
(* Bounds: the handler is entered at most Delay ticks after the flag and   *)
(* lasts at most Delay ticks (so NUMERATOR and DENOMINATOR are not such    *)
(* that PTIMER outruns the processor); the old alarm does not come again   *)
(* while it lasts; MaxEvents events; QPC up to MaxQpc.                     *)
(***************************************************************************)
EXTENDS Integers

CONSTANTS HighSize, LowSize,
          kTicksPerInterval, First,        \* 16666666 and 100000000 ticks
          Delay,
          kTestNumerator, kTestDenominator, kMaxNumeratorDenominator,
          kTimerSkewTestSeconds, RestartSeconds,   \* in units of QPC
          MaxEvents, MaxQpc

ASSUME ScaleAssumption ==
    /\ HighSize \in Nat \ {0, 1} /\ LowSize \in Nat
    /\ kTicksPerInterval \in Nat /\ First \in Nat /\ Delay \in Nat
    /\ Delay < kTicksPerInterval /\ kTicksPerInterval + 2 * Delay < LowSize
    /\ {kMaxNumeratorDenominator, kTimerSkewTestSeconds, RestartSeconds} \subseteq Nat
    /\ {kTestNumerator, kTestDenominator} \subseteq 1 .. kMaxNumeratorDenominator
    /\ 0 < kTimerSkewTestSeconds /\ kTimerSkewTestSeconds < RestartSeconds

VARIABLES time_1, time_0, alarm_0, intr_0, intr_en_0,    \* PTIMER
          ratio,                                         \* NUMERATOR and DENOMINATOR
          qpc,
          pc, lo,                                        \* main
          ptimer_numerator, ptimer_denominator, running,
          last_ptimer,                                   \* of clock_state
          skew_test_state,
          isr, isr_lo,                                   \* OnAlarmFired
          next_alarm_time_ptimer,
          events,                                        \* how many there have been
          fired,                                         \* alarms since main has set one
          since, lateness, late                          \* history of the alarm

counter == <<time_1, time_0>>
alarm == <<alarm_0, intr_0, intr_en_0>>
settings == <<ratio, ptimer_numerator, ptimer_denominator, running>>
handler == <<isr, isr_lo, next_alarm_time_ptimer>>
history == <<fired, since, lateness, late>>
vars == <<counter, alarm, settings, qpc, pc, lo, last_ptimer, skew_test_state, handler, events, history>>

Size == HighSize * LowSize
Join(hi, low) == hi * LowSize + low          \* (hi << 32) + low
Minus(a, b) == (a - b) % Size                \* unsigned
AtMost(a, b) == IF a < b THEN a ELSE b
AtLeast(a, b) == IF a > b THEN a ELSE b

Init ==
    /\ time_1 \in 0 .. HighSize - 1 /\ time_0 \in {0, LowSize - 1}
    /\ alarm_0 \in 0 .. LowSize - 1 /\ intr_0 \in {0, 1} /\ intr_en_0 = 0
    /\ ratio = [num |-> 0, den |-> 0]
    /\ qpc = 0
    /\ pc = "start" /\ lo = 0
    /\ ptimer_numerator = kTestNumerator /\ ptimer_denominator = kTestDenominator
    /\ running = TRUE
    /\ last_ptimer = 0
    /\ skew_test_state = [start |-> 0, target |-> 0, end |-> 0]
    /\ isr = "none" /\ isr_lo = 0 /\ next_alarm_time_ptimer = 0
    /\ events = 0
    /\ fired = 0 /\ since = 0 /\ lateness = 0 /\ late = 0

-----------------------------------------------------------------------------
(* What runs beside the program *)

Asserted == intr_0 = 1 /\ intr_en_0 = 1

Tick ==
    /\ Asserted \/ isr # "none" => late < Delay
    /\ late' = IF Asserted \/ isr # "none" THEN late + 1 ELSE 0
    /\ time_0' = (time_0 + 1) % LowSize
    /\ time_1' = IF time_0' = 0 THEN (time_1 + 1) % HighSize ELSE time_1
    /\ intr_0' = IF time_0' = alarm_0 THEN 1 ELSE intr_0
    /\ since' = AtMost(since + 1, LowSize)
    /\ UNCHANGED <<alarm_0, intr_en_0, settings, qpc, pc, lo, last_ptimer, skew_test_state, handler,
                   events, fired, lateness>>

TickQpc ==
    /\ qpc < MaxQpc /\ qpc' = qpc + 1
    /\ UNCHANGED <<counter, alarm, settings, pc, lo, last_ptimer, skew_test_state, handler, events, history>>

-----------------------------------------------------------------------------
(* OnAlarmFired, called by pbkit's interrupt handler, which acknowledges    *)
(* the flag before the call or after it                                     *)

\* Set by Program and never taken back.
ptimer_alarm_fired_callback == pc \notin {"start", "failed", "ctor", "ctor_hi", "program"}

\* With no callback set pbkit only acknowledges.
HandlerWithoutCallback ==
    /\ Asserted /\ ~ptimer_alarm_fired_callback
    /\ intr_0' = 0 /\ late' = 0
    /\ UNCHANGED <<counter, alarm_0, intr_en_0, settings, qpc, pc, lo, last_ptimer, skew_test_state,
                   handler, events, fired, since, lateness>>

HandlerLo ==
    /\ Asserted /\ isr = "none" /\ ptimer_alarm_fired_callback
    /\ isr' = "hi" /\ isr_lo' = time_0
    /\ intr_0' \in {0, 1}
    /\ fired' = AtMost(fired + 1, 2) /\ lateness' = since - kTicksPerInterval
    /\ since' = 0 /\ late' = 0
    /\ UNCHANGED <<counter, alarm_0, intr_en_0, settings, qpc, pc, lo, last_ptimer, skew_test_state,
                   next_alarm_time_ptimer, events>>

\* Mutant of NextAlarm: an interval after the alarm before, however late that was.
NextAlarmFromLast(now) == (next_alarm_time_ptimer + kTicksPerInterval) % Size

NextAlarm(now) == (now + kTicksPerInterval) % Size

last_alarm_ptimer_time == Join(time_1, isr_lo)

\* last_alarm_time_delta: shown, and used for nothing else.
Delta == Minus(last_alarm_ptimer_time, next_alarm_time_ptimer)

HandlerHi ==
    /\ isr = "hi" /\ isr' = "alarm"
    /\ next_alarm_time_ptimer' = NextAlarm(last_alarm_ptimer_time)
    /\ isr_lo' = 0 /\ lateness' = 0
    /\ UNCHANGED <<counter, alarm, settings, qpc, pc, lo, last_ptimer, skew_test_state, events,
                   fired, since, late>>

\* Mutant of HandlerAlarm: the alarm is left where it was.
HandlerAlarmNotArmed ==
    /\ isr = "alarm" /\ isr' = "ack"
    /\ UNCHANGED <<counter, alarm, settings, qpc, pc, lo, last_ptimer, skew_test_state,
                   isr_lo, next_alarm_time_ptimer, events, history>>

HandlerAlarm ==
    /\ isr = "alarm" /\ isr' = "ack"
    /\ alarm_0' = next_alarm_time_ptimer % LowSize
    /\ UNCHANGED <<counter, intr_0, intr_en_0, settings, qpc, pc, lo, last_ptimer, skew_test_state,
                   isr_lo, next_alarm_time_ptimer, events, history>>

HandlerAck ==
    /\ isr = "ack" /\ isr' = "none"
    /\ intr_0' = 0 /\ late' = 0
    /\ UNCHANGED <<counter, alarm_0, intr_en_0, settings, qpc, pc, lo, last_ptimer, skew_test_state,
                   isr_lo, next_alarm_time_ptimer, events, fired, since, lateness>>

OnAlarmFired == HandlerWithoutCallback \/ HandlerLo \/ HandlerHi \/ HandlerAlarm \/ HandlerAck

-----------------------------------------------------------------------------
(* main *)

At(from, to) == pc = from /\ pc' = to /\ isr = "none"

Beside == <<handler, history, qpc>>

\* Video, pbkit or SDL may fail to initialize.  Nothing the repository states
\* about INTR_EN_0 after pb_init: if it is 1, OnAlarmFired may run as soon as it
\* is set, before main has set an alarm.
StartUp ==
    /\ At("start", "ctor") \/ At("start", "failed")
    /\ intr_en_0' \in {0, 1}
    /\ UNCHANGED <<counter, alarm_0, intr_0, settings, lo, last_ptimer, skew_test_state, events, Beside>>

\* GetPTIMERTime: TIME_0, then TIME_1.
GetLo ==
    /\ At("ctor", "ctor_hi")
    /\ lo' = time_0
    /\ UNCHANGED <<counter, alarm, settings, last_ptimer, skew_test_state, events, Beside>>

ClockStateCtor ==
    /\ At("ctor_hi", "program")
    /\ last_ptimer' = Join(time_1, lo)
    /\ lo' = 0
    /\ UNCHANGED <<counter, alarm, settings, skew_test_state, events, Beside>>

\* TIME_1 = 1, the ratio and the callback (see ptimer_alarm_fired_callback); then
\* TIME_1 again.
Program ==
    /\ At("program", "time_1")
    /\ time_1' = 1
    /\ ratio' = [num |-> ptimer_numerator, den |-> ptimer_denominator]
    /\ UNCHANGED <<time_0, alarm, ptimer_numerator, ptimer_denominator, running,
                   lo, last_ptimer, skew_test_state, events, Beside>>

SetTime1 ==
    /\ At("time_1", "arm")
    /\ time_1' = 1
    /\ UNCHANGED <<time_0, alarm, settings, lo, last_ptimer, skew_test_state, events, Beside>>

\* Over any alarm OnAlarmFired has set.
Arm ==
    /\ At("arm", "enable")
    /\ alarm_0' = (last_ptimer + First) % LowSize
    /\ last_ptimer' = 0                        \* only Update uses it from now on
    /\ fired' = 0
    /\ UNCHANGED <<counter, intr_0, intr_en_0, settings, lo, skew_test_state, events, handler, qpc,
                   since, lateness, late>>

Enable ==
    /\ At("enable", "skew")
    /\ intr_en_0' = 1
    /\ UNCHANGED <<counter, alarm_0, intr_0, settings, lo, last_ptimer, skew_test_state, events, Beside>>

\* Mutant of Start: the end of the test before is kept.
StartKeepsEnd(test_seconds) ==
    skew_test_state' = [skew_test_state EXCEPT !.start = qpc, !.target = qpc + test_seconds]

\* ClockSkewTestState::Start
Start(test_seconds) ==
    skew_test_state' = [start |-> qpc, target |-> qpc + test_seconds, end |-> 0]

StartSkewTest ==
    /\ At("skew", "poll")
    /\ Start(kTimerSkewTestSeconds)
    /\ UNCHANGED <<counter, alarm, settings, lo, last_ptimer, events, Beside>>

-----------------------------------------------------------------------------
(* The events.  A freezes the times shown and Y resets the peaks: left out. *)

Event ==
    /\ events < MaxEvents /\ events' = events + 1
    /\ At("poll", "poll")
    /\ UNCHANGED <<counter, alarm, lo, last_ptimer, Beside>>

SetNumerator(value) ==
    /\ ptimer_numerator' = value
    /\ ratio' = [ratio EXCEPT !.num = value]
    /\ UNCHANGED <<ptimer_denominator, running>>

SetDenominator(value) ==
    /\ ptimer_denominator' = value
    /\ ratio' = [ratio EXCEPT !.den = value]
    /\ UNCHANGED <<ptimer_numerator, running>>

\* Mutant of Lower: no limit.
LowerToZero(value) == value \div 10

Lower(value) == AtLeast(value \div 10, 1)
Raise(value) == AtMost(value * 10, kMaxNumeratorDenominator)

DPad ==
    /\ Event
    /\ \/ SetNumerator(Raise(ptimer_numerator)) \/ SetNumerator(Lower(ptimer_numerator))
       \/ SetDenominator(Raise(ptimer_denominator)) \/ SetDenominator(Lower(ptimer_denominator))
    /\ UNCHANGED skew_test_state

\* X
ResetRatio ==
    /\ Event
    /\ ptimer_numerator' = kTestNumerator /\ ptimer_denominator' = kTestDenominator
    /\ ratio' = [num |-> kTestNumerator, den |-> kTestDenominator]
    /\ UNCHANGED <<running, skew_test_state>>

\* Y; the peaks it also resets are never kept, see ShowFrame.
Restart ==
    /\ Event
    /\ Start(RestartSeconds)
    /\ UNCHANGED settings

\* The right shoulder button, or a controller that cannot be opened; the
\* frame is still shown.
Stop ==
    /\ Event
    /\ running' = FALSE
    /\ UNCHANGED <<ratio, ptimer_numerator, ptimer_denominator, skew_test_state>>

NoEvent ==
    /\ At("poll", "show")
    /\ UNCHANGED <<counter, alarm, settings, lo, last_ptimer, skew_test_state, events, Beside>>

-----------------------------------------------------------------------------
(* A frame *)

\* Mutant of Update: a test that has ended is measured again.
UpdateAgain ==
    skew_test_state' = IF qpc >= skew_test_state.target
                       THEN [skew_test_state EXCEPT !.end = qpc] ELSE skew_test_state

\* ClockSkewTestState::Update
Update ==
    skew_test_state' = IF skew_test_state.end = 0 /\ qpc >= skew_test_state.target
                       THEN [skew_test_state EXCEPT !.end = qpc] ELSE skew_test_state

\* The end of the frame, and pb_kill after the last one.  frame_counter, whose
\* increment is compiled out, stays 0: the peaks are set back to 0 every frame.
ShowFrame ==
    /\ At("show", IF running THEN "poll" ELSE "returned")
    /\ Update
    /\ intr_en_0' = IF running THEN intr_en_0 ELSE 0
    /\ UNCHANGED <<counter, alarm_0, intr_0, settings, lo, last_ptimer, events, Beside>>

Main ==
    \/ StartUp \/ GetLo \/ ClockStateCtor \/ Program \/ SetTime1 \/ Arm \/ Enable \/ StartSkewTest
    \/ DPad \/ ResetRatio \/ Restart \/ Stop \/ NoEvent \/ ShowFrame

Next == Tick \/ TickQpc \/ OnAlarmFired \/ Main

Spec == Init /\ [][Next]_vars

-----------------------------------------------------------------------------
(* Properties *)

\* Types; the ratio PTIMER is given is the one the program keeps, and is never
\* zero nor beyond kMaxNumeratorDenominator, whatever is pressed.
TypeOK ==
    /\ counter \in (0 .. HighSize - 1) \X (0 .. LowSize - 1)
    /\ alarm \in (0 .. LowSize - 1) \X {0, 1} \X {0, 1}
    /\ lo \in 0 .. LowSize - 1 /\ isr_lo \in 0 .. LowSize - 1
    /\ {ptimer_numerator, ptimer_denominator} \subseteq 1 .. kMaxNumeratorDenominator
    /\ ratio \in {[num |-> 0, den |-> 0], [num |-> ptimer_numerator, den |-> ptimer_denominator]}
    /\ running \in BOOLEAN
    /\ {last_ptimer, next_alarm_time_ptimer} \subseteq 0 .. Size - 1
    /\ isr \in {"none", "hi", "alarm", "ack"}

\* From the second alarm on they come an interval apart, late by no more than
\* the handler is entered late: a torn reading does not displace the next one,
\* because only its low half goes into ALARM_0 (clock_main.cpp:104-111).  This
\* begins anew when main writes ALARM_0 (203): the alarm of an earlier entry, which
\* there is if pb_init left the interrupt enabled, is then lost.
AlarmsKeepTheirInterval ==
    [][fired > 0 /\ HandlerLo => since \in kTicksPerInterval .. kTicksPerInterval + Delay]_vars

\* The delta shown for an alarm is how late it was, off by whole carries of the
\* counter if one fell between the two reads of this alarm or of the last one.
\* Only the first delta after main has set an alarm, taken against 0 or against
\* an alarm that was lost, means nothing.
DeltaIsLateness ==
    [][HandlerHi /\ fired = 2 => (Delta - lateness) % LowSize = 0]_vars

\* A skew test ends once, when it has run for its time, and its results stay
\* on the screen until it is started again.
SkewTestEndsOnce ==
    [][skew_test_state' # skew_test_state =>
        \/ skew_test_state'.end = 0
        \/ /\ skew_test_state.end = 0 /\ skew_test_state'.end >= skew_test_state.target
           /\ skew_test_state'.target = skew_test_state.target]_vars
=============================================================================
