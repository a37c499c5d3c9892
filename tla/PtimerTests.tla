---------------------------- MODULE PtimerTests -----------------------------
(***************************************************************************)
(* The PTIMER suite: post_init_ of ptimer_alarm_main.cpp, with             *)
(* RunPreInitBootAlarmTest, then the tests, on a PTIMER that works or that *)
(* has one of Faults, such as an emulator may have.  One thread executes   *)
(* register accesses while the counter runs, the alarm latches INTR_0 and  *)
(* pbkit's interrupt handler calls CapturingAlarmCallback between any two  *)
(* of them.                                                                *)
(*                                                                         *)
(* A test is a program: a sequence of instructions, one per register       *)
(* access that matters.  TIME_0 is a counter modulo N that carries into    *)
(* TIME_1; the distances the tests use are scaled down, their order is     *)
(* kept (ScaleAssumption).  NUMERATOR and DENOMINATOR, which set the pace  *)
(* of the counter, are left out, and so is TestClockScalingRatios, which   *)
(* writes nothing else and measures that pace.                             *)
(*                                                                         *)
(* Bounds on real time: the straight-line code between two waits takes at  *)
(* most Delay ticks, and so does one round of a polling loop; an interrupt *)
(* that is pending and enabled is taken before the next tick.              *)
(***************************************************************************)
EXTENDS Integers, Sequences

CONSTANTS N, HighSize,         \* TIME_0 counts modulo 2^32, TIME_1 modulo 2^29
          Offset, Over,        \* from arming to the alarm; from the alarm to giving up
          Far,                 \* 0x20000000, the alarm nobody waits for
          Timeout, LongTimeout,  \* 100 or 500 ms; 5 s, between one and two rounds of TIME_0
          Delay, Near,         \* of the code; 0x20000, allowed by TestTimeRegisterReadWrite
          kMaxAlarmCaptures,
          BootAlarms           \* values ALARM_0 may have at boot

ASSUME ScaleAssumption ==
    /\ {N, HighSize, Offset, Over, Far, Timeout, LongTimeout, Delay, Near} \subseteq Nat
    /\ HighSize > 3 /\ Delay <= Near /\ Near < Far
    /\ 0 < Delay /\ Delay < Over /\ Delay < Offset
    /\ Offset + Over + 2 * Delay < Timeout /\ Timeout <= Far
    /\ N = 8 * Far /\ 8 * Delay <= Far
    /\ N + Offset + 1 + Delay < LongTimeout /\ LongTimeout + 5 * Delay < 2 * N
    /\ BootAlarms \subseteq 0 .. N - 1
    /\ kMaxAlarmCaptures \in Nat /\ kMaxAlarmCaptures > 1

VARIABLES time_1, time_0, alarm_0, intr_0, intr_en_0,     \* the registers
          ptimer_alarm_count, ptimer_alarm_fired_callback,   \* pbkit; TRUE: a callback is set
          g_alarm_captures,                       \* the recorded part of it
          g_boot_ptimer_state,
          fault, armed,                           \* what is wrong with the PTIMER; part of it
          test, pc, polled,                       \* where the thread stands
          t, high, latched,                       \* locals of the running test
          pass, boot_pass,                        \* verdicts: of all checks but one, and of
                                                  \* that of RunPreInitBootAlarmTest
          late,                                   \* ticks since the last wait
          elapsed                                 \* ticks since qpc_start

counter == <<time_1, time_0>>
registers == <<counter, alarm_0, intr_0, intr_en_0, fault, armed>>
isr == <<ptimer_alarm_count, ptimer_alarm_fired_callback, g_alarm_captures>>
verdicts == <<pass, boot_pass>>
locals == <<t, high, latched, verdicts>>
vars == <<registers, isr, g_boot_ptimer_state, test, pc, polled, locals, late, elapsed>>

-----------------------------------------------------------------------------
(* Instructions *)

\* VIDEOREG(...) = ...
En(value)        == [op |-> "en", value |-> value]             \* INTR_EN_0
Acknowledge(bit) == [op |-> "ack", value |-> bit]              \* INTR_0 = bit
Ack              == Acknowledge(1)
Alarm(base, off) == [op |-> "alarm", base |-> base, off |-> off]
Time(base, off)  == [op |-> "time", base |-> base, off |-> off]
ReadTime         == [op |-> "read"]                            \* t = TIME_0
High(value)      == [op |-> "high", value |-> value]           \* TIME_1 = value
ReadHigh         == [op |-> "read_high"]                       \* high = TIME_1

\* g_alarm_capture_count = 0, the callback is set; ptimer_alarm_count = 0 unless kept.
Capture(reset)   == [op |-> "capture", reset |-> reset]
Release          == [op |-> "release"]                         \* callback = nullptr

\* Wait for captures, for INTR_0, while TIME_0 has certain values, or for some ms.
PollCaptures(count, giveup, limit) ==
    [op |-> "captures", count |-> count, giveup |-> giveup, limit |-> limit]
PollLatched      == [op |-> "latched", timed |-> TRUE]
PollLatchedUntil == [op |-> "latched", timed |-> FALSE]         \* no delta, no limit
Spin(while)      == [op |-> "spin", while |-> while]
Sleep            == [op |-> "sleep"]

\* TEST_INFO, or the log between two tests: appends to a file.
Log              == [op |-> "log"]

\* TEST_FAIL if it does not hold, and then skip instructions that are not reached.
Check(what, skip) == [op |-> "check", what |-> what, skip |-> skip]
CheckValue(what, value) == [op |-> "check", what |-> what, value |-> value, skip |-> 0]

\* Every test begins like this.
Quiet == <<Log, En(0), Ack>>

\* Arm the alarm Offset ticks from now.
ArmAhead == <<ReadTime, Alarm("t", Offset)>>

\* Run's pb_init, then RunPreInitBootAlarmTest from post_init_.
BootAlarm == <<[op |-> "pb_init"], [op |-> "save"], Ack, Time("boot", 0 - Offset), PollLatched, Ack>>

AlarmUnprogrammed == Quiet \o
    <<Capture(TRUE), Alarm("boot", 0), Time("boot", 0 - Offset), En(1),
      PollCaptures(1, "delta", Timeout), En(0), Release,
      Check("boot", 0), Check("captured", 0), En(0), Ack>>

\* Mutant of AlarmTargetZero: the alarm is next to zero.
AlarmTargetOne == Quiet \o
    <<Capture(TRUE), Alarm("zero", 1), Time("zero", 0 - Offset), En(1),
      PollCaptures(1, "wrapped", Timeout), En(0), Release, Check("captured", 0), En(0), Ack>>

AlarmTargetZero == Quiet \o
    <<Capture(TRUE), Alarm("zero", 0), Time("zero", 0 - Offset), En(1),
      PollCaptures(1, "wrapped", Timeout), En(0), Release, Check("captured", 0), En(0), Ack>>

\* Mutant of AlarmRearm: the interrupt is left enabled.
AlarmRearmLeftEnabled == Quiet \o
    <<Capture(TRUE)>> \o ArmAhead \o
    <<En(1), Log, PollCaptures(1, "never", Timeout), Release, Check("captured", 0)>>

AlarmRearm == Quiet \o
    <<Capture(TRUE)>> \o ArmAhead \o
    <<En(1), Log, PollCaptures(1, "never", Timeout), En(0), Release, Check("captured", 0)>>

AlarmAdjustPreservesPendingFlag == Quiet \o
    <<Capture(TRUE)>> \o ArmAhead \o
    <<ReadTime, Log, PollLatched, Check("latched", 9), Log, Check("quiet", 0),
      Alarm("t", Far), Check("pending", 5), Log,
      En(1), Sleep, En(0), Check("captured", 0), En(0), Ack, Release>>

AlarmRolloverAndPeriodicity == Quiet \o
    <<Time("zero", 0 - Offset), Alarm("zero", 1), Capture(TRUE), Log, En(1),
      PollCaptures(5, "never", LongTimeout), En(0), Release, Check("two", 0)>>

AlarmSetInThePast == Quiet \o
    <<Time("zero", Far), Alarm("zero", Far \div 2), Log, Capture(TRUE), En(1),
      PollCaptures(1, "never", Timeout), Check("acknowledged", 0), En(0), Release, Check("quiet", 0)>>

AlarmUnalignedTarget == Quiet \o
    <<Time("zero", 0), Alarm("zero", 0), Capture(FALSE), En(1), Sleep, En(0), Release,
      Check("quiet", 0)>>

\* The time until the alarm is surely due.
NotOver == 0 .. Offset + Over - 1

InterruptMasking == Quiet \o
    <<Time("zero", 0), Alarm("zero", Offset), Capture(FALSE), En(1), En(0), Log,
      Spin(NotOver), Log, Check("quiet", 0), Check("pending", 6), Log,
      En(1), Sleep, En(0), Release, Check("captured", 0), En(0), Ack>>

AlarmFlagIsSetWhileMasked == Quiet \o
    <<Capture(TRUE)>> \o ArmAhead \o
    <<ReadTime, Log, PollLatched, Log, Check("quiet", 0), Check("latched", 5), Log,
      En(1), Sleep, En(0), Check("captured", 0), En(0), Ack, Release>>

AlarmFlagIsSetWhileMaskedResetTime == Quiet \o
    <<Capture(TRUE), Time("zero", 0), Alarm("zero", Offset), PollLatchedUntil, Log,
      Check("quiet", 0), Check("latched", 0), Log, En(0), Ack, Release>>

InterruptAcknowledge == Quiet \o
    <<Time("zero", 0), Alarm("zero", Offset), Spin(NotOver), Check("pending", 0), Log,
      Acknowledge(0), Check("pending", 0), Log, Ack, Check("acknowledged", 0), Log>>

\* Leaves an alarm of its own behind, and TIME_0 about to wrap.  The bits it
\* checks are below the steps of TIME_0 and above HighSize.
RegisterBitmasks ==
    <<Log, Alarm("zero", Far \div 2), Log, Time("zero", -1), Log, High(HighSize - 1), Log>>

\* TIME_1, then TIME_0; and the other way round, where TIME_0 is not checked.
TimeRegisterReadWrite ==
    LET WriteLow(value) ==
            <<High(2), Time("zero", value), ReadTime, ReadHigh, Log,
              CheckValue("time_1", 2), CheckValue("time_0", value)>>
        WriteHigh(value) ==
            <<Time("zero", 2), High(value), ReadTime, ReadHigh, Log, CheckValue("time_1", value)>>
    IN  <<Log>> \o WriteLow(0) \o WriteLow(1) \o WriteLow(Far) \o WriteLow(4 * Far)
                \o WriteHigh(1) \o WriteHigh(2) \o WriteHigh(HighSize - 1)

\* Mutant of TimeRegisterRollover: TIME_0 is written first.
TimeRegisterRolloverLowFirst ==
    <<Log, Time("zero", -1), High(1), Log, Spin({N - 1}), ReadHigh, ReadTime, Log,
      CheckValue("time_1", 2), Log>>

TimeRegisterRollover ==
    <<Log, High(1), Time("zero", -1), Log, Spin({N - 1}), ReadHigh, ReadTime, Log,
      CheckValue("time_1", 2), Log>>

\* With NUMERATOR or DENOMINATOR zero nothing is expected of the counter.
ZeroDivisorClock ==
    LET Armed == <<En(1), Sleep, En(0), Log>>
    IN  Quiet \o ArmAhead \o Armed \o ArmAhead \o Armed \o ArmAhead \o <<Log>>

\* post_init_ and the tests of kTests but one, in their order.
Programs ==
    <<BootAlarm, AlarmUnprogrammed, AlarmTargetZero, AlarmRearm, AlarmAdjustPreservesPendingFlag,
      AlarmRolloverAndPeriodicity, AlarmSetInThePast, AlarmUnalignedTarget, RegisterBitmasks,
      InterruptMasking, AlarmFlagIsSetWhileMasked, AlarmFlagIsSetWhileMaskedResetTime,
      InterruptAcknowledge, TimeRegisterReadWrite, TimeRegisterRollover, ZeroDivisorClock>>

InBoot == test = 1
Ended == test > Len(Programs)
instruction == Programs[test][pc]
At(op) == ~Ended /\ instruction.op = op

Waits == {"captures", "latched", "spin", "sleep", "log"}
Waiting == ~Ended /\ instruction.op \in Waits

-----------------------------------------------------------------------------
(* What goes on beside the thread *)

Asserted == intr_0 = 1 /\ intr_en_0 = 1

\* "never": the alarm never latches INTR_0; "masked": not while INTR_EN_0 is 0;
\* "zero": not at 0; "boot": not before ALARM_0 is written; "once": once per
\* write; "past": at once if ALARM_0 is written with a time that has passed;
\* "level": again and again after it; "clears": writing ALARM_0 clears INTR_0;
\* "zeroed": so does writing 0 to INTR_0; "no_carry": TIME_1 does not count;
\* "fixed": TIME_1 cannot be written; "corrupts": writing TIME_0 clears TIME_1.
Faults ==
    {"zeroed", "never", "masked", "zero", "boot", "once", "past", "level", "clears",
     "no_carry", "fixed", "corrupts"}

Latches(time) ==
    /\ time = alarm_0 \/ (fault = "level" /\ time > alarm_0)
    /\ armed
    /\ fault # "never"
    /\ fault = "masked" => intr_en_0 = 1
    /\ fault = "zero" => time # 0

\* The counter counts, and latches INTR_0 when it comes to ALARM_0.
Tick ==
    /\ ~Asserted /\ late < Delay
    /\ time_0' = (time_0 + 1) % N
    /\ time_1' = IF time_0' = 0 /\ fault # "no_carry" THEN (time_1 + 1) % HighSize ELSE time_1
    /\ intr_0' = IF Latches(time_0') THEN 1 ELSE intr_0
    /\ armed' = IF Latches(time_0') /\ fault = "once" THEN FALSE ELSE armed
    /\ late' = late + 1
    /\ elapsed' = IF Waiting /\ elapsed < LongTimeout THEN elapsed + 1 ELSE elapsed
    /\ UNCHANGED <<alarm_0, intr_en_0, fault, isr, g_boot_ptimer_state, test, pc, polled, locals>>

\* Mutant of CapturingAlarmCallback: the buffer is not checked against its end.
CapturingAlarmCallbackUnchecked(count) ==
    g_alarm_captures' = Append(g_alarm_captures, count)

CapturingAlarmCallback(count) ==
    g_alarm_captures' = IF Len(g_alarm_captures) < kMaxAlarmCaptures
                        THEN Append(g_alarm_captures, count) ELSE g_alarm_captures

\* pbkit's handler counts, calls the callback and acknowledges; the thread does
\* not run meanwhile.
Interrupt ==
    /\ Asserted
    /\ ptimer_alarm_count' = ptimer_alarm_count + 1
    /\ IF ptimer_alarm_fired_callback THEN CapturingAlarmCallback(ptimer_alarm_count')
                                      ELSE UNCHANGED g_alarm_captures
    /\ intr_0' = 0
    /\ UNCHANGED <<counter, alarm_0, intr_en_0, fault, armed, ptimer_alarm_fired_callback, g_boot_ptimer_state,
                   test, pc, polled, locals, late, elapsed>>

-----------------------------------------------------------------------------
(* The thread *)

\* On to the next instruction, or to the next test.
Advance ==
    /\ IF pc < Len(Programs[test]) THEN pc' = pc + 1 /\ UNCHANGED test
                                   ELSE pc' = 1 /\ test' = test + 1
    /\ polled' = FALSE /\ elapsed' = 0
    /\ late' = IF instruction.op \in Waits THEN 0 ELSE late

Base(base) == CASE base = "zero" -> 0 [] base = "t" -> t [] base = "boot" -> g_boot_ptimer_state.alarm_0

Operand == (Base(instruction.base) + instruction.off + N) % N

WriteEnable ==
    /\ At("en") /\ Advance
    /\ intr_en_0' = instruction.value
    /\ UNCHANGED <<counter, alarm_0, intr_0, fault, armed, isr, g_boot_ptimer_state, locals>>

WriteAck ==
    /\ At("ack") /\ Advance
    /\ intr_0' = IF instruction.value = 1 \/ fault = "zeroed" THEN 0 ELSE intr_0
    /\ UNCHANGED <<counter, alarm_0, intr_en_0, fault, armed, isr, g_boot_ptimer_state, locals>>

WriteAlarm ==
    /\ At("alarm") /\ Advance
    /\ alarm_0' = Operand /\ armed' = TRUE
    /\ intr_0' = CASE fault = "past" /\ (time_0 - Operand + N) % N \in 1 .. N \div 2 -> 1
                   [] fault = "clears" -> 0
                   [] OTHER -> intr_0
    /\ UNCHANGED <<counter, intr_en_0, fault, isr, g_boot_ptimer_state, locals>>

\* The tests that write TIME_0 remember what they wrote as start_time.
WriteTime ==
    /\ At("time") /\ Advance
    /\ time_0' = Operand /\ t' = Operand
    /\ time_1' = IF fault = "corrupts" THEN 0 ELSE time_1
    /\ UNCHANGED <<alarm_0, intr_0, intr_en_0, fault, armed, isr, g_boot_ptimer_state, high, latched, verdicts>>

WriteHigh ==
    /\ At("high") /\ Advance
    /\ time_1' = IF fault = "fixed" THEN time_1 ELSE instruction.value
    /\ UNCHANGED <<time_0, alarm_0, intr_0, intr_en_0, fault, armed, isr, g_boot_ptimer_state, locals>>

ReadTimeStep ==
    /\ At("read") /\ Advance
    /\ t' = time_0
    /\ UNCHANGED <<registers, isr, g_boot_ptimer_state, high, latched, verdicts>>

ReadHighStep ==
    /\ At("read_high") /\ Advance
    /\ high' = time_1
    /\ UNCHANGED <<registers, isr, g_boot_ptimer_state, t, latched, verdicts>>

\* Mutant of CaptureStep: g_alarm_capture_count is not reset.
CaptureStepKeepsCaptures ==
    /\ At("capture") /\ Advance
    /\ ptimer_alarm_fired_callback' = TRUE
    /\ ptimer_alarm_count' = IF instruction.reset THEN 0 ELSE ptimer_alarm_count
    /\ UNCHANGED <<registers, g_alarm_captures, g_boot_ptimer_state, locals>>

CaptureStep ==
    /\ At("capture") /\ Advance
    /\ g_alarm_captures' = <<>>
    /\ ptimer_alarm_fired_callback' = TRUE
    /\ ptimer_alarm_count' = IF instruction.reset THEN 0 ELSE ptimer_alarm_count
    /\ UNCHANGED <<registers, g_boot_ptimer_state, locals>>

ReleaseStep ==
    /\ At("release") /\ Advance
    /\ ptimer_alarm_fired_callback' = FALSE
    /\ UNCHANGED <<registers, ptimer_alarm_count, g_alarm_captures, g_boot_ptimer_state, locals>>

\* Nothing the repository states about INTR_EN_0 after pb_init.
PbInit ==
    /\ At("pb_init") /\ Advance
    /\ intr_en_0' \in {0, 1}
    /\ UNCHANGED <<counter, alarm_0, intr_0, fault, armed, isr, g_boot_ptimer_state, locals>>

SaveRegisters ==
    /\ At("save") /\ Advance
    /\ g_boot_ptimer_state' = [alarm_0 |-> alarm_0, intr_en_0 |-> intr_en_0, alarm_latched |-> FALSE]
    /\ UNCHANGED <<registers, isr, locals>>

-----------------------------------------------------------------------------
(* Polling: a round is two reads; polled is TRUE between them *)

Round(next) ==
    /\ polled' = next
    /\ late' = IF next THEN late ELSE 0
    /\ UNCHANGED <<test, pc, elapsed>>

\* now - start, as uint32_t
Delta == (time_0 - t + N) % N

GivesUp ==
    CASE instruction.giveup = "delta" -> Delta > Offset + Over
      [] instruction.giveup = "wrapped" -> time_0 < N - Offset /\ time_0 > Over
      [] instruction.giveup = "never" -> FALSE

PollCaptureCount ==
    /\ At("captures") /\ ~polled
    /\ IF Len(g_alarm_captures) >= instruction.count THEN Advance ELSE Round(TRUE)
    /\ UNCHANGED <<registers, isr, g_boot_ptimer_state, locals>>

PollCaptureTime ==
    /\ At("captures") /\ polled
    /\ IF GivesUp \/ elapsed >= instruction.limit THEN Advance ELSE Round(FALSE)
    /\ UNCHANGED <<registers, isr, g_boot_ptimer_state, locals>>

PollInterrupt ==
    /\ At("latched") /\ ~polled
    /\ IF intr_0 = 1
       THEN /\ Advance
            /\ latched' = TRUE /\ t' = time_0
            /\ g_boot_ptimer_state' = IF InBoot THEN [g_boot_ptimer_state EXCEPT !.alarm_latched = TRUE]
                                                ELSE g_boot_ptimer_state
       ELSE Round(TRUE) /\ UNCHANGED <<latched, t, g_boot_ptimer_state>>
    /\ UNCHANGED <<registers, isr, high, verdicts>>

\* Mutant of OverdueIn: gives up as soon as the alarm is due.
OverdueInAtOnce(delta) == delta > Offset - 1 \/ elapsed >= Timeout

OverdueIn(delta) ==
    IF instruction.timed THEN delta > Offset + Over \/ elapsed >= Timeout
                         ELSE time_0 >= Offset + Over

\* Mutant of PollTime: waits for the flag, however late it is.
PollTimeWaits ==
    /\ At("latched") /\ polled
    /\ Round(FALSE)
    /\ UNCHANGED <<registers, isr, g_boot_ptimer_state, locals>>

PollTime ==
    /\ At("latched") /\ polled
    /\ IF OverdueIn(Delta) THEN Advance /\ latched' = FALSE ELSE Round(FALSE) /\ UNCHANGED latched
    /\ UNCHANGED <<registers, isr, g_boot_ptimer_state, t, high, verdicts>>

SpinStep ==
    /\ At("spin")
    /\ IF time_0 \in instruction.while THEN Round(FALSE) ELSE Advance
    /\ UNCHANGED <<registers, isr, g_boot_ptimer_state, locals>>

\* Sleep is longer than it takes to deliver an interrupt.
SleepStep ==
    /\ At("sleep") /\ ~Asserted /\ Advance
    /\ UNCHANGED <<registers, isr, g_boot_ptimer_state, locals>>

LogStep ==
    /\ At("log") /\ Advance
    /\ UNCHANGED <<registers, isr, g_boot_ptimer_state, locals>>

Holds(what) ==
    CASE what = "boot" -> g_boot_ptimer_state.alarm_latched
      [] what = "captured" -> g_alarm_captures # <<>>
      [] what = "quiet" -> g_alarm_captures = <<>>
      [] what = "two" -> Len(g_alarm_captures) = 2
      [] what = "latched" -> latched
      [] what = "pending" -> intr_0 = 1
      [] what = "acknowledged" -> intr_0 = 0
      [] what = "time_1" -> high = instruction.value
      [] what = "time_0" -> t \in instruction.value .. instruction.value + Near

CheckStep ==
    /\ At("check")
    /\ \/ Holds(instruction.what) /\ Advance /\ UNCHANGED verdicts
       \/ /\ ~Holds(instruction.what)
          /\ IF instruction.what = "boot" THEN boot_pass' = FALSE /\ UNCHANGED pass
                                          ELSE pass' = FALSE /\ UNCHANGED boot_pass
          /\ IF instruction.skip = 0 THEN Advance
             ELSE pc' = pc + instruction.skip + 1 /\ UNCHANGED <<test, polled, late, elapsed>>
    /\ UNCHANGED <<registers, isr, g_boot_ptimer_state, t, high, latched>>

-----------------------------------------------------------------------------
Init ==
    /\ time_1 = 0 /\ time_0 \in {0, N - 1} /\ alarm_0 \in BootAlarms /\ intr_0 \in {0, 1} /\ intr_en_0 = 0
    /\ ptimer_alarm_count = 0 /\ ptimer_alarm_fired_callback = FALSE /\ g_alarm_captures = <<>>
    /\ g_boot_ptimer_state = [alarm_0 |-> 0, intr_en_0 |-> 0, alarm_latched |-> FALSE]
    /\ fault \in Faults \cup {"none"} /\ armed = (fault # "boot")
    /\ test = 1 /\ pc = 1 /\ polled = FALSE
    /\ t = 0 /\ high = 0 /\ latched = FALSE /\ pass = TRUE /\ boot_pass = TRUE
    /\ late = 0 /\ elapsed = 0

Thread ==
    \/ WriteEnable \/ WriteAck \/ WriteAlarm \/ WriteTime \/ WriteHigh \/ ReadTimeStep \/ ReadHighStep \/ CaptureStep \/ ReleaseStep
    \/ PbInit \/ SaveRegisters
    \/ PollCaptureCount \/ PollCaptureTime \/ PollInterrupt \/ PollTime \/ SpinStep \/ SleepStep \/ LogStep
    \/ CheckStep

End == Ended /\ UNCHANGED vars

Next == Tick \/ Interrupt \/ Thread \/ End

Spec == Init /\ [][Next]_vars

\* The thread is scheduled, the counter runs and interrupts are delivered.
FairSpec == Spec /\ WF_vars(Thread) /\ WF_vars(Tick) /\ WF_vars(Interrupt)

-----------------------------------------------------------------------------
(* Properties *)

\* On a PTIMER that works, every check of every test holds, wherever ticks and
\* interrupts fall between its register accesses (within Delay), whatever alarm
\* the test before it left and whatever pb_init made of INTR_EN_0: no test
\* confuses an earlier test's alarm with its own, misses its own, or gives up too
\* early.  The one exception is TestAlarmUnprogrammed's check of what
\* RunPreInitBootAlarmTest saw, if pb_init left the interrupt enabled: pbkit's
\* handler then acknowledges the flag that function polls.
NoFalseFailure ==
    fault = "none" => pass /\ (boot_pass \/ g_boot_ptimer_state.intr_en_0 = 1)

\* A PTIMER with one of Faults does not pass the suite, whatever the timing; and
\* the check that may fail falsely is needed to find one of them only.
FaultsAreDetected ==
    Ended /\ fault \in Faults => ~pass \/ (fault = "boot" /\ ~boot_pass)

\* Firings are recorded one by one in the order they happened; once the buffer
\* is full the count goes on alone, and nothing is written past its end
\* (ptimer_test_common.cpp:8-19).
FiringsRecorded ==
    /\ Len(g_alarm_captures) <= kMaxAlarmCaptures
    /\ \A i \in 2 .. Len(g_alarm_captures) : g_alarm_captures[i] = g_alarm_captures[i - 1] + 1
    /\ g_alarm_captures # <<>> /\ Len(g_alarm_captures) < kMaxAlarmCaptures =>
          \/ g_alarm_captures[Len(g_alarm_captures)] = ptimer_alarm_count
          \/ ~ptimer_alarm_fired_callback

\* Between two tests no interrupt can come, so that nothing is recorded on
\* behalf of a test that has returned; nor is a callback left installed, by any
\* path through any test and on any PTIMER, but after TestInterruptMasking (the
\* tenth program), which forgets it if the flag did not latch
\* (test_interrupt_masking.cpp:47-63); it latches on a PTIMER that works.
NothingArmedBetweenTests ==
    pc = 1 /\ test > 2 =>
        /\ intr_en_0 = 0
        /\ ptimer_alarm_fired_callback => test = 11 /\ fault # "none"

\* The suite comes to its end: no wait lasts for ever, the spins included.
SuiteEnds == <>Ended
=============================================================================
