-------------------------- MODULE PtimerTestsProofs --------------------------
(***************************************************************************)
(* Theorems about PtimerTests, for a counter of any size and any distances *)
(* the tests may use: what CapturingAlarmCallback records, that a test     *)
(* leaves neither an enabled interrupt nor, TestInterruptMasking on a      *)
(* PTIMER that does not work excepted, its callback behind, and that no    *)
(* test fails on one that works.                                           *)
(***************************************************************************)
EXTENDS PtimerTests, TLAPS

\* The k-th instruction is not passed over by a check that fails before it,
\* except by those at except.
Reached(s, k, except) ==
    \A i \in (1 .. k - 1) \ except : s[i].op = "check" => i + s[i].skip < k

\* From p on the interrupt is still going to be disabled, the callback to be removed.
OffAhead(s, p) ==
    \E k \in p .. Len(s) : s[k].op = "en" /\ s[k].value = 0 /\ Reached(s, k, {})
ReleaseAhead(s, p, except) ==
    \E k \in p .. Len(s) : s[k].op = "release" /\ Reached(s, k, except)

\* A test that undoes what it sets up.
Tidy(s, except) ==
    \A i \in 1 .. Len(s) :
      /\ s[i].op # "pb_init"
      /\ s[i].op = "check" => s[i].skip = 0 \/ (s[i].skip \in Nat /\ i + s[i].skip < Len(s))
      /\ s[i].op = "en" /\ s[i].value # 0 => OffAhead(s, i + 1)
      /\ s[i].op = "capture" => ReleaseAhead(s, i + 1, except)

-----------------------------------------------------------------------------
(* The programs *)

\* A program of n instructions that disables the interrupt at a and removes the
\* callback at r, if it ever enables the one and installs the other.
Shaped(s, n, a, r, except) ==
    /\ Len(s) = n /\ n \in Nat /\ a \in 1 .. n /\ r \in 1 .. n
    /\ \A i \in 1 .. n :
         /\ s[i].op # "pb_init"
         /\ s[i].op = "check" => s[i].skip \in {0, 5, 6, 9}
         /\ s[i].op = "check" /\ s[i].skip # 0 => i + s[i].skip < n
         /\ s[i].op = "check" /\ i < a => i + s[i].skip < a
         /\ s[i].op = "check" /\ i < r /\ i \notin except => i + s[i].skip < r
         /\ s[i].op = "en" /\ s[i].value # 0 => i < a /\ s[a].op = "en" /\ s[a].value = 0
         /\ s[i].op = "capture" => i < r /\ s[r].op = "release"

\* Such a program is tidy.
LEMMA ShapedIsTidy ==
  ASSUME NEW s, NEW except, NEW n, NEW a, NEW r,
         Shaped(s, n, a, r, except)
  PROVE  Tidy(s, except) /\ Len(s) = n
<1>1. /\ Len(s) = n /\ n \in Nat /\ a \in 1 .. n /\ r \in 1 .. n
      /\ \A i \in 1 .. n :
           /\ s[i].op # "pb_init"
           /\ s[i].op = "check" => s[i].skip \in {0, 5, 6, 9}
           /\ s[i].op = "check" /\ s[i].skip # 0 => i + s[i].skip < n
           /\ s[i].op = "check" /\ i < a => i + s[i].skip < a
           /\ s[i].op = "check" /\ i < r /\ i \notin except => i + s[i].skip < r
           /\ s[i].op = "en" /\ s[i].value # 0 => i < a /\ s[a].op = "en" /\ s[a].value = 0
           /\ s[i].op = "capture" => i < r /\ s[r].op = "release"
  BY DEF Shaped
<1>2. ASSUME NEW i \in 1 .. n, s[i].op = "en", s[i].value # 0 PROVE OffAhead(s, i + 1)
  <2>1. i < a /\ s[a].op = "en" /\ s[a].value = 0
    BY <1>1, <1>2
  <2>2. a \in i + 1 .. Len(s)
    BY <1>1, <2>1
  <2>3. Reached(s, a, {})
    BY <1>1 DEF Reached
  <2>4. QED BY <2>1, <2>2, <2>3 DEF OffAhead
<1>3. ASSUME NEW i \in 1 .. n, s[i].op = "capture" PROVE ReleaseAhead(s, i + 1, except)
  <2>1. i < r /\ s[r].op = "release"
    BY <1>1, <1>3
  <2>2. r \in i + 1 .. Len(s)
    BY <1>1, <2>1
  <2>3. Reached(s, r, except)
    BY <1>1 DEF Reached
  <2>4. QED BY <2>1, <2>2, <2>3 DEF ReleaseAhead
<1>4. ASSUME NEW i \in 1 .. n, s[i].op = "check"
      PROVE  s[i].skip = 0 \/ (s[i].skip \in Nat /\ i + s[i].skip < n)
  <2>1. s[i].skip \in {0, 5, 6, 9}
    BY <1>1, <1>4
  <2>2. s[i].skip # 0 => i + s[i].skip < n
    BY <1>1, <1>4
  <2>3. s[i].skip \in Nat
    BY <2>1
  <2>4. QED BY <2>2, <2>3
<1>5. QED BY <1>1, <1>2, <1>3, <1>4 DEF Tidy

\* Nor is there anything to undo in a program that neither enables nor installs.
LEMMA PlainIsShaped ==
  ASSUME NEW s, NEW n \in Nat \ {0}, Len(s) = n,
         \A i \in 1 .. n : s[i].op # "pb_init",
         \A i \in 1 .. n : s[i].op # "en",
         \A i \in 1 .. n : s[i].op # "capture",
         \A i \in 1 .. n : s[i].op = "check" => s[i].skip = 0
  PROVE  Shaped(s, n, 1, 1, {})
<1>1. n \in Nat /\ 1 \in 1 .. n
  OBVIOUS
<1>2. ASSUME NEW i \in 1 .. n PROVE ~(i < 1)
  OBVIOUS
<1>3. QED BY <1>1, <1>2 DEF Shaped

\* The check of TestInterruptMasking that passes over Release if it fails.
Passing(n) == IF n = 10 THEN {13} ELSE {}

\* Every test of the suite undoes what it sets up, and there is no instruction
\* to be skipped to that is not there.
LEMMA Tests ==
  /\ Len(Programs) = 16
  /\ \A n \in 1 .. 16 : Len(Programs[n]) \in Nat \ {0}
  /\ \A n \in 2 .. 16 : Tidy(Programs[n], Passing(n))
<1> USE DEF En, Acknowledge, Ack, Alarm, Time, ReadTime, High, ReadHigh, Capture, Release, PollCaptures,
            PollLatched, PollLatchedUntil, Spin, Sleep, Log, Check, CheckValue, Quiet, ArmAhead
<1>1. Shaped(AlarmUnprogrammed, 14, 13, 10, {})
  BY DEF Shaped, AlarmUnprogrammed
<1>2. Shaped(AlarmTargetZero, 13, 12, 10, {})
  BY DEF Shaped, AlarmTargetZero
<1>3. Shaped(AlarmRearm, 12, 10, 11, {})
  BY DEF Shaped, AlarmRearm
<1>4. Shaped(AlarmAdjustPreservesPendingFlag, 22, 20, 22, {})
  BY DEF Shaped, AlarmAdjustPreservesPendingFlag
<1>5. Shaped(AlarmRolloverAndPeriodicity, 12, 10, 11, {})
  BY DEF Shaped, AlarmRolloverAndPeriodicity
<1>6. Shaped(AlarmSetInThePast, 13, 11, 12, {})
  BY DEF Shaped, AlarmSetInThePast
<1>7. Shaped(AlarmUnalignedTarget, 11, 9, 10, {})
  BY DEF Shaped, AlarmUnalignedTarget
<1>8. Shaped(RegisterBitmasks, 7, 1, 1, {})
  BY DEF Shaped, RegisterBitmasks
<1>9. Shaped(InterruptMasking, 21, 20, 18, {13})
  BY DEF Shaped, InterruptMasking
<1>10. Shaped(AlarmFlagIsSetWhileMasked, 20, 18, 20, {})
  BY DEF Shaped, AlarmFlagIsSetWhileMasked
<1>11. Shaped(AlarmFlagIsSetWhileMaskedResetTime, 14, 12, 14, {})
  BY DEF Shaped, AlarmFlagIsSetWhileMaskedResetTime
<1>12. Shaped(InterruptAcknowledge, 14, 2, 1, {})
  BY DEF Shaped, InterruptAcknowledge
<1>13. Shaped(TimeRegisterReadWrite, 47, 1, 1, {})
  <2> DEFINE s == TimeRegisterReadWrite
  <2>1. Len(s) = 47
    BY DEF TimeRegisterReadWrite
  <2>2. \A i \in 1 .. 47 : s[i].op # "pb_init"
    BY DEF TimeRegisterReadWrite
  <2>3. \A i \in 1 .. 47 : s[i].op # "en"
    BY DEF TimeRegisterReadWrite
  <2>4. \A i \in 1 .. 47 : s[i].op # "capture"
    BY DEF TimeRegisterReadWrite
  <2>5. \A i \in 1 .. 47 : s[i].op = "check" => s[i].skip = 0
    BY DEF TimeRegisterReadWrite
  <2> HIDE DEF s
  <2>6. 47 \in Nat \ {0}
    OBVIOUS
  <2>7. Shaped(s, 47, 1, 1, {})
    BY <2>1, <2>2, <2>5, <2>3, <2>4, <2>6, PlainIsShaped
  <2>8. QED BY <2>7 DEF s
<1>14. Shaped(TimeRegisterRollover, 10, 1, 1, {})
  BY DEF Shaped, TimeRegisterRollover
<1>15. Shaped(ZeroDivisorClock, 18, 14, 1, {})
  BY DEF Shaped, ZeroDivisorClock
<1>16. Len(BootAlarm) = 6
  BY DEF BootAlarm
<1> HIDE DEF En, Acknowledge, Ack, Alarm, Time, ReadTime, High, ReadHigh, Capture, Release, PollCaptures,
            PollLatched, PollLatchedUntil, Spin, Sleep, Log, Check, CheckValue, Quiet, ArmAhead
<1>17. Tidy(AlarmUnprogrammed, {}) /\ Len(AlarmUnprogrammed) = 14
  BY <1>1, ShapedIsTidy
<1>18. Tidy(AlarmTargetZero, {}) /\ Len(AlarmTargetZero) = 13
  BY <1>2, ShapedIsTidy
<1>19. Tidy(AlarmRearm, {}) /\ Len(AlarmRearm) = 12
  BY <1>3, ShapedIsTidy
<1>20. Tidy(AlarmAdjustPreservesPendingFlag, {}) /\ Len(AlarmAdjustPreservesPendingFlag) = 22
  BY <1>4, ShapedIsTidy
<1>21. Tidy(AlarmRolloverAndPeriodicity, {}) /\ Len(AlarmRolloverAndPeriodicity) = 12
  BY <1>5, ShapedIsTidy
<1>22. Tidy(AlarmSetInThePast, {}) /\ Len(AlarmSetInThePast) = 13
  BY <1>6, ShapedIsTidy
<1>23. Tidy(AlarmUnalignedTarget, {}) /\ Len(AlarmUnalignedTarget) = 11
  BY <1>7, ShapedIsTidy
<1>24. Tidy(RegisterBitmasks, {}) /\ Len(RegisterBitmasks) = 7
  BY <1>8, ShapedIsTidy
<1>25. Tidy(InterruptMasking, {13}) /\ Len(InterruptMasking) = 21
  BY <1>9, ShapedIsTidy
<1>26. Tidy(AlarmFlagIsSetWhileMasked, {}) /\ Len(AlarmFlagIsSetWhileMasked) = 20
  BY <1>10, ShapedIsTidy
<1>27. Tidy(AlarmFlagIsSetWhileMaskedResetTime, {}) /\ Len(AlarmFlagIsSetWhileMaskedResetTime) = 14
  BY <1>11, ShapedIsTidy
<1>28. Tidy(InterruptAcknowledge, {}) /\ Len(InterruptAcknowledge) = 14
  BY <1>12, ShapedIsTidy
<1>29. Tidy(TimeRegisterReadWrite, {}) /\ Len(TimeRegisterReadWrite) = 47
  BY <1>13, ShapedIsTidy
<1>30. Tidy(TimeRegisterRollover, {}) /\ Len(TimeRegisterRollover) = 10
  BY <1>14, ShapedIsTidy
<1>31. Tidy(ZeroDivisorClock, {}) /\ Len(ZeroDivisorClock) = 18
  BY <1>15, ShapedIsTidy
<1>32. Len(Programs) = 16
  BY DEF Programs
<1>33. /\ Programs[2] = AlarmUnprogrammed
       /\ Programs[3] = AlarmTargetZero
       /\ Programs[4] = AlarmRearm
       /\ Programs[5] = AlarmAdjustPreservesPendingFlag
       /\ Programs[6] = AlarmRolloverAndPeriodicity
       /\ Programs[7] = AlarmSetInThePast
       /\ Programs[8] = AlarmUnalignedTarget
       /\ Programs[9] = RegisterBitmasks
       /\ Programs[10] = InterruptMasking
       /\ Programs[11] = AlarmFlagIsSetWhileMasked
       /\ Programs[12] = AlarmFlagIsSetWhileMaskedResetTime
       /\ Programs[13] = InterruptAcknowledge
       /\ Programs[14] = TimeRegisterReadWrite
       /\ Programs[15] = TimeRegisterRollover
       /\ Programs[16] = ZeroDivisorClock
  BY DEF Programs
<1>34. Programs[1] = BootAlarm /\ 6 \in Nat \ {0}
  BY DEF Programs
<1>35. \A n \in 2 .. 16 \ {10} : Tidy(Programs[n], {}) /\ Len(Programs[n]) \in 1 .. 47
  <2> SUFFICES ASSUME NEW n \in 2 .. 16 \ {10}
               PROVE  Tidy(Programs[n], {}) /\ Len(Programs[n]) \in 1 .. 47
    OBVIOUS
  <2>1. \/ n = 2 \/ n = 3 \/ n = 4 \/ n = 5 \/ n = 6 \/ n = 7 \/ n = 8 \/ n = 9
        \/ n = 11 \/ n = 12 \/ n = 13 \/ n = 14 \/ n = 15 \/ n = 16
    OBVIOUS
  <2>2. QED BY <2>1, <1>33, <1>17, <1>18, <1>19, <1>20, <1>21, <1>22, <1>23, <1>24,
         <1>25, <1>26, <1>27, <1>28, <1>29, <1>30, <1>31
<1>36. Tidy(Programs[10], {13}) /\ Len(Programs[10]) \in 1 .. 47
  BY <1>33, <1>25
<1>37. Len(Programs[1]) \in 1 .. 47
  BY <1>16, <1>34
<1>38. \A n \in 1 .. 16 : Len(Programs[n]) \in Nat \ {0}
  <2>1. \A n \in 1 .. 16 : n = 1 \/ n = 10 \/ n \in 2 .. 16 \ {10}
    OBVIOUS
  <2>2. 1 .. 47 \subseteq Nat \ {0}
    OBVIOUS
  <2>3. QED BY <1>35, <1>36, <1>37, <2>1, <2>2
<1>39. ASSUME NEW n \in 2 .. 16 PROVE Tidy(Programs[n], Passing(n))
  <2>1. CASE n = 10
    BY <1>36, <2>1 DEF Passing
  <2>2. CASE n # 10
    BY <1>35, <2>2 DEF Passing
  <2>3. QED BY <2>1, <2>2
<1>40. QED BY <1>32, <1>38, <1>39

\* The first instructions of TestInterruptMasking, and those its failing check goes to.
LEMMA MaskingTest ==
  LET s == Programs[10] IN
  /\ Len(s) = 21
  /\ s[1].op = "log" /\ s[2].op = "en" /\ s[3].op = "ack"
  /\ s[4].op = "time" /\ s[4].base = "zero" /\ s[4].off = 0
  /\ s[5].op = "alarm" /\ s[5].base = "zero" /\ s[5].off = Offset
  /\ s[6].op = "capture" /\ s[7].op = "en" /\ s[8].op = "en" /\ s[8].value = 0 /\ s[9].op = "log"
  /\ s[10].op = "spin" /\ s[10].while = NotOver /\ s[11].op = "log"
  /\ s[12].op = "check" /\ s[12].skip = 0
  /\ s[13].op = "check" /\ s[13].what = "pending" /\ s[13].skip = 6
  /\ s[20].op = "en" /\ s[21].op = "ack"
<1>1. Programs[10] = InterruptMasking
  BY DEF Programs
<1>2. QED
  BY <1>1 DEF InterruptMasking, Quiet, Log, En, Ack, Acknowledge, Time, Alarm, Capture, Spin, Check,
              Sleep, Release

\* The first instructions of TestAlarmFlagIsSetWhileMasked, which runs after it.
LEMMA AfterMasking ==
  LET s == Programs[11] IN
  /\ Len(s) = 20
  /\ s[1].op = "log" /\ s[2].op = "en" /\ s[3].op = "ack" /\ s[4].op = "capture"
<1>1. Programs[11] = AlarmFlagIsSetWhileMasked
  BY DEF Programs
<1>2. QED
  BY <1>1 DEF AlarmFlagIsSetWhileMasked, Quiet, ArmAhead, Log, En, Ack, Acknowledge, Alarm, Capture, Check,
              Sleep, Release, ReadTime, PollLatched

\* What runs before the tests checks nothing and sets no callback.
LEMMA FirstProgram ==
  \A i \in 1 .. Len(Programs[1]) :
    Programs[1][i].op # "check" /\ Programs[1][i].op # "capture" /\ Programs[1][i].op # "en"
<1>1. Programs[1] = BootAlarm
  BY DEF Programs
<1>2. Len(BootAlarm) = 6
  BY DEF BootAlarm
<1>3. \A i \in 1 .. 6 : BootAlarm[i].op # "check" /\ BootAlarm[i].op # "capture" /\ BootAlarm[i].op # "en"
  BY DEF BootAlarm, Ack, Acknowledge, Time, PollLatched
<1>4. QED BY <1>1, <1>2, <1>3

\* The interrupt is disabled in the second program whatever pb_init has left.
LEMMA OffAtFirst == OffAhead(Programs[2], 1)
<1>1. Programs[2] = AlarmUnprogrammed
  BY DEF Programs
<1>2. Len(AlarmUnprogrammed) = 14 /\ AlarmUnprogrammed[2].op = "en" /\ AlarmUnprogrammed[2].value = 0
      /\ AlarmUnprogrammed[1].op = "log"
  BY DEF AlarmUnprogrammed, Quiet, Log, En, Ack, Acknowledge, Capture, Alarm, Time, PollCaptures, Release, Check
<1>3. Reached(AlarmUnprogrammed, 2, {})
  BY <1>2 DEF Reached
<1>4. QED BY <1>1, <1>2, <1>3 DEF OffAhead

-----------------------------------------------------------------------------
(* Where the thread stands *)

Types ==
    /\ test \in 1 .. 17 /\ pc \in Nat \ {0}
    /\ test \in 1 .. 16 => pc <= Len(Programs[test])
    /\ test = 17 => pc = 1
    /\ late \in 0 .. Delay
    /\ ptimer_alarm_fired_callback \in BOOLEAN
    /\ fault = "none" => armed = TRUE

\* An instruction that fails its check passes over the next ones.
PassesOver ==
    /\ instruction.op = "check" /\ instruction.skip # 0 /\ ~Holds(instruction.what)
    /\ test' = test /\ pc' = pc + instruction.skip + 1

Stays == UNCHANGED <<test, pc>>

\* A step that neither enables or disables the interrupt nor sets the callback.
Passive ==
    /\ ~Ended /\ instruction.op \notin {"en", "pb_init", "capture", "release"}
    /\ UNCHANGED <<intr_en_0, ptimer_alarm_fired_callback>>
    /\ Advance \/ Stays \/ PassesOver

\* What the steps have in common.
LEMMA Steps ==
  ASSUME Thread
  PROVE  WriteEnable \/ PbInit \/ CaptureStep \/ ReleaseStep \/ Passive
<1> USE DEF Passive, Stays, Round, At, registers, isr
<1>1. CASE WriteAck  BY <1>1 DEF WriteAck
<1>2. CASE WriteAlarm  BY <1>2 DEF WriteAlarm
<1>3. CASE WriteTime  BY <1>3 DEF WriteTime
<1>4. CASE WriteHigh  BY <1>4 DEF WriteHigh
<1>5. CASE ReadTimeStep  BY <1>5 DEF ReadTimeStep
<1>6. CASE ReadHighStep  BY <1>6 DEF ReadHighStep
<1>7. CASE SaveRegisters  BY <1>7 DEF SaveRegisters
<1>8. CASE PollCaptureCount  BY <1>8 DEF PollCaptureCount
<1>9. CASE PollCaptureTime  BY <1>9 DEF PollCaptureTime
<1>10. CASE PollInterrupt  BY <1>10 DEF PollInterrupt
<1>11. CASE PollTime  BY <1>11 DEF PollTime
<1>12. CASE SpinStep  BY <1>12 DEF SpinStep
<1>13. CASE SleepStep  BY <1>13 DEF SleepStep
<1>14. CASE LogStep  BY <1>14 DEF LogStep
<1>15. CASE CheckStep  BY <1>15 DEF CheckStep, PassesOver
<1>16. QED
  BY <1>1, <1>2, <1>3, <1>4, <1>5, <1>6, <1>7, <1>8, <1>9, <1>10, <1>11, <1>12, <1>13, <1>14, <1>15 DEF Thread

\* Each instruction has its action, and none changes what is wrong with the PTIMER.
LEMMA Dispatch ==
  ASSUME Thread
  PROVE  /\ ~Ended /\ fault' = fault
         /\ instruction.op = "en" => WriteEnable
         /\ instruction.op = "ack" => WriteAck
         /\ instruction.op = "alarm" => WriteAlarm
         /\ instruction.op = "time" => WriteTime
         /\ instruction.op = "capture" => CaptureStep
         /\ instruction.op = "spin" => SpinStep
         /\ instruction.op = "log" => LogStep
         /\ instruction.op = "check" => CheckStep
         /\ instruction.op = "sleep" => SleepStep
         /\ instruction.op = "read" => ReadTimeStep
         /\ instruction.op = "high" => WriteHigh
         /\ instruction.op = "read_high" => ReadHighStep
         /\ instruction.op = "release" => ReleaseStep
         /\ instruction.op = "pb_init" => PbInit
         /\ instruction.op = "save" => SaveRegisters
         /\ instruction.op = "captures" => PollCaptureCount \/ PollCaptureTime
         /\ instruction.op = "latched" => PollInterrupt \/ PollTime
BY DEF Thread, At, registers, WriteEnable, WriteAck, WriteAlarm, WriteTime, WriteHigh, ReadTimeStep,
       ReadHighStep, CaptureStep, ReleaseStep, PbInit, SaveRegisters, PollCaptureCount, PollCaptureTime,
       PollInterrupt, PollTime, SpinStep, SleepStep, LogStep, CheckStep

\* The thread, in one of the tests or in post_init_.
LEMMA Here ==
  ASSUME Types
  PROVE  /\ Ended <=> test = 17
         /\ ~Ended => test \in 1 .. 16 /\ Len(Programs[test]) \in Nat \ {0} /\ pc \in 1 .. Len(Programs[test])
         /\ Ended' <=> test' > 16
<1>1. Len(Programs) = 16 /\ \A n \in 1 .. 16 : Len(Programs[n]) \in Nat \ {0}
  BY Tests
<1>2. (Ended <=> test > 16) /\ (Ended' <=> test' > 16)
  BY <1>1 DEF Ended
<1>3. test \in 1 .. 17 /\ pc \in Nat \ {0} /\ (test \in 1 .. 16 => pc <= Len(Programs[test]))
  BY DEF Types
<1>4. Ended <=> test = 17
  BY <1>2, <1>3
<1>5. ASSUME ~Ended PROVE test \in 1 .. 16 /\ Len(Programs[test]) \in Nat \ {0} /\ pc \in 1 .. Len(Programs[test])
  <2>1. test \in 1 .. 16
    BY <1>3, <1>4, <1>5
  <2>2. Len(Programs[test]) \in Nat \ {0} /\ pc <= Len(Programs[test])
    BY <1>1, <1>3, <2>1
  <2>3. QED BY <1>3, <2>1, <2>2
<1>6. QED BY <1>2, <1>4, <1>5

\* The types of what the thread, the counter and the handler work on.
LEMMA TypesStep ==
  ASSUME Types, [Next]_vars
  PROVE  Types'
<1>1. Delay \in Nat /\ late \in 0 .. Delay /\ \A n \in 1 .. 16 : Len(Programs[n]) \in Nat \ {0}
  BY Tests, ScaleAssumption DEF Types
<1>2. fault = "none" /\ fault' = fault => armed' = TRUE
  <2> SUFFICES ASSUME fault = "none", fault' = fault PROVE armed' = TRUE
    OBVIOUS
  <2>1. armed = TRUE
    BY DEF Types
  <2>2. CASE Tick
    BY <2>1, <2>2 DEF Tick
  <2>3. CASE Thread
    BY <2>1, <2>3 DEF Thread, WriteEnable, WriteAck, WriteAlarm, WriteTime, WriteHigh, ReadTimeStep, ReadHighStep,
       CaptureStep, ReleaseStep, PbInit, SaveRegisters, PollCaptureCount, PollCaptureTime, PollInterrupt,
       PollTime, SpinStep, SleepStep, LogStep, CheckStep, registers
  <2>4. QED BY <2>1, <2>2, <2>3 DEF Next, Interrupt, End, vars, registers
<1>3. fault' = fault
  BY DEF Next, Tick, Interrupt, End, Thread, WriteEnable, WriteAck, WriteAlarm, WriteTime, WriteHigh, ReadTimeStep,
     ReadHighStep, CaptureStep, ReleaseStep, PbInit, SaveRegisters, PollCaptureCount, PollCaptureTime,
     PollInterrupt, PollTime, SpinStep, SleepStep, LogStep, CheckStep, registers, vars
<1>4. ptimer_alarm_fired_callback' \in BOOLEAN
  <2>1. ptimer_alarm_fired_callback \in BOOLEAN
    BY DEF Types
  <2>2. CASE Thread
    BY <2>1, <2>2, Steps DEF WriteEnable, PbInit, CaptureStep, ReleaseStep, Passive, isr
  <2>3. QED BY <2>1, <2>2 DEF Next, Tick, Interrupt, End, isr, vars
<1>5. late' \in 0 .. Delay
  <2>1. CASE Tick
    BY <1>1, <2>1 DEF Tick
  <2>2. late' = late \/ late' = 0 => late' \in 0 .. Delay
    <3>1. late \in 0 .. Delay /\ 0 \in 0 .. Delay
      BY <1>1
    <3>2. QED BY <3>1
  <2>3. CASE Thread
    <3>1. Advance \/ (\E b \in BOOLEAN : Round(b)) \/ UNCHANGED late
      BY <2>3 DEF Thread, WriteEnable, WriteAck, WriteAlarm, WriteTime, WriteHigh, ReadTimeStep, ReadHighStep,
         CaptureStep, ReleaseStep, PbInit, SaveRegisters, PollCaptureCount, PollCaptureTime, PollInterrupt,
         PollTime, SpinStep, SleepStep, LogStep, CheckStep
    <3>2. late' = late \/ late' = 0
      BY <3>1 DEF Advance, Round
    <3>3. QED BY <2>2, <3>2
  <2>4. QED BY <2>1, <2>2, <2>3 DEF Next, Interrupt, End, vars
<1>6. /\ test' \in 1 .. 17 /\ pc' \in Nat \ {0} /\ (test' \in 1 .. 16 => pc' <= Len(Programs[test']))
      /\ (test' = 17 => pc' = 1)
  <2>1. /\ test \in 1 .. 17 /\ pc \in Nat \ {0} /\ (test \in 1 .. 16 => pc <= Len(Programs[test]))
        /\ (test = 17 => pc = 1)
    BY DEF Types
  <2>2. CASE Stays
    BY <2>1, <2>2 DEF Stays
  <2>3. CASE ~Ended /\ Advance
    <3>1. test \in 1 .. 16 /\ Len(Programs[test]) \in Nat \ {0}
      BY <2>3, Here
    <3>2. CASE pc < Len(Programs[test])
      <4>1. pc' = pc + 1 /\ test' = test
        BY <2>3, <3>2 DEF Advance
      <4>2. QED BY <2>1, <3>1, <3>2, <4>1
    <3>3. CASE ~(pc < Len(Programs[test]))
      <4>1. pc' = 1 /\ test' = test + 1
        BY <2>3, <3>3 DEF Advance
      <4>2. test' \in 1 .. 16 => Len(Programs[test']) \in Nat \ {0}
        BY <1>1
      <4>3. QED BY <3>1, <4>1, <4>2
    <3>4. QED BY <3>2, <3>3
  <2>4. CASE ~Ended /\ PassesOver
    <3>1. test \in 1 .. 16 /\ pc \in 1 .. Len(Programs[test]) /\ Len(Programs[test]) \in Nat
      BY <2>4, Here
    <3>2. test # 1
      BY <2>4, <3>1, FirstProgram DEF PassesOver, instruction
    <3>3. instruction.skip \in Nat /\ pc + instruction.skip < Len(Programs[test])
      <4>1. test \in 2 .. 16
        BY <3>1, <3>2
      <4>2. Tidy(Programs[test], Passing(test))
        BY <4>1, Tests
      <4>3. QED BY <2>4, <3>1, <4>2 DEF Tidy, PassesOver, instruction
    <3>4. pc' = pc + instruction.skip + 1 /\ test' = test
      BY <2>4 DEF PassesOver
    <3>5. QED BY <2>1, <3>1, <3>3, <3>4
  <2>5. CASE Thread
    BY <2>2, <2>3, <2>4, <2>5, Steps DEF WriteEnable, PbInit, CaptureStep, ReleaseStep, Passive, At
  <2>6. QED BY <2>2, <2>5 DEF Next, Tick, Interrupt, End, Stays, vars
<1>7. QED BY <1>2, <1>3, <1>4, <1>5, <1>6 DEF Types

-----------------------------------------------------------------------------
(* The interrupt is disabled again *)

\* In a test, what is enabled will be disabled.  Nothing is known of INTR_EN_0
\* before the first test, where pb_init has set it.
OffInv ==
    test >= 2 /\ intr_en_0 # 0 =>
      ~Ended /\ OffAhead(Programs[test], pc) /\ (pc = 1 => test = 2)

\* Where the disabling instruction is further on, it is not the last.
LEMMA OffOnward ==
  ASSUME Types, ~Ended, Advance, OffAhead(Programs[test], pc + 1)
  PROVE  ~Ended' /\ OffAhead(Programs[test'], pc') /\ pc' # 1
<1>1. test \in 1 .. 16 /\ Len(Programs[test]) \in Nat \ {0} /\ pc \in 1 .. Len(Programs[test])
  BY Here
<1>2. pc < Len(Programs[test])
  BY <1>1 DEF OffAhead
<1>3. test' = test /\ pc' = pc + 1
  BY <1>2 DEF Advance
<1>4. ~Ended'
  BY <1>1, <1>3, Here
<1>5. QED BY <1>1, <1>3, <1>4

\* An instruction that does not disable it leaves that to the ones after it,
\* and one that passes over others does not pass over that.
LEMMA OffLeft ==
  ASSUME Types, ~Ended, OffAhead(Programs[test], pc), instruction.op # "en"
  PROVE  /\ OffAhead(Programs[test], pc + 1)
         /\ PassesOver => OffAhead(Programs[test], pc') /\ pc' # 1
<1> DEFINE s == Programs[test]
<1>1. Len(s) \in Nat \ {0} /\ pc \in 1 .. Len(s) /\ instruction = s[pc]
  BY Here DEF instruction
<1>2. PICK k \in pc .. Len(s) : s[k].op = "en" /\ s[k].value = 0 /\ Reached(s, k, {})
  BY DEF OffAhead
<1> HIDE DEF s
<1>3. k \in pc + 1 .. Len(s)
  BY <1>1, <1>2
<1>4. ASSUME PassesOver PROVE k \in pc' .. Len(s) /\ pc' # 1
  <2>1. s[pc].op = "check" /\ pc' = pc + s[pc].skip + 1
    BY <1>1, <1>4 DEF PassesOver
  <2>2. pc \in 1 .. k - 1
    BY <1>1, <1>3
  <2>3. pc + s[pc].skip < k
    BY <1>2, <2>1, <2>2 DEF Reached
  <2>4. s[pc].skip \in Nat
    <3>1. test # 1
      BY <1>1, <2>1, FirstProgram, Here DEF s
    <3>2. test \in 2 .. 16
      BY <3>1, Here
    <3>3. Tidy(s, Passing(test))
      BY <3>2, Tests DEF s
    <3>4. QED BY <1>1, <2>1, <3>3 DEF Tidy
  <2>5. QED BY <1>1, <1>3, <2>1, <2>3, <2>4
<1>5. QED BY <1>2, <1>3, <1>4 DEF OffAhead, s

\* While it is enabled, disabling it stays ahead of the thread, whatever the step.
LEMMA OffStep ==
  ASSUME Types, OffInv, [Next]_vars
  PROVE  OffInv'
<1> SUFFICES ASSUME test' >= 2, intr_en_0' # 0 
             PROVE  ~Ended' /\ OffAhead(Programs[test'], pc') /\ (pc' = 1 => test' = 2)
  BY DEF OffInv
<1>1. CASE UNCHANGED <<test, pc, intr_en_0>>
  BY <1>1, Here DEF OffInv, Ended
<1>2. CASE ~Ended /\ Advance /\ test = 1
  <2>1. test' = 2 /\ pc' = 1
    BY <1>2 DEF Advance
  <2>2. QED BY <2>1, OffAtFirst, Here
<1>3. ASSUME ~Ended, Advance, test # 1, intr_en_0 # 0, instruction.op # "en"
      PROVE  ~Ended' /\ OffAhead(Programs[test'], pc') /\ pc' # 1
  <2>1. test >= 2
    BY <1>3, Here
  <2>2. OffAhead(Programs[test], pc + 1)
    BY <1>3, <2>1, OffLeft DEF OffInv
  <2>3. QED BY <1>3, <2>2, OffOnward
<1>4. CASE WriteEnable
  <2>1. ~Ended /\ Advance /\ instruction.op = "en" /\ instruction.value # 0
    BY <1>4 DEF WriteEnable, At
  <2>2. CASE test = 1
    BY <1>2, <2>1, <2>2
  <2>3. CASE test # 1
    <3>1. test \in 2 .. 16 /\ pc \in 1 .. Len(Programs[test])
      BY <2>1, <2>3, Here
    <3>2. Tidy(Programs[test], Passing(test))
      BY <3>1, Tests
    <3>3. OffAhead(Programs[test], pc + 1)
      BY <2>1, <3>1, <3>2 DEF Tidy, instruction
    <3>4. QED BY <2>1, <3>3, OffOnward
  <2>4. QED BY <2>2, <2>3
<1>5. CASE PbInit
  <2>1. ~Ended /\ Advance /\ instruction.op = "pb_init"
    BY <1>5 DEF PbInit, At
  <2>2. test = 1
    <3> SUFFICES ASSUME test # 1 PROVE FALSE
      OBVIOUS
    <3>1. test \in 2 .. 16 /\ pc \in 1 .. Len(Programs[test])
      BY <2>1, Here
    <3>2. Tidy(Programs[test], Passing(test))
      BY <3>1, Tests
    <3>3. QED BY <2>1, <3>1, <3>2 DEF Tidy, instruction
  <2>3. QED BY <1>2, <2>1, <2>2
<1>6. CASE CaptureStep \/ ReleaseStep
  <2>1. ~Ended /\ Advance /\ intr_en_0' = intr_en_0 /\ instruction.op # "en"
    BY <1>6 DEF CaptureStep, ReleaseStep, At, registers
  <2>2. QED BY <1>2, <1>3, <2>1
<1>7. CASE Passive
  <2>1. ~Ended /\ intr_en_0' = intr_en_0 /\ instruction.op # "en" /\ (Advance \/ Stays \/ PassesOver)
    BY <1>7 DEF Passive
  <2>2. CASE Advance
    BY <1>2, <1>3, <2>1, <2>2
  <2>3. CASE Stays
    BY <1>1, <2>1, <2>3 DEF Stays
  <2>4. CASE PassesOver
    <3>1. test' = test
      BY <2>4 DEF PassesOver
    <3>2. OffAhead(Programs[test], pc)
      BY <2>1, <3>1 DEF OffInv
    <3>3. QED BY <2>1, <2>4, <3>1, <3>2, OffLeft, Here
  <2>5. QED BY <2>1, <2>2, <2>3, <2>4
<1>8. QED
  BY <1>1, <1>4, <1>5, <1>6, <1>7, Steps DEF Next, Tick, Interrupt, End, vars, registers

-----------------------------------------------------------------------------
(* TestInterruptMasking *)

\* On a PTIMER that works its alarm is raised while it is masked: TIME_0 starts
\* below ALARM_0 and has not come to it before the interrupt is disabled.
Masked ==
    fault = "none" /\ test = 10 =>
      /\ pc \in 5 .. 13 => time_0 \in 0 .. N - 1
      /\ pc \in 5 .. 9 => time_0 <= late
      /\ pc \in 6 .. 13 => alarm_0 = Offset
      /\ pc \in 9 .. 13 => intr_en_0 = 0 /\ (time_0 < Offset \/ intr_0 = 1)
      /\ pc \in 11 .. 13 => intr_0 = 1

\* A time that is not beyond the counter.
LEMMA Round0 ==
  ASSUME NEW a \in 0 .. N - 1
  PROVE  (a + N) % N = a
<1>1. N \in Nat
  BY ScaleAssumption
<1> DEFINE q == (a + N) \div N
           r == (a + N) % N
<1>2. N > 0
  BY <1>1
<1>3. q \in Int /\ r \in 0 .. N - 1 /\ a + N = N * q + r
  BY <1>1, <1>2
<1> HIDE DEF q, r
<1>4. \A k \in Int : (k >= 2 => N * k >= N + N) /\ (k <= 0 => N * k <= 0)
  BY <1>1
<1>5. q = 1
  BY <1>1, <1>3, <1>4
<1>6. N * 1 = N
  BY <1>1
<1>7. r = a
  BY <1>1, <1>3, <1>5, <1>6
<1>8. QED BY <1>7 DEF r

\* The sizes that matter here.
LEMMA Sizes ==
  /\ N \in Nat /\ Offset \in Nat /\ Over \in Nat /\ Delay \in Nat
  /\ Delay < Offset /\ Offset + Over < N
BY ScaleAssumption

\* The counter.
LEMMA MaskedTick ==
  ASSUME Types, Masked, Tick
  PROVE  Masked'
<1> SUFFICES ASSUME fault' = "none", test' = 10 PROVE Masked'
  BY DEF Masked
<1>1. /\ fault = "none" /\ test = 10 /\ armed = TRUE /\ late \in Nat /\ late' = late + 1
      /\ UNCHANGED <<pc, alarm_0, intr_en_0, test, fault>>
      /\ time_0' = (time_0 + 1) % N
      /\ intr_0' = IF Latches(time_0') THEN 1 ELSE intr_0
  BY DEF Tick, Types
<1>2. pc \in 5 .. 13 => time_0' \in 0 .. N - 1 /\ (time_0' = time_0 + 1 \/ time_0 = N - 1)
  <2> SUFFICES ASSUME pc \in 5 .. 13
               PROVE  time_0' \in 0 .. N - 1 /\ (time_0' = time_0 + 1 \/ time_0 = N - 1)
    OBVIOUS
  <2>1. time_0 \in 0 .. N - 1
    BY <1>1 DEF Masked
  <2>2. CASE time_0 = N - 1
    <3>1. time_0 + 1 = 0 + N /\ 0 \in 0 .. N - 1
      BY <2>1, <2>2, Sizes
    <3>2. (0 + N) % N = 0
      BY <3>1, Round0
    <3>3. QED BY <1>1, <2>2, <3>1, <3>2
  <2>3. CASE time_0 # N - 1
    <3>1. time_0 + 1 \in 0 .. N - 1
      BY <2>1, <2>3, Sizes
    <3>2. (time_0 + 1) % N = time_0 + 1
      BY <3>1, Sizes
    <3>3. QED BY <1>1, <3>1, <3>2
  <2>4. QED BY <2>2, <2>3
<1>3. ASSUME pc \in 5 .. 9 PROVE time_0' <= late'
  <2>1. time_0 \in 0 .. N - 1 /\ time_0 <= late /\ late \in 0 .. Delay
    BY <1>1, <1>3 DEF Masked, Types
  <2>2. time_0 # N - 1
    BY <2>1, Sizes
  <2>3. time_0' = time_0 + 1
    BY <1>2, <1>3, <2>2
  <2>4. QED BY <1>1, <2>1, <2>3
<1>4. ASSUME pc \in 9 .. 13 PROVE time_0' < Offset \/ intr_0' = 1
  <2>1. time_0 \in 0 .. N - 1 /\ (time_0 < Offset \/ intr_0 = 1) /\ alarm_0 = Offset
    BY <1>1, <1>4 DEF Masked
  <2>2. CASE intr_0 = 1
    BY <1>1, <2>2
  <2>3. CASE time_0 < Offset
    <3>1. time_0' = time_0 + 1
      BY <1>2, <1>4, <2>1, <2>3, Sizes
    <3>2. CASE time_0' = Offset
      <4>1. Latches(time_0')
        BY <1>1, <2>1, <3>2, Sizes DEF Latches
      <4>2. QED BY <1>1, <4>1
    <3>3. CASE time_0' # Offset
      BY <2>1, <2>3, <3>1, <3>3, Sizes
    <3>4. QED BY <3>2, <3>3
  <2>4. QED BY <2>1, <2>2, <2>3
<1>5. pc \in 11 .. 13 => intr_0' = 1
  BY <1>1 DEF Masked
<1>6. QED BY <1>1, <1>2, <1>3, <1>4, <1>5 DEF Masked

\* The thread, instruction by instruction.
LEMMA MaskedThread ==
  ASSUME Types, Masked, Thread
  PROVE  Masked'
<1> SUFFICES ASSUME fault' = "none", test' = 10, pc' \in 5 .. 13 PROVE Masked'
  BY DEF Masked
<1>1. fault = "none" /\ test = 10 /\ ~Ended /\ instruction = Programs[10][pc] /\ pc \in 1 .. 13
  <2>1. fault' = fault /\ ~Ended
    BY Dispatch
  <2>2. Advance \/ Stays \/ PassesOver
    BY Steps DEF WriteEnable, PbInit, CaptureStep, ReleaseStep, Passive
  <2>3. test' = test
    BY <2>2 DEF Advance, Stays, PassesOver
  <2>4. pc \in Nat \ {0} /\ (pc' = pc \/ pc' = pc + 1 \/ PassesOver)
    BY <2>2, <2>3 DEF Advance, Stays, Types
  <2>5. ASSUME PassesOver PROVE pc \in 1 .. 13
    <3>1. pc \in 1 .. Len(Programs[10]) /\ Tidy(Programs[10], Passing(10)) /\ instruction = Programs[10][pc]
      BY <2>1, <2>3, Here, Tests DEF instruction
    <3>2. instruction.skip \in Nat /\ pc' = pc + instruction.skip + 1
      BY <2>5, <3>1 DEF Tidy, PassesOver
    <3>3. QED BY <2>4, <3>2
  <2>6. QED BY <2>1, <2>3, <2>4, <2>5 DEF instruction
<1>2. time_0 \in 0 .. N - 1 \/ pc \in 1 .. 4
  BY <1>1 DEF Masked
<1>3. Len(Programs[10]) = 21 /\ late \in 0 .. Delay
  BY MaskingTest DEF Types
<1> DEFINE Onward == Advance => pc' = pc + 1 /\ late' = IF instruction.op \in Waits THEN 0 ELSE late
<1>4. Onward
  BY <1>1, <1>3 DEF Advance
<1>5. CASE pc \in 1 .. 3
  <2>1. instruction.op \in {"log", "en", "ack"}
    BY <1>1, <1>5, MaskingTest
  <2>2. Advance
    BY <2>1, Dispatch DEF LogStep, WriteEnable, WriteAck
  <2>3. QED BY <1>5, <1>4, <2>2
<1>6. CASE pc = 4
  <2>1. instruction.op = "time" /\ instruction.base = "zero" /\ instruction.off = 0
    BY <1>1, <1>6, MaskingTest
  <2>2. WriteTime
    BY <2>1, Dispatch
  <2>3. Operand = 0
    <3>1. 0 \in 0 .. N - 1
      BY Sizes
    <3>2. (0 + 0 + N) = 0 + N
      BY Sizes
    <3>3. QED BY <2>1, <3>1, <3>2, Round0 DEF Operand, Base
  <2>4. time_0' = 0 /\ pc' = 5 /\ late' = late
    BY <1>6, <1>4, <2>1, <2>2, <2>3 DEF WriteTime, Waits
  <2>5. QED BY <1>3, <2>4, Sizes DEF Masked
<1>7. CASE pc = 5
  <2>1. instruction.op = "alarm" /\ instruction.base = "zero" /\ instruction.off = Offset
    BY <1>1, <1>7, MaskingTest
  <2>2. WriteAlarm
    BY <2>1, Dispatch
  <2>3. Operand = Offset
    <3>1. Offset \in 0 .. N - 1 /\ 0 + Offset + N = Offset + N
      BY Sizes
    <3>2. QED BY <2>1, <3>1, Round0 DEF Operand, Base
  <2>4. time_0' = time_0 /\ alarm_0' = Offset /\ pc' = 6 /\ late' = late
    BY <1>7, <1>4, <2>1, <2>2, <2>3 DEF WriteAlarm, Waits, counter
  <2>5. QED BY <1>1, <1>7, <2>4 DEF Masked
<1>8. CASE pc \in 6 .. 8
  <2>1. instruction.op \in {"capture", "en"} /\ (pc = 8 => instruction.op = "en" /\ instruction.value = 0)
    BY <1>1, <1>8, MaskingTest
  <2>2. CaptureStep \/ WriteEnable
    BY <2>1, Dispatch
  <2>3. time_0' = time_0 /\ alarm_0' = alarm_0 /\ pc' = pc + 1 /\ late' = late
    BY <1>4, <2>1, <2>2 DEF CaptureStep, WriteEnable, Waits, counter, registers
  <2>4. pc = 8 => intr_en_0' = 0
    BY <2>1, <2>2 DEF WriteEnable, CaptureStep, At
  <2>5. time_0 \in 0 .. N - 1 /\ time_0 <= late /\ alarm_0 = Offset
    BY <1>1, <1>8 DEF Masked
  <2>6. time_0 < Offset
    BY <1>3, <2>5, Sizes
  <2>7. pc' \in 7 .. 9 /\ (pc' = 9 => pc = 8)
    BY <1>8, <2>3
  <2>8. QED BY <2>3, <2>4, <2>5, <2>6, <2>7 DEF Masked
<1>9. CASE pc \in 9 .. 13
  <2>1. time_0 \in 0 .. N - 1 /\ alarm_0 = Offset /\ intr_en_0 = 0 /\ (time_0 < Offset \/ intr_0 = 1)
    BY <1>1, <1>9 DEF Masked
  <2>2. instruction.op \in {"log", "spin", "check"}
    BY <1>1, <1>9, MaskingTest
  <2>3. LogStep \/ SpinStep \/ CheckStep
    BY <2>2, Dispatch
  <2>4. UNCHANGED <<time_0, alarm_0, intr_en_0, intr_0>>
    BY <2>3 DEF LogStep, SpinStep, CheckStep, registers, counter
  <2>5. CASE pc = 9
    <3>1. instruction.op = "log"
      BY <1>1, <2>5, MaskingTest
    <3>2. Advance
      BY <2>3, <3>1 DEF LogStep, SpinStep, CheckStep, At
    <3>3. pc' = 10
      BY <1>4, <2>5, <3>2
    <3>4. QED BY <2>1, <2>4, <3>3 DEF Masked
  <2>6. CASE pc = 10
    <3>1. instruction.op = "spin" /\ instruction.while = NotOver
      BY <1>1, <2>6, MaskingTest
    <3>2. SpinStep
      BY <2>3, <3>1 DEF LogStep, CheckStep, At
    <3>3. CASE time_0 \in NotOver
      <4>1. pc' = 10
        BY <2>6, <3>1, <3>2, <3>3 DEF SpinStep, Round
      <4>2. QED BY <2>1, <2>4, <4>1 DEF Masked
    <3>4. CASE time_0 \notin NotOver
      <4>1. pc' = 11
        BY <1>4, <2>6, <3>1, <3>2, <3>4 DEF SpinStep
      <4>2. ~(time_0 < Offset)
        BY <2>1, <3>4, Sizes DEF NotOver
      <4>3. QED BY <2>1, <2>4, <4>1, <4>2 DEF Masked
    <3>5. QED BY <3>3, <3>4
  <2>7. CASE pc \in 11 .. 13
    <3>1. intr_0 = 1
      BY <1>1, <2>7 DEF Masked
    <3>2. pc' \in 12 .. 13
      <4>1. Advance \/ PassesOver
        <5>1. instruction.op \in {"log", "check"}
          BY <1>1, <2>7, MaskingTest
        <5>2. LogStep \/ CheckStep
          BY <2>3, <5>1 DEF SpinStep, At
        <5>3. CASE LogStep
          BY <5>3 DEF LogStep
        <5>4. CASE CheckStep
          BY <5>4 DEF CheckStep, PassesOver, At
        <5>5. QED BY <5>2, <5>3, <5>4
      <4>2. ASSUME PassesOver PROVE pc' > 13
        <5>1. pc = 13 /\ instruction.skip = 6
          BY <1>1, <2>7, <4>2, MaskingTest DEF PassesOver
        <5>2. QED BY <4>2, <5>1 DEF PassesOver
      <4>3. QED BY <1>4, <2>7, <4>1, <4>2
    <3>3. QED BY <2>1, <2>4, <3>1, <3>2 DEF Masked
  <2>8. QED BY <1>9, <2>5, <2>6, <2>7
<1>10. QED BY <1>1, <1>5, <1>6, <1>7, <1>8, <1>9

\* Ticks, interrupts and the thread.
LEMMA MaskedStep ==
  ASSUME Types, Masked, [Next]_vars
  PROVE  Masked'
<1>1. CASE Interrupt
  <2>1. intr_en_0 = 1 /\ UNCHANGED <<time_0, late, alarm_0, intr_en_0, pc, test, fault>>
    BY <1>1 DEF Interrupt, Asserted, counter
  <2>2. fault = "none" /\ test = 10 => pc \notin 9 .. 13
    BY <2>1 DEF Masked
  <2>3. pc \in Nat
    BY DEF Types
  <2>4. QED BY <2>1, <2>2, <2>3 DEF Masked
<1>2. CASE UNCHANGED vars
  BY <1>2 DEF Masked, vars, registers, counter
<1>3. QED BY <1>1, <1>2, MaskedTick, MaskedThread DEF Next, End

-----------------------------------------------------------------------------
(* The callback is removed again *)

\* Between the check that passes over the removal in TestInterruptMasking, if it
\* fails, and the callback that the test after it sets.
Left ==
    \/ test = 10 /\ pc \in 20 .. 21
    \/ test = 11 /\ pc \in 1 .. 4

\* A callback that is set will be removed, but for there; on a PTIMER that works
\* that check does not fail.
ReleaseInv ==
    ptimer_alarm_fired_callback =>
      \/ ~Ended /\ ReleaseAhead(Programs[test], pc, Passing(test)) /\ pc # 1
      \/ fault # "none" /\ Left

\* A callback that is left is left until the next test sets its own.
LEMMA LeftStep ==
  ASSUME Types, Left, Thread
  PROVE  Left' \/ CaptureStep
<1>1. CASE test = 10 /\ pc \in 20 .. 21
  <2>1. instruction.op \in {"en", "ack"} /\ Len(Programs[test]) = 21
    BY <1>1, MaskingTest DEF instruction
  <2>2. Advance
    BY <2>1, Dispatch DEF WriteEnable, WriteAck
  <2>3. QED BY <1>1, <2>1, <2>2 DEF Advance, Left
<1>2. CASE test = 11 /\ pc \in 1 .. 3
  <2>1. instruction.op \in {"log", "en", "ack"} /\ Len(Programs[test]) = 20
    BY <1>2, AfterMasking DEF instruction
  <2>2. Advance
    BY <2>1, Dispatch DEF WriteEnable, WriteAck, LogStep
  <2>3. QED BY <1>2, <2>1, <2>2 DEF Advance, Left
<1>3. CASE test = 11 /\ pc = 4
  <2>1. instruction.op = "capture"
    BY <1>3, AfterMasking DEF instruction
  <2>2. QED BY <2>1, Dispatch
<1>4. QED BY <1>1, <1>2, <1>3 DEF Left

\* Where the removal is further on, it is not the last instruction.
LEMMA ReleaseOnward ==
  ASSUME Types, ~Ended, Advance, ReleaseAhead(Programs[test], pc + 1, Passing(test))
  PROVE  ~Ended' /\ ReleaseAhead(Programs[test'], pc', Passing(test')) /\ pc' # 1
<1>1. test \in 1 .. 16 /\ Len(Programs[test]) \in Nat \ {0} /\ pc \in 1 .. Len(Programs[test])
  BY Here
<1>2. pc < Len(Programs[test])
  BY <1>1 DEF ReleaseAhead
<1>3. test' = test /\ pc' = pc + 1
  BY <1>2 DEF Advance
<1>4. ~Ended'
  BY <1>1, <1>3, Here
<1>5. QED BY <1>1, <1>3, <1>4

\* An instruction that does not remove it leaves that to the ones after it.
LEMMA ReleaseLeft ==
  ASSUME Types, Masked, ~Ended, ReleaseAhead(Programs[test], pc, Passing(test)),
         instruction.op # "release"
  PROVE  /\ ReleaseAhead(Programs[test], pc + 1, Passing(test))
         /\ PassesOver => \/ ReleaseAhead(Programs[test], pc', Passing(test)) /\ pc' # 1
                          \/ fault # "none" /\ Left'
<1> DEFINE s == Programs[test]
           e == Passing(test)
<1>1. Len(s) \in Nat \ {0} /\ pc \in 1 .. Len(s) /\ instruction = s[pc]
  BY Here DEF instruction
<1>2. PICK k \in pc .. Len(s) : s[k].op = "release" /\ Reached(s, k, e)
  BY DEF ReleaseAhead
<1>3. ASSUME PassesOver, pc \in e PROVE fault # "none" /\ Left'
  <2>1. test = 10 /\ pc = 13
    BY <1>3 DEF Passing
  <2>2. fault = "none" => intr_0 = 1
    BY <2>1 DEF Masked
  <2>3. instruction.what = "pending" /\ instruction.skip = 6
    BY <1>1, <2>1, MaskingTest
  <2>4. fault # "none"
    BY <1>3, <2>2, <2>3 DEF PassesOver, Holds
  <2>5. test' = 10 /\ pc' = 20
    BY <1>3, <2>1, <2>3 DEF PassesOver
  <2>6. QED BY <2>4, <2>5 DEF Left
<1> HIDE DEF s, e
<1>4. k \in pc + 1 .. Len(s)
  BY <1>1, <1>2
<1>5. ASSUME PassesOver, pc \notin e PROVE k \in pc' .. Len(s) /\ pc' # 1
  <2>1. s[pc].op = "check" /\ pc' = pc + s[pc].skip + 1
    BY <1>1, <1>5 DEF PassesOver
  <2>2. pc \in (1 .. k - 1) \ e
    BY <1>1, <1>4, <1>5
  <2>3. pc + s[pc].skip < k
    BY <1>2, <2>1, <2>2 DEF Reached
  <2>4. s[pc].skip \in Nat
    <3>1. test # 1
      BY <1>1, <2>1, FirstProgram, Here DEF s
    <3>2. test \in 2 .. 16
      BY <3>1, Here
    <3>3. Tidy(s, Passing(test))
      BY <3>2, Tests DEF s
    <3>4. QED BY <1>1, <2>1, <3>3 DEF Tidy
  <2>5. QED BY <1>1, <1>4, <2>1, <2>3, <2>4
<1>6. ReleaseAhead(s, pc + 1, e) /\ (PassesOver /\ pc \notin e => ReleaseAhead(s, pc', e) /\ pc' # 1)
  BY <1>2, <1>4, <1>5 DEF ReleaseAhead
<1>7. QED BY <1>3, <1>6 DEF s, e

\* A callback that is set always has its removal ahead of it, or is left, whatever the step.
LEMMA ReleaseStepInv ==
  ASSUME Types, Masked, ReleaseInv, [Next]_vars
  PROVE  ReleaseInv'
<1> DEFINE Removed == ~Ended /\ ReleaseAhead(Programs[test], pc, Passing(test)) /\ pc # 1
<1> SUFFICES ASSUME ptimer_alarm_fired_callback'
             PROVE  Removed' \/ (fault # "none" /\ Left')
  <2>1. fault' = fault
    BY Dispatch DEF Next, Tick, Interrupt, End, vars, registers
  <2>2. QED BY <2>1 DEF ReleaseInv
<1>1. CASE UNCHANGED <<test, pc, ptimer_alarm_fired_callback>>
  BY <1>1, Here DEF ReleaseInv, Ended, Left
<1>2. ASSUME ~Ended, Advance, ptimer_alarm_fired_callback' = ptimer_alarm_fired_callback,
             instruction.op # "release", Removed
      PROVE  Removed'
  <2>1. ReleaseAhead(Programs[test], pc, Passing(test))
    BY <1>2
  <2>2. ReleaseAhead(Programs[test], pc + 1, Passing(test))
    BY <1>2, <2>1, ReleaseLeft
  <2>3. QED BY <1>2, <2>2, ReleaseOnward
<1>3. CASE CaptureStep
  <2>1. ~Ended /\ Advance /\ instruction.op = "capture"
    BY <1>3 DEF CaptureStep, At
  <2>2. test \in 1 .. 16 /\ pc \in 1 .. Len(Programs[test])
    BY <2>1, Here
  <2>3. test # 1
    BY <2>1, <2>2, FirstProgram DEF instruction
  <2>4. test \in 2 .. 16
    BY <2>2, <2>3
  <2>5. Tidy(Programs[test], Passing(test))
    BY <2>4, Tests
  <2>6. ReleaseAhead(Programs[test], pc + 1, Passing(test))
    BY <2>1, <2>2, <2>5 DEF Tidy, instruction
  <2>7. QED BY <2>1, <2>6, ReleaseOnward
<1>4. CASE ReleaseStep
  BY <1>4 DEF ReleaseStep
<1>5. CASE fault # "none" /\ Left /\ Thread
  BY <1>3, <1>5, LeftStep
<1>6. CASE (WriteEnable \/ PbInit) /\ Removed
  <2>1. /\ ~Ended /\ Advance /\ ptimer_alarm_fired_callback' = ptimer_alarm_fired_callback
        /\ instruction.op # "release"
    BY <1>6 DEF WriteEnable, PbInit, At, isr
  <2>2. QED BY <1>2, <1>6, <2>1
<1>7. CASE Passive /\ Removed
  <2>1. /\ ~Ended /\ ptimer_alarm_fired_callback' = ptimer_alarm_fired_callback
        /\ instruction.op # "release" /\ (Advance \/ Stays \/ PassesOver)
    BY <1>7 DEF Passive
  <2>2. CASE Advance
    BY <1>2, <1>7, <2>1, <2>2
  <2>3. CASE Stays
    BY <1>1, <2>1, <2>3 DEF Stays
  <2>4. CASE PassesOver
    <3>1. test' = test
      BY <2>4 DEF PassesOver
    <3>2. ReleaseAhead(Programs[test], pc, Passing(test))
      BY <1>7
    <3>3. \/ ReleaseAhead(Programs[test], pc', Passing(test)) /\ pc' # 1
          \/ fault # "none" /\ Left'
      BY <2>1, <2>4, <3>2, ReleaseLeft
    <3>4. QED BY <2>1, <3>1, <3>3, Here
  <2>5. QED BY <2>1, <2>2, <2>3, <2>4
<1>8. CASE Thread
  <2>1. CASE CaptureStep \/ ReleaseStep
    BY <1>3, <1>4, <2>1
  <2>2. CASE WriteEnable \/ PbInit \/ Passive
    <3>1. ptimer_alarm_fired_callback' = ptimer_alarm_fired_callback
      BY <2>2 DEF WriteEnable, PbInit, Passive, isr
    <3>2. Removed \/ (fault # "none" /\ Left)
      BY <3>1 DEF ReleaseInv
    <3>3. QED BY <1>6, <1>7, <1>8, <1>5, <2>2, <3>2
  <2>3. QED BY <1>8, <2>1, <2>2, Steps
<1>9. QED
  BY <1>1, <1>8 DEF Next, Tick, Interrupt, End, vars, isr

-----------------------------------------------------------------------------
(* What is recorded *)

Recorded ==
    /\ ptimer_alarm_count \in Nat /\ ptimer_alarm_fired_callback \in BOOLEAN
    /\ g_alarm_captures \in Seq(Nat)
    /\ FiringsRecorded

\* A firing is recorded after the one before, if there is room for it.
LEMMA RecordedInterrupt ==
  ASSUME Recorded, Interrupt
  PROVE  Recorded'
<1> DEFINE g == g_alarm_captures
           c == ptimer_alarm_count
<1>1. /\ c \in Nat /\ c' = c + 1 /\ kMaxAlarmCaptures \in Nat /\ g \in Seq(Nat) /\ Len(g) \in Nat
      /\ ptimer_alarm_fired_callback' = ptimer_alarm_fired_callback
      /\ ptimer_alarm_fired_callback \in BOOLEAN
  BY ScaleAssumption DEF Recorded, Interrupt
<1>2. /\ Len(g) <= kMaxAlarmCaptures
      /\ \A i \in 2 .. Len(g) : g[i] = g[i - 1] + 1
      /\ g # <<>> /\ Len(g) < kMaxAlarmCaptures => g[Len(g)] = c \/ ~ptimer_alarm_fired_callback
  BY DEF Recorded, FiringsRecorded
<1>3. CASE g' = g /\ (~ptimer_alarm_fired_callback \/ ~(Len(g) < kMaxAlarmCaptures))
  BY <1>1, <1>2, <1>3 DEF Recorded, FiringsRecorded
<1>4. CASE g' = Append(g, c + 1) /\ ptimer_alarm_fired_callback /\ Len(g) < kMaxAlarmCaptures
  <2>1. /\ g' \in Seq(Nat) /\ Len(g') = Len(g) + 1 /\ g'[Len(g) + 1] = c + 1
        /\ \A i \in 1 .. Len(g) : g'[i] = g[i]
    BY <1>1, <1>4
  <2>2. g # <<>> => g[Len(g)] = c
    BY <1>2, <1>4
  <2>3. Len(g) > 0 => g # <<>>
    BY <1>1
  <2>4. ASSUME NEW i \in 2 .. Len(g') PROVE g'[i] = g'[i - 1] + 1
    <3>1. i \in Int /\ Len(g) \in Nat
      BY <1>1
    <3>2. CASE i \in 2 .. Len(g)
      <4>1. i \in 1 .. Len(g) /\ i - 1 \in 1 .. Len(g)
        BY <3>1, <3>2
      <4>2. g'[i] = g[i] /\ g'[i - 1] = g[i - 1]
        BY <2>1, <4>1
      <4>3. g[i] = g[i - 1] + 1
        BY <1>2, <3>2
      <4>4. QED BY <4>2, <4>3
    <3>3. CASE i = Len(g) + 1
      <4>1. i - 1 = Len(g) /\ Len(g) > 0 /\ Len(g) \in 1 .. Len(g)
        BY <2>1, <3>1, <3>3
      <4>2. g'[Len(g)] = g[Len(g)]
        BY <2>1, <4>1
      <4>3. g'[i - 1] = c
        BY <2>2, <2>3, <4>1, <4>2
      <4>4. g'[i] = c + 1
        BY <2>1, <3>3
      <4>5. QED BY <4>3, <4>4
    <3>4. QED BY <2>1, <3>1, <3>2, <3>3
  <2>5. Len(g') <= kMaxAlarmCaptures /\ g'[Len(g')] = c'
    BY <1>1, <1>4, <2>1
  <2>6. QED BY <1>1, <2>1, <2>4, <2>5 DEF Recorded, FiringsRecorded
<1>5. QED BY <1>3, <1>4 DEF Interrupt, CapturingAlarmCallback

\* The thread only clears the record and the count, and sets and removes the callback.
LEMMA RecordedStep ==
  ASSUME Recorded, [Next]_vars
  PROVE  Recorded'
<1>1. CASE UNCHANGED isr
  BY <1>1 DEF isr, Recorded, FiringsRecorded
<1>2. CASE CaptureStep
  <2>1. /\ g_alarm_captures' = <<>> /\ ptimer_alarm_fired_callback' = TRUE
        /\ ptimer_alarm_count' = 0 \/ ptimer_alarm_count' = ptimer_alarm_count
    BY <1>2 DEF CaptureStep
  <2>2. <<>> \in Seq(Nat) /\ Len(<<>>) = 0 /\ kMaxAlarmCaptures \in Nat
    BY ScaleAssumption
  <2>3. FiringsRecorded'
    BY <2>1, <2>2 DEF FiringsRecorded
  <2>4. QED BY <2>1, <2>2, <2>3 DEF Recorded
<1>3. CASE ReleaseStep
  <2>1. /\ UNCHANGED <<ptimer_alarm_count, g_alarm_captures>> /\ ptimer_alarm_fired_callback' = FALSE
    BY <1>3 DEF ReleaseStep
  <2>2. FiringsRecorded'
    BY <2>1 DEF Recorded, FiringsRecorded
  <2>3. QED BY <2>1, <2>2 DEF Recorded
<1>4. ASSUME Thread, ~CaptureStep, ~ReleaseStep PROVE UNCHANGED isr
  BY <1>4 DEF Thread, WriteEnable, WriteAck, WriteAlarm, WriteTime, WriteHigh,
     ReadTimeStep, ReadHighStep, PbInit, SaveRegisters, PollCaptureCount, PollCaptureTime,
     PollInterrupt, PollTime, SpinStep, SleepStep, LogStep, CheckStep
<1>5. QED
  BY <1>1, <1>2, <1>3, <1>4, RecordedInterrupt DEF Next, Tick, End, vars

-----------------------------------------------------------------------------
(* The theorems *)

IInv == Types /\ OffInv /\ Masked /\ ReleaseInv /\ Recorded

\* It holds when the program starts.
LEMMA Initially == Init => IInv
<1> SUFFICES ASSUME Init PROVE IInv
  OBVIOUS
<1>1. Len(Programs[1]) \in Nat \ {0} /\ Len(Programs) = 16
  BY Tests
<1>2. Types
  <2>1. test = 1 /\ pc = 1 /\ late = 0 /\ ptimer_alarm_fired_callback = FALSE
    BY DEF Init
  <2>2. 0 \in 0 .. Delay
    BY ScaleAssumption
  <2>3. fault = "none" => armed = TRUE
    BY DEF Init
  <2>4. pc <= Len(Programs[test])
    BY <1>1, <2>1
  <2>5. test \in 1 .. 17 /\ pc \in Nat \ {0} /\ test # 17
    BY <2>1
  <2>6. ptimer_alarm_fired_callback \in BOOLEAN
    BY <2>1
  <2>7. QED BY <2>1, <2>2, <2>3, <2>4, <2>5, <2>6 DEF Types
<1>3. OffInv /\ Masked /\ ReleaseInv
  BY DEF Init, OffInv, Masked, ReleaseInv
<1>4. Recorded
  <2>1. ptimer_alarm_count = 0 /\ ptimer_alarm_fired_callback = FALSE /\ g_alarm_captures = <<>>
    BY DEF Init
  <2>2. <<>> \in Seq(Nat) /\ Len(<<>>) = 0 /\ kMaxAlarmCaptures \in Nat
    BY ScaleAssumption
  <2>3. FiringsRecorded
    BY <2>1, <2>2 DEF FiringsRecorded
  <2>4. QED BY <2>1, <2>2, <2>3 DEF Recorded
<1>5. QED BY <1>2, <1>3, <1>4 DEF IInv

\* Where the thread stands, what is enabled and set there, and what is recorded.
THEOREM Invariance == Spec => []IInv
<1>1. IInv /\ [Next]_vars => IInv'
  BY TypesStep, OffStep, MaskedStep, ReleaseStepInv, RecordedStep DEF IInv
<1>2. QED BY Initially, <1>1, PTL DEF Spec

\* FiringsRecorded: what CapturingAlarmCallback has recorded is the firings one
\* by one, and never more than the buffer holds (ptimer_test_common.cpp:8-19).
THEOREM RecordOfFirings == Spec => []FiringsRecorded
BY Invariance, PTL DEF IInv, Recorded

\* NothingArmedBetweenTests: a test that returns has disabled the interrupt and
\* removed its callback, whatever its checks found; only TestInterruptMasking
\* may leave the callback, and not on a PTIMER that works.
THEOREM TestsLeaveNothingArmed == Spec => []NothingArmedBetweenTests
<1>1. IInv => NothingArmedBetweenTests
  <2> SUFFICES ASSUME IInv, pc = 1, test > 2
               PROVE  intr_en_0 = 0 /\ (ptimer_alarm_fired_callback => test = 11 /\ fault # "none")
    BY DEF NothingArmedBetweenTests
  <2>1. test \in 1 .. 17
    BY DEF IInv, Types
  <2>2. intr_en_0 = 0
    BY <2>1 DEF IInv, OffInv
  <2>3. ptimer_alarm_fired_callback => test = 11 /\ fault # "none"
    BY DEF IInv, ReleaseInv, Left
  <2>4. QED BY <2>2, <2>3
<1>2. QED BY <1>1, Invariance, PTL
-----------------------------------------------------------------------------
(* No test fails on a PTIMER that works: where the counter stands *)

Half == Far \div 2
Captured == g_alarm_captures # <<>>

\* What the registers and the locals hold.
Registers ==
    /\ time_0 \in 0 .. N - 1 /\ alarm_0 \in 0 .. N - 1 /\ t \in 0 .. N - 1
    /\ elapsed \in Nat
    /\ intr_0 \in {0, 1} /\ intr_en_0 \in {0, 1}
    /\ polled \in BOOLEAN /\ latched \in BOOLEAN /\ pass \in BOOLEAN
    /\ g_alarm_captures \in Seq(Nat) /\ ptimer_alarm_count \in Nat
    /\ g_boot_ptimer_state \in [alarm_0 : 0 .. N - 1, intr_en_0 : {0, 1}, alarm_latched : BOOLEAN]

\* The ticks since TIME_0 was t, and those from then to the alarm.
Ahead(time) == IF time >= t THEN time - t ELSE time - t + N
Since == Ahead(time_0)
Gap == Ahead(alarm_0)

\* No more ticks than that, and those since the last wait.
Within(bound) == Since <= bound + late

\* t is not long after the time that TestAlarmTargetZero sets.
Early(bound) == t >= N - Offset \/ t <= bound

\* The alarm has not come yet, or has latched INTR_0.
Comes == Since < Gap \/ intr_0 = 1

\* While INTR_0 is polled.
PollsLatched ==
    /\ intr_en_0 = 0 /\ Gap \in 1 .. Offset
    /\ Comes /\ Within(Offset + Delay)
    /\ polled => Within(Offset)
    /\ elapsed <= Since

\* While captures are counted, until there is one.
AlarmOrCapture == Captured \/ Since < Gap \/ (Since = Gap /\ intr_0 = 1)
PollsCaptures ==
    /\ intr_en_0 = 1 /\ ptimer_alarm_fired_callback /\ Gap = Offset
    /\ AlarmOrCapture /\ Within(Offset + Delay)
    /\ polled => Within(Offset)
    /\ elapsed <= Since

\* The interrupt is to be delivered, or has been.
Delivers == intr_en_0 = 1 /\ (Captured \/ (intr_0 = 1 /\ ptimer_alarm_fired_callback))

\* pb_init had enabled the interrupt.
BootEnabled == g_boot_ptimer_state.intr_en_0 = 1

\* Program by program, what holds before the pc-th instruction.
BootAlarmAt ==
    /\ pc \in 3 .. 6 => /\ intr_en_0 = g_boot_ptimer_state.intr_en_0
                        /\ alarm_0 = g_boot_ptimer_state.alarm_0
    /\ pc = 5 => BootEnabled \/ PollsLatched
    /\ pc = 6 => BootEnabled \/ g_boot_ptimer_state.alarm_latched

AlarmUnprogrammedAt ==
    /\ pc \notin {1, 2, 8, 9} => intr_en_0 = 0
    /\ pc \in 1 .. 11 => BootEnabled \/ g_boot_ptimer_state.alarm_latched
    /\ pc \in 5 .. 9 => ptimer_alarm_fired_callback
    /\ pc = 6 => alarm_0 = g_boot_ptimer_state.alarm_0
    /\ pc = 7 => Gap = Offset /\ Within(0)
    /\ pc = 8 => PollsCaptures
    /\ pc \in 9 .. 12 => Captured

AlarmTargetZeroAt ==
    /\ pc # 8 /\ pc # 9 => intr_en_0 = 0
    /\ pc \in 5 .. 9 => ptimer_alarm_fired_callback
    /\ pc = 6 => alarm_0 = 0
    /\ pc = 7 => Gap = Offset /\ Within(0)
    /\ pc \in 7 .. 13 => t = N - Offset
    /\ pc = 8 => PollsCaptures
    /\ pc \in 9 .. 11 => Captured
    /\ pc \in 9 .. 13 => Within(Offset + 2 * Delay)

AlarmRearmAt ==
    /\ pc \notin 8 .. 10 => intr_en_0 = 0
    /\ pc \in 5 .. 10 => ptimer_alarm_fired_callback
    /\ pc \in 1 .. 5 => t = N - Offset /\ Within(Offset + (IF pc = 1 THEN 2 ELSE 3) * Delay)
    /\ pc \in 6 .. 12 => Early(4 * Delay)
    /\ pc \in 6 .. 8 => Within(0)
    /\ pc \in 7 .. 8 => Gap = Offset
    /\ pc = 8 => AlarmOrCapture /\ intr_en_0 = 1
    /\ pc = 9 => PollsCaptures
    /\ pc \in 10 .. 12 => Captured /\ Within(Offset + 2 * Delay)

AlarmAdjustPreservesPendingFlagAt ==
    /\ pc \notin 17 .. 18 => intr_en_0 = 0
    /\ pc \in 1 .. 5 => Early(4 * Delay) /\ Within(Offset + (IF pc = 1 THEN 2 ELSE 3) * Delay)
    /\ pc \in 5 .. 18 => ptimer_alarm_fired_callback
    /\ pc \in 5 .. 16 => ~Captured
    /\ pc \in 6 .. 7 => Early(Offset + 8 * Delay)
    /\ pc \in 8 .. 9 => Early(Offset + 9 * Delay)
    /\ pc \in 10 .. 22 => Early(2 * Offset + 11 * Delay)
    /\ pc \in 6 .. 8 \/ pc \in 10 .. 11 => Within(0)
    /\ pc = 7 => Gap = Offset
    /\ pc = 8 => Gap \in 1 .. Offset /\ Comes
    /\ pc = 9 => PollsLatched
    /\ pc = 10 => latched
    /\ pc \in 10 .. 16 => intr_0 = 1
    /\ pc \in 12 .. 15 => Within(Delay)
    /\ pc \in 16 .. 17 => Within(2 * Delay)
    /\ pc \in 18 .. 22 => Within(3 * Delay)
    /\ pc \in 14 .. 22 => Gap = Far
    /\ pc = 17 => Delivers
    /\ pc \in 18 .. 19 => Captured

\* How many captures there are in the first round of TIME_0 and in the second,
\* of which elapsed tells the time.
Fired == IF Since >= Gap THEN 1 ELSE 0
Counted(before, ticks) ==
    /\ Len(g_alarm_captures) + intr_0 = before + Fired
    /\ elapsed <= ticks /\ ticks <= elapsed + 2 * Delay + late
    /\ elapsed < LongTimeout => ticks <= elapsed + 2 * Delay
Rounds ==
    \/ Counted(0, Since)
    \/ Counted(1, Since + N) /\ (intr_0 = 1 => Since = Gap)

\* The periodic alarm: two captures in LongTimeout, one in each round of TIME_0.
TwoRounds ==
    /\ Gap = Offset + 1 /\ intr_en_0 = 1 /\ ptimer_alarm_fired_callback
    /\ Rounds /\ elapsed <= LongTimeout

AlarmRolloverAndPeriodicityAt ==
    /\ pc # 9 /\ pc # 10 => intr_en_0 = 0
    /\ pc \in 1 .. 4 => /\ Early(2 * Offset + 11 * Delay) /\ Gap = Far
                        /\ Within((IF pc = 1 THEN 3 ELSE 4) * Delay)
    /\ pc \in 4 .. 7 => intr_0 = 0
    /\ pc \in 5 .. 12 => t = N - Offset
    /\ pc \in 5 .. 7 => Within(0)
    /\ pc = 5 => Gap > Delay
    /\ pc \in 6 .. 12 => alarm_0 = 1 /\ Gap = Offset + 1
    /\ pc \in 7 .. 10 => ptimer_alarm_fired_callback
    /\ pc \in 7 .. 8 => g_alarm_captures = <<>>
    /\ pc = 8 => Within(Delay) /\ intr_0 = Fired
    /\ pc = 9 => TwoRounds
    /\ pc \in 10 .. 12 => /\ Len(g_alarm_captures) = 2
                          /\ Since > Gap /\ Within(LongTimeout - N + 3 * Delay)
    /\ pc = 10 => intr_0 = 0

AlarmSetInThePastAt ==
    /\ pc \notin 9 .. 11 => intr_en_0 = 0
    /\ pc \in 1 .. 4 => /\ t = N - Offset /\ alarm_0 = 1
                        /\ Since > Gap /\ Within(LongTimeout - N + (IF pc = 1 THEN 3 ELSE 4) * Delay)
    /\ pc \in 4 .. 13 => intr_0 = 0
    /\ pc = 5 => Gap > Delay
    /\ pc \in 5 .. 13 => t = Far
    /\ pc \in 6 .. 13 => alarm_0 = Half
    /\ pc \in 5 .. 6 => Within(0)
    /\ pc \in 7 .. 8 => Within(Delay)
    /\ pc = 9 => Since <= elapsed + 2 * Delay /\ elapsed < Timeout + late
    /\ pc \in 8 .. 13 => ~Captured
    /\ pc \in 10 .. 13 => Within(Timeout + 3 * Delay)

AlarmUnalignedTargetAt ==
    /\ pc \notin 8 .. 9 => intr_en_0 = 0
    /\ pc \in 1 .. 11 => intr_0 = 0
    /\ pc \in 1 .. 4 => /\ t = Far /\ alarm_0 = Half
                        /\ Within(Timeout + (IF pc = 1 THEN 3 ELSE 4) * Delay)
    /\ pc \in 5 .. 11 => t = 0
    /\ pc = 5 => alarm_0 = Half
    /\ pc \in 6 .. 11 => alarm_0 = 0
    /\ pc \in 5 .. 8 => Within(0)
    /\ pc \in 9 .. 11 => Within(Delay)
    /\ pc \in 7 .. 11 => ~Captured

RegisterBitmasksAt ==
    /\ intr_en_0 = 0
    /\ pc \in 3 .. 7 => alarm_0 = Half
    /\ pc \in 5 .. 7 => t = N - 1
    /\ pc = 5 => Within(0)
    /\ pc \in 6 .. 7 => Within(Delay)

InterruptMaskingAt ==
    /\ pc # 8 /\ pc # 16 /\ pc # 17 => intr_en_0 = 0
    /\ pc \in 1 .. 4 => /\ t = N - 1 /\ alarm_0 = Half
                        /\ Within((IF pc = 1 THEN 2 ELSE 3) * Delay)
    /\ pc \in 4 .. 8 => intr_0 = 0
    /\ pc \in 5 .. 13 => t = 0
    /\ pc \in 5 .. 9 => Within(0)
    /\ pc = 5 => alarm_0 = Half
    /\ pc \in 6 .. 13 => alarm_0 = Offset
    /\ pc \in 9 .. 10 => Comes
    /\ pc \in 7 .. 15 => ~Captured
    /\ pc \in 7 .. 17 => ptimer_alarm_fired_callback
    /\ pc \in 11 .. 15 => intr_0 = 1
    /\ pc = 16 => Delivers
    /\ pc \in 17 .. 19 => Captured

AlarmFlagIsSetWhileMaskedAt ==
    /\ pc \notin 15 .. 16 => intr_en_0 = 0
    /\ pc \in 5 .. 16 => ptimer_alarm_fired_callback
    /\ pc \in 5 .. 14 => ~Captured
    /\ pc \in 6 .. 8 => Within(0)
    /\ pc = 7 => Gap = Offset
    /\ pc = 8 => Gap \in 1 .. Offset /\ Comes
    /\ pc = 9 => PollsLatched
    /\ pc \in 10 .. 12 => latched
    /\ pc \in 10 .. 14 => intr_0 = 1
    /\ pc = 15 => Delivers
    /\ pc \in 16 .. 17 => Captured

AlarmFlagIsSetWhileMaskedResetTimeAt ==
    /\ intr_en_0 = 0
    /\ pc \in 6 .. 7 => t = 0
    /\ pc = 6 => Within(0)
    /\ pc = 7 => PollsLatched
    /\ pc \in 5 .. 9 => ~Captured
    /\ pc \in 8 .. 10 => latched

InterruptAcknowledgeAt ==
    /\ intr_en_0 = 0
    /\ pc \in 5 .. 14 => t = 0
    /\ pc = 5 => Within(0)
    /\ pc \in 6 .. 14 => alarm_0 = Offset
    /\ pc = 6 => Comes /\ Within(Offset + Over)
    /\ pc \in 7 .. 12 => intr_0 = 1
    /\ pc \in 7 .. 14 => Since > Offset
    /\ pc \in 7 .. 8 => Within(Offset + Over + Delay)
    /\ pc \in 9 .. 11 => Within(Offset + Over + 2 * Delay)
    /\ pc \in 12 .. 14 => Within(Offset + Over + 3 * Delay)
    /\ pc = 13 => intr_0 = 0

\* TIME_0, or what was read of it, is soon after value.
After(value, time) == value <= time /\ time <= value + late
WrittenLow(first, value) ==
    /\ pc \in first + 1 .. first + 3 => time_1 = 2
    /\ pc \in first + 2 .. first + 4 => After(value, time_0)
    /\ pc \in first + 5 .. first + 8 => time_0 <= value + Delay + late
    /\ pc \in first + 3 .. first + 6 => t \in value .. value + Delay
    /\ pc \in first + 4 .. first + 5 => high = 2
WrittenHigh(first, value) ==
    /\ pc \in first + 2 .. first + 3 => time_1 = value
    /\ pc \in first + 1 .. first + 4 => After(2, time_0)
    /\ pc = first + 5 => time_0 <= 2 + Delay + late
    /\ pc \in first + 4 .. first + 5 => high = value
TimeRegisterReadWriteAt ==
    /\ pc = 1 => time_0 <= 4 * Far + late
    /\ pc \in 2 .. 3 => time_0 <= 4 * Far + Delay + late
    /\ WrittenLow(2, 0) /\ WrittenLow(9, 1) /\ WrittenLow(16, Far) /\ WrittenLow(23, 4 * Far)
    /\ WrittenHigh(30, 1) /\ WrittenHigh(36, 2) /\ WrittenHigh(42, HighSize - 1)

\* TIME_0 is at its end, or has wrapped.
Wraps(bound) ==
    \/ time_0 = N - 1 /\ time_1 = 1
    \/ time_0 <= bound + late /\ time_1 = 2
TimeRegisterRolloverAt ==
    /\ pc \in 1 .. 3 => time_0 <= 2 + (IF pc = 1 THEN 1 ELSE 2) * Delay + late
    /\ pc = 3 => time_1 = 1
    /\ pc = 4 => Wraps(0)
    /\ pc = 5 => Wraps(Delay)
    /\ pc = 6 => time_0 <= 2 * Delay + late /\ time_1 = 2
    /\ pc \in 7 .. 9 => high = 2

\* In every test.
Standing ==
    /\ test = 1 => BootAlarmAt
    /\ test = 2 => AlarmUnprogrammedAt
    /\ test = 3 => AlarmTargetZeroAt
    /\ test = 4 => AlarmRearmAt
    /\ test = 5 => AlarmAdjustPreservesPendingFlagAt
    /\ test = 6 => AlarmRolloverAndPeriodicityAt
    /\ test = 7 => AlarmSetInThePastAt
    /\ test = 8 => AlarmUnalignedTargetAt
    /\ test = 9 => RegisterBitmasksAt
    /\ test = 10 => InterruptMaskingAt
    /\ test = 11 => AlarmFlagIsSetWhileMaskedAt
    /\ test = 12 => AlarmFlagIsSetWhileMaskedResetTimeAt
    /\ test = 13 => InterruptAcknowledgeAt
    /\ test = 14 => TimeRegisterReadWriteAt
    /\ test = 15 => TimeRegisterRolloverAt

\* Of the boot alarm, the verdict of a PTIMER that works.
BootVerdict == boot_pass \/ (test # 1 /\ BootEnabled)

\* The inductive invariant of a PTIMER that works.
Verdicts == fault = "none" => Standing /\ pass /\ BootVerdict
-----------------------------------------------------------------------------
(* What a step does on a PTIMER that works, without remainders *)

Working == Types /\ Registers /\ fault = "none"

\* The sizes, and what follows of them.
LEMMA Scale ==
  /\ N \in Int /\ Offset \in Int /\ Over \in Int /\ Far \in Int /\ Timeout \in Int /\ LongTimeout \in Int
  /\ Delay \in Int /\ Near \in Int /\ Half \in Int /\ HighSize \in Int /\ kMaxAlarmCaptures \in Int
  /\ 0 < Delay /\ Delay < Over /\ Delay < Offset /\ Delay <= Near /\ HighSize > 3
  /\ Offset + Over + 2 * Delay < Timeout /\ Timeout <= Far
  /\ N = 8 * Far /\ 8 * Delay <= Far /\ 4 * Delay <= Half /\ 2 * Half <= Far /\ Far <= 2 * Half + 1
  /\ N + Offset + 1 + Delay < LongTimeout /\ LongTimeout + 5 * Delay < 2 * N
  /\ kMaxAlarmCaptures > 1
<1>1. Far \in Nat
  BY ScaleAssumption
<1>2. Half \in Int /\ 2 * Half <= Far /\ Far <= 2 * Half + 1
  BY <1>1 DEF Half
<1>3. QED BY <1>1, <1>2, ScaleAssumption

\* The remainder of a number that is at most one round away.
LEMMA Remainder ==
  ASSUME NEW a \in (0 - N) .. 2 * N - 1
  PROVE  (a + N) % N = IF a < 0 THEN a + N ELSE IF a < N THEN a ELSE a - N
<1>1. N \in Nat
  BY ScaleAssumption
<1> DEFINE q == (a + N) \div N
           r == (a + N) % N
<1>2. N > 0
  BY Scale
<1>3. q \in Int /\ r \in 0 .. N - 1 /\ a + N = N * q + r
  BY <1>1, <1>2
<1> HIDE DEF q, r
<1>4. \A k \in Int : (k >= 3 => N * k >= N + N + N) /\ (k < 0 => N * k <= 0 - N)
  BY <1>1
<1>5. N * 0 = 0 /\ N * 1 = N /\ N * 2 = N + N
  BY <1>1
<1>6. q = 0 \/ q = 1 \/ q = 2
  BY <1>1, <1>3, <1>4
<1>7. r = IF a < 0 THEN a + N ELSE IF a < N THEN a ELSE a - N
  BY <1>1, <1>3, <1>5, <1>6
<1>8. QED BY <1>7 DEF r

\* Since is what the tests compute as now - start.
LEMMA Elapsed ==
  ASSUME Registers
  PROVE  /\ Delta = Since /\ Since \in 0 .. N - 1 /\ Gap \in 0 .. N - 1
         /\ time_0 = IF t + Since < N THEN t + Since ELSE t + Since - N
         /\ alarm_0 = IF t + Gap < N THEN t + Gap ELSE t + Gap - N
<1>1. time_0 \in 0 .. N - 1 /\ alarm_0 \in 0 .. N - 1 /\ t \in 0 .. N - 1 /\ N \in Int
  BY Scale DEF Registers
<1>2. time_0 - t \in (0 - N) .. 2 * N - 1
  BY <1>1
<1>3. Delta = Since
  BY <1>1, <1>2, Remainder DEF Delta, Since, Ahead
<1>4. QED BY <1>1, <1>3 DEF Since, Gap, Ahead

\* On to the next instruction.
Onward ==
    /\ IF pc < Len(Programs[test]) THEN pc' = pc + 1 /\ test' = test
                                   ELSE pc' = 1 /\ test' = test + 1
    /\ polled' = FALSE /\ elapsed' = 0

\* What only some instructions change.
Unread == UNCHANGED <<high, latched, pass, g_boot_ptimer_state>>
Recording == UNCHANGED <<ptimer_alarm_fired_callback, g_alarm_captures>> /\ Captured' = Captured
Running == UNCHANGED <<time_0, time_1, t>> /\ Since' = Since
Aimed == UNCHANGED <<alarm_0, intr_0>>

\* An instruction other than a round of a loop goes on to the next one.
LEMMA Advances ==
  ASSUME Advance
  PROVE  Onward /\ late' = (IF instruction.op \in Waits THEN 0 ELSE late)
BY DEF Advance, Onward

\* Where the counter stands does not depend on what the instruction leaves alone.
LEMMA Runs ==
  ASSUME UNCHANGED <<time_0, time_1, t>>
  PROVE  Running /\ (UNCHANGED alarm_0 => Gap' = Gap)
BY DEF Running, Since, Gap, Ahead

\* TEST_INFO.
LEMMA Logs ==
  ASSUME Working, Thread, instruction.op = "log"
  PROVE  Onward /\ late' = 0 /\ Unread /\ Recording /\ Running /\ Aimed /\ Gap' = Gap /\ UNCHANGED intr_en_0
<1>1. LogStep
  BY Dispatch
<1>2. QED
  BY <1>1, Advances, Runs
     DEF LogStep, Waits, Unread, Recording, Captured, Aimed, registers, counter, isr, locals, verdicts

\* Sleep: the interrupt is delivered.
LEMMA Sleeps ==
  ASSUME Working, Thread, instruction.op = "sleep"
  PROVE  /\ Onward /\ late' = 0 /\ Unread /\ Recording /\ Running /\ Aimed /\ Gap' = Gap /\ UNCHANGED intr_en_0
         /\ ~(intr_0 = 1 /\ intr_en_0 = 1)
<1>1. SleepStep
  BY Dispatch
<1>2. QED
  BY <1>1, Advances, Runs
     DEF SleepStep, Asserted, Waits, Unread, Recording, Captured, Aimed, registers, counter, isr, locals, verdicts

\* INTR_EN_0 is written.
LEMMA Enables ==
  ASSUME Working, Thread, instruction.op = "en"
  PROVE  /\ Onward /\ late' = late /\ Unread /\ Recording /\ Running /\ Aimed /\ Gap' = Gap
         /\ intr_en_0' = instruction.value
<1>1. WriteEnable
  BY Dispatch
<1>2. QED
  BY <1>1, Advances, Runs
     DEF WriteEnable, Waits, Unread, Recording, Captured, Aimed, registers, counter, isr, locals, verdicts

\* INTR_0 is written: 1 clears it.
LEMMA Acknowledges ==
  ASSUME Working, Thread, instruction.op = "ack"
  PROVE  /\ Onward /\ late' = late /\ Unread /\ Recording /\ Running /\ Gap' = Gap
         /\ UNCHANGED <<intr_en_0, alarm_0>> /\ intr_0' = IF instruction.value = 1 THEN 0 ELSE intr_0
<1>1. WriteAck
  BY Dispatch
<1>2. QED
  BY <1>1, Advances, Runs
     DEF Working, WriteAck, Waits, Unread, Recording, Captured, registers, counter, isr, locals, verdicts

\* ALARM_0 is written, which does not touch INTR_0.
LEMMA Alarms ==
  ASSUME Working, Thread, instruction.op = "alarm"
  PROVE  /\ Onward /\ late' = late /\ Unread /\ Recording /\ Running
         /\ UNCHANGED <<intr_en_0, intr_0>> /\ alarm_0' = (Base(instruction.base) + instruction.off + N) % N
<1>1. WriteAlarm
  BY Dispatch
<1>2. QED
  BY <1>1, Advances, Runs
     DEF Working, WriteAlarm, Operand, Waits, Unread, Recording, Captured, counter, isr, locals, verdicts

\* TIME_0 is written.
LEMMA Times ==
  ASSUME Working, Thread, instruction.op = "time"
  PROVE  /\ Onward /\ late' = late /\ Unread /\ Recording /\ Aimed
         /\ UNCHANGED <<intr_en_0, time_1>>
         /\ time_0' = (Base(instruction.base) + instruction.off + N) % N /\ t' = time_0'
         /\ time_0' \in Int => Since' = 0
<1>1. WriteTime
  BY Dispatch
<1>2. ASSUME t' = time_0', time_0' \in Int PROVE Since' = 0
  <2>1. \A x \in Int : x >= x /\ x - x = 0
    OBVIOUS
  <2>2. QED BY <1>2, <2>1 DEF Since, Ahead
<1>3. QED
  BY <1>1, <1>2, Advances
     DEF Working, WriteTime, Operand, Waits, Unread, Recording, Captured, Aimed, isr, locals, verdicts

\* TIME_0 is read.
LEMMA Reads ==
  ASSUME Working, Thread, instruction.op = "read"
  PROVE  /\ Onward /\ late' = late /\ Unread /\ Recording /\ Aimed
         /\ UNCHANGED <<intr_en_0, time_0, time_1>> /\ t' = time_0 /\ Since' = 0
         /\ Gap' = IF Gap >= Since THEN Gap - Since ELSE Gap - Since + N
<1>1. ReadTimeStep
  BY Dispatch
<1>2. time_0 \in 0 .. N - 1 /\ alarm_0 \in 0 .. N - 1 /\ t \in 0 .. N - 1 /\ N \in Int
  BY Scale DEF Working, Registers
<1>3. t' = time_0 /\ time_0' = time_0 /\ alarm_0' = alarm_0
  BY <1>1 DEF ReadTimeStep, registers, counter
<1>4. Since' = 0 /\ Gap' = IF Gap >= Since THEN Gap - Since ELSE Gap - Since + N
  BY <1>2, <1>3 DEF Since, Gap, Ahead
<1>5. QED
  BY <1>1, <1>4, Advances
     DEF ReadTimeStep, Waits, Unread, Recording, Captured, Aimed, registers, counter, isr, verdicts

\* TIME_1 is written.
LEMMA HighWrites ==
  ASSUME Working, Thread, instruction.op = "high"
  PROVE  /\ Onward /\ late' = late /\ Unread /\ Recording /\ Aimed /\ time_1' = instruction.value
         /\ UNCHANGED <<intr_en_0, time_0, t>> /\ Since' = Since /\ Gap' = Gap
<1>1. WriteHigh
  BY Dispatch
<1>2. QED
  BY <1>1, Advances
     DEF Working, WriteHigh, Waits, Unread, Recording, Captured, Aimed, isr, locals, verdicts, Since, Gap, Ahead

\* TIME_1 is read.
LEMMA HighReads ==
  ASSUME Working, Thread, instruction.op = "read_high"
  PROVE  /\ Onward /\ late' = late /\ Recording /\ Running /\ Aimed /\ Gap' = Gap /\ high' = time_1
         /\ UNCHANGED <<intr_en_0, latched, pass, g_boot_ptimer_state>>
<1>1. ReadHighStep
  BY Dispatch
<1>2. QED
  BY <1>1, Advances, Runs
     DEF ReadHighStep, Waits, Recording, Captured, Aimed, registers, counter, isr, verdicts

\* Captures begin.
LEMMA Captures ==
  ASSUME Working, Thread, instruction.op = "capture"
  PROVE  /\ Onward /\ late' = late /\ Unread /\ Running /\ Aimed /\ Gap' = Gap /\ UNCHANGED intr_en_0
         /\ g_alarm_captures' = <<>> /\ ~Captured' /\ ptimer_alarm_fired_callback' = TRUE
<1>1. CaptureStep
  BY Dispatch
<1>2. QED BY <1>1, Advances, Runs DEF CaptureStep, Captured, Waits, Unread, Aimed, registers, counter, locals, verdicts

\* Captures end.
LEMMA Releases ==
  ASSUME Working, Thread, instruction.op = "release"
  PROVE  /\ Onward /\ late' = late /\ Unread /\ Running /\ Aimed /\ Gap' = Gap
         /\ UNCHANGED <<intr_en_0, g_alarm_captures>> /\ Captured' = Captured
<1>1. ReleaseStep
  BY Dispatch
<1>2. QED BY <1>1, Advances, Runs DEF ReleaseStep, Captured, Waits, Unread, Aimed, registers, counter, locals, verdicts

\* A check that holds.
LEMMA Checks ==
  ASSUME Working, Thread, instruction.op = "check", Holds(instruction.what)
  PROVE  /\ Onward /\ late' = late /\ Unread /\ Recording /\ Running /\ Aimed /\ Gap' = Gap
         /\ UNCHANGED intr_en_0
<1>1. CheckStep
  BY Dispatch
<1>2. QED
  BY <1>1, Advances, Runs
     DEF CheckStep, Waits, Unread, Recording, Captured, Aimed, registers, counter, isr, verdicts

\* The check of what RunPreInitBootAlarmTest saw, whether it holds or not.
LEMMA BootCheck ==
  ASSUME Working, Thread, instruction.op = "check", instruction.what = "boot", instruction.skip = 0
  PROVE  /\ Onward /\ late' = late /\ Unread /\ Recording /\ Running /\ Aimed /\ Gap' = Gap
         /\ UNCHANGED intr_en_0
<1>1. CheckStep
  BY Dispatch
<1>2. QED
  BY <1>1, Advances, Runs
     DEF CheckStep, Waits, Unread, Recording, Captured, Aimed, registers, counter, isr, verdicts

\* A round of a spin.
LEMMA Spins ==
  ASSUME Working, Thread, instruction.op = "spin"
  PROVE  /\ late' = 0 /\ Unread /\ Recording /\ Running /\ Aimed /\ Gap' = Gap /\ UNCHANGED intr_en_0
         /\ IF time_0 \in instruction.while THEN UNCHANGED <<test, pc>> ELSE Onward
<1>1. SpinStep
  BY Dispatch
<1>2. QED
  BY <1>1, Advances, Runs
     DEF SpinStep, Round, Waits, Unread, Recording, Captured, Aimed, registers, counter, isr, locals, verdicts

\* The counter.  It does not wait for an interrupt that is due.
LEMMA Ticks ==
  ASSUME Working, Tick
  PROVE  /\ Unread /\ Recording /\ Gap' = Gap /\ UNCHANGED <<test, pc, t, polled, intr_en_0, alarm_0>>
         /\ late' = late + 1 /\ late < Delay /\ ~(intr_0 = 1 /\ intr_en_0 = 1)
         /\ time_0' = IF time_0 = N - 1 THEN 0 ELSE time_0 + 1
         /\ time_0 # N - 1 => time_1' = time_1
         /\ time_0 = N - 1 => time_1' = (time_1 + 1) % HighSize
         /\ Since' = IF Since = N - 1 THEN 0 ELSE Since + 1
         /\ intr_0' = IF Since' = Gap THEN 1 ELSE intr_0
         /\ elapsed' = IF Waiting /\ elapsed < LongTimeout THEN elapsed + 1 ELSE elapsed
<1>1. time_0 \in 0 .. N - 1 /\ alarm_0 \in 0 .. N - 1 /\ t \in 0 .. N - 1 /\ N \in Int /\ N > 0
      /\ fault = "none" /\ armed = TRUE
  BY Scale DEF Working, Registers, Types
<1>2. time_0' = IF time_0 = N - 1 THEN 0 ELSE time_0 + 1
  <2>1. time_0 + 1 = (time_0 + 1 - N) + N /\ time_0 + 1 - N \in (0 - N) .. 2 * N - 1
    BY <1>1
  <2>2. (time_0 + 1) % N = IF time_0 + 1 - N < 0 THEN time_0 + 1 ELSE 0
    BY <1>1, <2>1, Remainder
  <2>3. QED BY <1>1, <2>2 DEF Tick
<1>3. t' = t /\ alarm_0' = alarm_0 /\ intr_0' = IF time_0' = alarm_0 THEN 1 ELSE intr_0
  BY <1>1 DEF Tick, Latches, locals, verdicts
<1>4. Since' = (IF Since = N - 1 THEN 0 ELSE Since + 1) /\ Gap' = Gap
  BY <1>1, <1>2, <1>3 DEF Since, Gap, Ahead
<1>5. time_0' = alarm_0 <=> Since' = Gap
  BY <1>1, <1>2, <1>3 DEF Since, Gap, Ahead
<1>6. QED BY <1>1, <1>2, <1>3, <1>4, <1>5 DEF Tick, Asserted, Unread, Recording, Captured, isr, locals, verdicts

\* pbkit's handler.
LEMMA Interrupts ==
  ASSUME Working, Interrupt
  PROVE  /\ Unread /\ Running /\ Gap' = Gap
         /\ UNCHANGED <<test, pc, polled, intr_en_0, alarm_0, late, elapsed, ptimer_alarm_fired_callback>>
         /\ intr_0 = 1 /\ intr_en_0 = 1 /\ intr_0' = 0
         /\ Captured' <=> Captured \/ ptimer_alarm_fired_callback
         /\ ptimer_alarm_fired_callback /\ Len(g_alarm_captures) < kMaxAlarmCaptures =>
               Len(g_alarm_captures') = Len(g_alarm_captures) + 1
<1>1. g_alarm_captures \in Seq(Nat) /\ ptimer_alarm_count \in Nat
  BY DEF Working, Registers
<1>2. Interrupt /\ UNCHANGED <<time_0, time_1, t, alarm_0>>
  BY DEF Interrupt, counter, locals, verdicts
<1>3. g_alarm_captures' = IF ptimer_alarm_fired_callback /\ Len(g_alarm_captures) < kMaxAlarmCaptures
                          THEN Append(g_alarm_captures, ptimer_alarm_count + 1) ELSE g_alarm_captures
  BY DEF Interrupt, CapturingAlarmCallback
<1>4. Captured' <=> Captured \/ ptimer_alarm_fired_callback
  <2>1. Append(g_alarm_captures, ptimer_alarm_count + 1) # <<>>
    BY <1>1
  <2>2. Len(<<>>) = 0 /\ kMaxAlarmCaptures > 0
    BY Scale
  <2>3. QED BY <1>3, <2>1, <2>2 DEF Captured
<1>5. ptimer_alarm_fired_callback /\ Len(g_alarm_captures) < kMaxAlarmCaptures =>
        Len(g_alarm_captures') = Len(g_alarm_captures) + 1
  BY <1>1, <1>3
<1>6. QED BY <1>2, <1>4, <1>5, Runs DEF Interrupt, Asserted, Unread, locals, verdicts

-----------------------------------------------------------------------------
(* Polling *)

\* A round of a loop on g_alarm_capture_count, in two steps.
LEMMA Counts ==
  ASSUME Working, Thread, instruction.op = "captures"
  PROVE  /\ Unread /\ Recording /\ Running /\ Aimed /\ Gap' = Gap /\ UNCHANGED intr_en_0
         /\ \/ ~polled /\ Len(g_alarm_captures) >= instruction.count /\ Onward /\ late' = 0
            \/ ~polled /\ ~(Len(g_alarm_captures) >= instruction.count)
               /\ polled' = TRUE /\ late' = late /\ UNCHANGED <<test, pc, elapsed>>
            \/ polled /\ (GivesUp \/ elapsed >= instruction.limit) /\ Onward /\ late' = 0
            \/ polled /\ ~GivesUp /\ ~(elapsed >= instruction.limit)
               /\ polled' = FALSE /\ late' = 0 /\ UNCHANGED <<test, pc, elapsed>>
<1>2. PollCaptureCount \/ PollCaptureTime
  BY Dispatch
<1>3. CASE PollCaptureCount
  BY <1>3, Advances, Runs
     DEF PollCaptureCount, Round, Waits, Unread, Recording, Captured, Aimed, registers, counter,
         isr, locals, verdicts
<1>4. CASE PollCaptureTime
  BY <1>4, Advances, Runs
     DEF PollCaptureTime, Round, Waits, Unread, Recording, Captured, Aimed, registers, counter, isr,
         locals, verdicts
<1>5. QED BY <1>2, <1>3, <1>4

\* A loop that waits for one capture does not give up before there is one.
LEMMA OneCapture ==
  ASSUME Working, Thread, PollsCaptures, instruction.op = "captures",
         instruction.count = 1, instruction.limit = Timeout,
         \/ instruction.giveup \in {"delta", "never"}
         \/ instruction.giveup = "wrapped" /\ t = N - Offset
  PROVE  /\ Unread /\ Recording /\ Running /\ Aimed /\ Gap' = Gap /\ UNCHANGED intr_en_0
         /\ \/ UNCHANGED <<test, pc>> /\ PollsCaptures'
            \/ Onward /\ late' = 0 /\ Captured /\ Since <= Offset + 2 * Delay
<1>1. /\ Since \in 0 .. N - 1 /\ Gap \in 0 .. N - 1 /\ Delta = Since /\ late \in 0 .. Delay /\ elapsed \in Nat
      /\ time_0 = IF t + Since < N THEN t + Since ELSE t + Since - N
      /\ polled \in BOOLEAN /\ intr_0 \in {0, 1}
  BY Elapsed DEF Working, Registers, Types
<1>2. /\ intr_en_0 = 1 /\ ptimer_alarm_fired_callback /\ Gap = Offset
      /\ AlarmOrCapture /\ Since <= Offset + Delay + late
      /\ polled => Since <= Offset + late
      /\ elapsed <= Since
  BY DEF PollsCaptures, Within
<1>3. Len(g_alarm_captures) >= 1 <=> Captured
  <2>1. g_alarm_captures \in Seq(Nat)
    BY DEF Working, Registers
  <2>2. Len(g_alarm_captures) \in Nat /\ (Len(g_alarm_captures) = 0 <=> g_alarm_captures = <<>>)
    BY <2>1
  <2>3. QED BY <2>2 DEF Captured
<1>4. polled => ~GivesUp /\ ~(elapsed >= Timeout)
  <2> SUFFICES ASSUME polled PROVE ~GivesUp /\ ~(elapsed >= Timeout)
    OBVIOUS
  <2>1. Since <= Offset + Delay
    BY <1>1, <1>2, Scale
  <2>3. ~(Delta > Offset + Over) /\ ~(elapsed >= Timeout)
    BY <1>1, <1>2, <2>1, Scale
  <2>4. t = N - Offset => ~(time_0 < N - Offset /\ time_0 > Over)
    BY <1>1, <2>1, Scale
  <2>5. QED BY <2>3, <2>4 DEF GivesUp
<1>5. ASSUME UNCHANGED <<test, pc, elapsed>>, polled' = TRUE, late' = late, ~Captured,
             Recording, Running, Aimed, Gap' = Gap, UNCHANGED intr_en_0
      PROVE  PollsCaptures'
  <2>1. Since <= Gap
    BY <1>1, <1>2, <1>5 DEF AlarmOrCapture
  <2>2. QED
    BY <1>1, <1>2, <1>5, <2>1, Scale
       DEF PollsCaptures, Within, AlarmOrCapture, Recording, Running, Aimed, Captured
<1>6. ASSUME UNCHANGED <<test, pc, elapsed>>, polled, polled' = FALSE, late' = 0,
             Recording, Running, Aimed, Gap' = Gap, UNCHANGED intr_en_0
      PROVE  PollsCaptures'
  <2>1. Since <= Offset + Delay
    BY <1>1, <1>2, <1>6, Scale
  <2>2. AlarmOrCapture'
    BY <1>2, <1>6 DEF AlarmOrCapture, Recording, Running, Aimed, Captured
  <2>3. Within(Offset + Delay)' /\ (elapsed <= Since)' /\ (Gap = Offset)' /\ intr_en_0' = 1 /\ polled' = FALSE
    BY <1>1, <1>2, <1>6, <2>1, Scale DEF Within, Running
  <2>4. ptimer_alarm_fired_callback'
    BY <1>2, <1>6 DEF Recording
  <2>5. QED BY <2>2, <2>3, <2>4 DEF PollsCaptures
<1>7. ~polled => Since <= Offset + 2 * Delay
  BY <1>1, <1>2, Scale
<1>8. QED BY <1>3, <1>4, <1>5, <1>6, <1>7, Counts

\* Neither a tick nor the interrupt makes the loop miss the capture.
LEMMA OneCaptureTick ==
  ASSUME Working, Tick, PollsCaptures
  PROVE  PollsCaptures'
<1>1. Since \in 0 .. N - 1 /\ Gap \in 0 .. N - 1 /\ late \in 0 .. Delay /\ elapsed \in Nat
  BY Elapsed DEF Working, Registers, Types
<1>2. /\ intr_en_0 = 1 /\ ptimer_alarm_fired_callback /\ Gap = Offset
      /\ AlarmOrCapture /\ Since <= Offset + Delay + late
      /\ polled => Since <= Offset + late
      /\ elapsed <= Since
  BY DEF PollsCaptures, Within
<1>3. Since' = Since + 1 /\ elapsed' \in {elapsed, elapsed + 1} /\ polled' = polled
  BY <1>1, <1>2, Ticks, Scale
<1>4. AlarmOrCapture'
  BY <1>1, <1>2, <1>3, Ticks, Scale DEF AlarmOrCapture, Recording, Captured
<1>5. /\ Within(Offset + Delay)' /\ (polled => Within(Offset))' /\ (elapsed <= Since)'
      /\ (Gap = Offset)' /\ intr_en_0' = 1
  BY <1>1, <1>2, <1>3, Ticks, Scale DEF Within
<1>6. ptimer_alarm_fired_callback'
  BY <1>2, Ticks DEF Recording
<1>7. QED BY <1>4, <1>5, <1>6 DEF PollsCaptures

\* The interrupt is the capture.
LEMMA OneCaptureInterrupt ==
  ASSUME Working, Interrupt, PollsCaptures
  PROVE  PollsCaptures'
BY Interrupts DEF PollsCaptures, Within, AlarmOrCapture, Running

\* A loop on INTR_0 ends with the flag seen, as it does not give up before the alarm.
LEMMA Latched ==
  ASSUME Working, Thread, PollsLatched,
         instruction.op = "latched", instruction.timed = TRUE \/ (instruction.timed = FALSE /\ t = 0)
  PROVE  /\ Recording /\ Aimed /\ UNCHANGED <<intr_en_0, time_0, time_1, pass, high>>
         /\ g_boot_ptimer_state'.intr_en_0 = g_boot_ptimer_state.intr_en_0
         /\ g_boot_ptimer_state'.alarm_0 = g_boot_ptimer_state.alarm_0
         /\ \/ UNCHANGED <<test, pc, t>> /\ PollsLatched'
            \/ /\ Onward /\ late' = 0 /\ latched' = TRUE /\ intr_0 = 1 /\ Since <= Offset + 2 * Delay
               /\ t' = time_0 /\ Since' = 0
               /\ test = 1 => g_boot_ptimer_state'.alarm_latched
<1>1. /\ Since \in 0 .. N - 1 /\ Gap \in 0 .. N - 1 /\ Delta = Since /\ late \in 0 .. Delay /\ elapsed \in Nat
      /\ time_0 = IF t + Since < N THEN t + Since ELSE t + Since - N
      /\ polled \in BOOLEAN /\ intr_0 \in {0, 1} /\ time_0 \in 0 .. N - 1
      /\ g_boot_ptimer_state \in [alarm_0 : 0 .. N - 1, intr_en_0 : {0, 1}, alarm_latched : BOOLEAN]
  BY Elapsed DEF Working, Registers, Types
<1>2. /\ intr_en_0 = 0 /\ Gap \in 1 .. Offset
      /\ Comes /\ Since <= Offset + Delay + late
      /\ polled => Since <= Offset + late
      /\ elapsed <= Since
  BY DEF PollsLatched, Within
<1>4. PollInterrupt \/ PollTime
  BY Dispatch
<1>5. ~polled => Since <= Offset + 2 * Delay
  BY <1>1, <1>2, Scale
<1>6. CASE PollInterrupt /\ intr_0 = 1
  <2>1. Since' = 0
    <3>1. \A x \in Int : x >= x /\ x - x = 0
      OBVIOUS
    <3>2. t' = time_0 /\ time_0' = time_0 /\ time_0 \in Int
      BY <1>1, <1>6, Scale DEF PollInterrupt, registers, counter
    <3>3. QED BY <3>1, <3>2 DEF Since, Ahead
  <2>2. /\ Onward /\ late' = 0 /\ latched' = TRUE /\ t' = time_0 /\ ~polled
        /\ Recording /\ Aimed /\ UNCHANGED <<intr_en_0, time_0, time_1, pass, high>>
    BY <1>6, Advances DEF PollInterrupt, Waits, Recording, Captured, Aimed, registers, counter, isr,
       verdicts
  <2>3. g_boot_ptimer_state' = IF InBoot THEN [g_boot_ptimer_state EXCEPT !.alarm_latched = TRUE]
                                         ELSE g_boot_ptimer_state
    BY <1>6 DEF PollInterrupt
  <2>4. /\ g_boot_ptimer_state'.intr_en_0 = g_boot_ptimer_state.intr_en_0
        /\ g_boot_ptimer_state'.alarm_0 = g_boot_ptimer_state.alarm_0
        /\ test = 1 => g_boot_ptimer_state'.alarm_latched
    BY <1>1, <2>3 DEF InBoot
  <2>5. QED BY <1>5, <1>6, <2>1, <2>2, <2>4
<1>7. CASE PollInterrupt /\ intr_0 # 1
  <2>1. /\ polled' = TRUE /\ late' = late /\ UNCHANGED <<test, pc, t, elapsed, g_boot_ptimer_state>>
        /\ Recording /\ Aimed /\ UNCHANGED <<intr_en_0, time_0, time_1, pass, high>> /\ Since' = Since
        /\ Gap' = Gap
    BY <1>7, Runs DEF PollInterrupt, Round, Recording, Captured, Running, Aimed, registers, counter,
       isr, verdicts
  <2>2. Since < Gap
    BY <1>2, <1>7 DEF Comes
  <2>3. PollsLatched'
    BY <1>1, <1>2, <2>1, <2>2, Scale DEF PollsLatched, Within, Comes, Aimed
  <2>4. QED BY <2>1, <2>3
<1>8. CASE PollTime
  <2>1. polled
    BY <1>8 DEF PollTime
  <2>2. Since <= Offset + Delay
    BY <1>1, <1>2, <2>1, Scale
  <2>3. ~(Delta > Offset + Over) /\ ~(elapsed >= Timeout)
    BY <1>1, <1>2, <2>2, Scale
  <2>4. t = 0 => ~(time_0 >= Offset + Over)
    BY <1>1, <2>2, Scale
  <2>5. ~OverdueIn(Delta)
    BY <2>3, <2>4 DEF OverdueIn
  <2>6. /\ polled' = FALSE /\ late' = 0 /\ UNCHANGED <<test, pc, t, elapsed, g_boot_ptimer_state>>
        /\ Recording /\ Aimed /\ UNCHANGED <<intr_en_0, time_0, time_1, pass, high>> /\ Since' = Since
        /\ Gap' = Gap
    BY <1>8, <2>5, Runs DEF PollTime, Round, Recording, Captured, Running, Aimed, registers, counter,
       isr, verdicts
  <2>7. PollsLatched'
    BY <1>1, <1>2, <2>1, <2>6, Scale DEF PollsLatched, Within, Comes, Aimed
  <2>8. QED BY <2>6, <2>7
<1>9. QED BY <1>1, <1>4, <1>6, <1>7, <1>8

\* Nor does a tick make the loop miss the flag.
LEMMA LatchedTick ==
  ASSUME Working, Tick, PollsLatched
  PROVE  PollsLatched'
<1>1. Since \in 0 .. N - 1 /\ Gap \in 0 .. N - 1 /\ late \in 0 .. Delay /\ elapsed \in Nat /\ intr_0 \in {0, 1}
  BY Elapsed DEF Working, Registers, Types
<1>2. QED
  BY <1>1, Ticks, Scale DEF PollsLatched, Within, Comes

\* The periodic alarm.
LEMMA TwoRoundsTick ==
  ASSUME Working, Tick, TwoRounds, Waiting
  PROVE  TwoRounds'
<1>1. /\ Since \in 0 .. N - 1 /\ late \in 0 .. Delay /\ elapsed \in Nat /\ intr_0 \in {0, 1}
      /\ Len(g_alarm_captures) \in Nat
  BY Elapsed DEF Working, Registers, Types
<1>2. /\ Gap = Offset + 1 /\ intr_en_0 = 1 /\ ptimer_alarm_fired_callback
      /\ Rounds /\ elapsed <= LongTimeout /\ intr_0 = 0
  BY <1>1, Ticks DEF TwoRounds
<1>3. /\ Gap' = Gap /\ intr_en_0' = intr_en_0 /\ late' = late + 1 /\ late < Delay
      /\ g_alarm_captures' = g_alarm_captures /\ ptimer_alarm_fired_callback' = ptimer_alarm_fired_callback
      /\ Since' = (IF Since = N - 1 THEN 0 ELSE Since + 1)
      /\ intr_0' = (IF Since' = Gap THEN 1 ELSE 0)
      /\ elapsed' = IF elapsed < LongTimeout THEN elapsed + 1 ELSE elapsed
  BY <1>2, Ticks DEF Recording
<1>4. CASE Counted(0, Since)
  <2>1. CASE Since = N - 1
    <3>1. Fired = 1 /\ Since' = 0 /\ intr_0' = 0 /\ Fired' = 0
      BY <1>2, <1>3, <2>1, Scale DEF Fired
    <3>2. Counted(1, Since + N)'
      BY <1>1, <1>2, <1>3, <1>4, <2>1, <3>1, Scale DEF Counted
    <3>3. QED BY <1>1, <1>2, <1>3, <3>1, <3>2, Scale DEF Rounds, TwoRounds
  <2>2. CASE Since # N - 1
    <3>1. Since' = Since + 1 /\ intr_0' + Fired = Fired' /\ Fired \in {0, 1} /\ Fired' \in {0, 1}
      BY <1>1, <1>2, <1>3, <2>2, Scale DEF Fired
    <3>2. Counted(0, Since)'
      BY <1>1, <1>2, <1>3, <1>4, <3>1, Scale DEF Counted
    <3>3. QED BY <1>1, <1>2, <1>3, <3>2, Scale DEF Rounds, TwoRounds
  <2>3. QED BY <2>1, <2>2
<1>5. CASE Counted(1, Since + N)
  <2>1. Since # N - 1
    BY <1>1, <1>2, <1>3, <1>5, Scale DEF Counted
  <2>2. Since' = Since + 1 /\ intr_0' + Fired = Fired' /\ Fired \in {0, 1} /\ Fired' \in {0, 1}
    BY <1>1, <1>2, <1>3, <2>1, Scale DEF Fired
  <2>3. Counted(1, Since + N)'
    BY <1>1, <1>2, <1>3, <1>5, <2>2, Scale DEF Counted
  <2>4. intr_0' = 1 => Since' = Gap'
    BY <1>3
  <2>5. QED BY <1>1, <1>2, <1>3, <2>3, <2>4, Scale DEF Rounds, TwoRounds
<1>6. QED BY <1>2, <1>4, <1>5 DEF Rounds

\* The interrupt is one of the two captures.
LEMMA TwoRoundsInterrupt ==
  ASSUME Working, Interrupt, TwoRounds
  PROVE  TwoRounds'
<1>1. /\ Since \in 0 .. N - 1 /\ Gap \in 0 .. N - 1 /\ Len(g_alarm_captures) \in Nat
  BY Elapsed DEF Working, Registers
<1>2. /\ Gap = Offset + 1 /\ intr_en_0 = 1 /\ ptimer_alarm_fired_callback
      /\ Rounds /\ elapsed <= LongTimeout
  BY DEF TwoRounds
<1>3. /\ Gap' = Gap /\ Since' = Since /\ intr_0 = 1 /\ intr_0' = 0
      /\ UNCHANGED <<intr_en_0, late, elapsed, ptimer_alarm_fired_callback>>
      /\ Len(g_alarm_captures) < kMaxAlarmCaptures => Len(g_alarm_captures') = Len(g_alarm_captures) + 1
  BY <1>2, Interrupts DEF Running
<1>4. Len(g_alarm_captures) < kMaxAlarmCaptures
  BY <1>1, <1>2, <1>3, Scale DEF Rounds, Counted, Fired
<1>5. Rounds'
  BY <1>1, <1>2, <1>3, <1>4 DEF Rounds, Counted, Fired
<1>6. QED BY <1>2, <1>3, <1>5 DEF TwoRounds

\* The loop does not end before LongTimeout, when both are recorded.
LEMMA TwoRoundsPoll ==
  ASSUME Working, Thread, TwoRounds, instruction.op = "captures",
         instruction.count = 5, instruction.giveup = "never", instruction.limit = LongTimeout
  PROVE  /\ Unread /\ Recording /\ Running /\ Aimed /\ Gap' = Gap /\ UNCHANGED intr_en_0
         /\ \/ UNCHANGED <<test, pc>> /\ TwoRounds'
            \/ /\ Onward /\ late' = 0 /\ intr_0 = 0 /\ Len(g_alarm_captures) = 2
               /\ Since > Gap /\ Since <= LongTimeout - N + 3 * Delay
<1>1. /\ Since \in 0 .. N - 1 /\ late \in 0 .. Delay /\ elapsed \in Nat /\ intr_0 \in {0, 1}
      /\ Len(g_alarm_captures) \in Nat
  BY Elapsed DEF Working, Registers, Types
<1>2. /\ Gap = Offset + 1 /\ intr_en_0 = 1 /\ ptimer_alarm_fired_callback
      /\ Rounds /\ elapsed <= LongTimeout
  BY DEF TwoRounds
<1>3. ~(Len(g_alarm_captures) >= instruction.count)
  <2>1. Len(g_alarm_captures) <= 2
    BY <1>1, <1>2, Scale DEF Rounds, Counted, Fired
  <2>2. QED BY <1>1, <2>1
<1>4. ~GivesUp
  BY DEF GivesUp
<1>5. CASE UNCHANGED <<test, pc, elapsed, late>>
  <2>1. Unread /\ Recording /\ Running /\ Aimed /\ Gap' = Gap /\ UNCHANGED intr_en_0
    BY Counts
  <2>2. TwoRounds'
    BY <1>2, <1>5, <2>1 DEF TwoRounds, Rounds, Counted, Fired, Recording, Running, Aimed
  <2>3. QED BY <1>5, <2>1, <2>2
<1>6. CASE ~(elapsed >= LongTimeout) /\ late' = 0 /\ UNCHANGED <<test, pc, elapsed>>
  <2>1. Unread /\ Recording /\ Running /\ Aimed /\ Gap' = Gap /\ UNCHANGED intr_en_0
    BY Counts
  <2>2. Rounds'
    BY <1>1, <1>2, <1>6, <2>1, Scale DEF Rounds, Counted, Fired, Recording, Running, Aimed
  <2>3. TwoRounds'
    BY <1>2, <1>6, <2>1, <2>2 DEF TwoRounds, Recording
  <2>4. QED BY <1>6, <2>1, <2>3
<1>7. CASE elapsed >= LongTimeout /\ Onward /\ late' = 0
  <2>1. Unread /\ Recording /\ Running /\ Aimed /\ Gap' = Gap /\ UNCHANGED intr_en_0
    BY Counts
  <2>2. elapsed = LongTimeout
    BY <1>1, <1>2, <1>7, Scale
  <2>3. ~Counted(0, Since)
    BY <1>1, <2>2, Scale DEF Counted
  <2>4. Counted(1, Since + N) /\ (intr_0 = 1 => Since = Gap)
    BY <1>2, <2>3 DEF Rounds
  <2>5. Since > Gap /\ Since <= LongTimeout - N + 3 * Delay
    BY <1>1, <1>2, <2>2, <2>4, Scale DEF Counted
  <2>6. intr_0 = 0 /\ Len(g_alarm_captures) = 2
    <3>1. Fired = 1 /\ intr_0 # 1
      BY <1>1, <1>2, <2>4, <2>5, Scale DEF Fired
    <3>2. Len(g_alarm_captures) + intr_0 = 2
      BY <2>4, <3>1 DEF Counted
    <3>3. intr_0 = 0
      BY <1>1, <3>1
    <3>4. QED BY <1>1, <3>2, <3>3
  <2>7. QED BY <1>7, <2>1, <2>5, <2>6
<1>8. QED
  <2>1. instruction.limit = LongTimeout
    OBVIOUS
  <2>2. QED BY <1>3, <1>4, <1>5, <1>6, <1>7, <2>1, Counts

-----------------------------------------------------------------------------
(* The programs, instruction by instruction *)

\* RunPreInitBootAlarmTest.
LEMMA BootAlarmProgram ==
  LET s == Programs[1] IN
  /\ Len(s) = 6
  /\ s[1] = [op |-> "pb_init"] /\ s[2] = [op |-> "save"] /\ s[3] = Ack
  /\ s[4] = Time("boot", 0 - Offset) /\ s[5] = PollLatched /\ s[6] = Ack
<1>1. Programs[1] = BootAlarm
  BY DEF Programs
<1>2. QED BY <1>1 DEF BootAlarm

\* TestAlarmUnprogrammed.
LEMMA AlarmUnprogrammedProgram ==
  LET s == Programs[2] IN
  /\ Len(s) = 14
  /\ s[1] = Log /\ s[2] = En(0) /\ s[3] = Ack /\ s[4].op = "capture" /\ s[5] = Alarm("boot", 0)
  /\ s[6] = Time("boot", 0 - Offset) /\ s[7] = En(1) /\ s[8] = PollCaptures(1, "delta", Timeout)
  /\ s[9] = En(0) /\ s[10] = Release /\ s[11] = Check("boot", 0) /\ s[12] = Check("captured", 0)
  /\ s[13] = En(0) /\ s[14] = Ack
<1>1. Programs[2] = AlarmUnprogrammed
  BY DEF Programs
<1>2. QED BY <1>1 DEF AlarmUnprogrammed, Quiet, Capture

\* TestAlarmTargetZero.
LEMMA AlarmTargetZeroProgram ==
  LET s == Programs[3] IN
  /\ Len(s) = 13
  /\ s[1] = Log /\ s[2] = En(0) /\ s[3] = Ack /\ s[4].op = "capture" /\ s[5] = Alarm("zero", 0)
  /\ s[6] = Time("zero", 0 - Offset) /\ s[7] = En(1) /\ s[8] = PollCaptures(1, "wrapped", Timeout)
  /\ s[9] = En(0) /\ s[10] = Release /\ s[11] = Check("captured", 0) /\ s[12] = En(0) /\ s[13] = Ack
<1>1. Programs[3] = AlarmTargetZero
  BY DEF Programs
<1>2. QED BY <1>1 DEF AlarmTargetZero, Quiet, Capture

\* TestAlarmRearm.
LEMMA AlarmRearmProgram ==
  LET s == Programs[4] IN
  /\ Len(s) = 12
  /\ s[1] = Log /\ s[2] = En(0) /\ s[3] = Ack /\ s[4].op = "capture" /\ s[5] = ReadTime
  /\ s[6] = Alarm("t", Offset) /\ s[7] = En(1) /\ s[8] = Log /\ s[9] = PollCaptures(1, "never", Timeout)
  /\ s[10] = En(0) /\ s[11] = Release /\ s[12] = Check("captured", 0)
<1>1. Programs[4] = AlarmRearm
  BY DEF Programs
<1>2. QED BY <1>1 DEF AlarmRearm, Quiet, ArmAhead, Capture

\* TestAlarmAdjustPreservesPendingFlag.
LEMMA AlarmAdjustPreservesPendingFlagProgram ==
  LET s == Programs[5] IN
  /\ Len(s) = 22
  /\ s[1] = Log /\ s[2] = En(0) /\ s[3] = Ack /\ s[4].op = "capture" /\ s[5] = ReadTime
  /\ s[6] = Alarm("t", Offset) /\ s[7] = ReadTime /\ s[8] = Log /\ s[9] = PollLatched
  /\ s[10] = Check("latched", 9) /\ s[11] = Log /\ s[12] = Check("quiet", 0) /\ s[13] = Alarm("t", Far)
  /\ s[14] = Check("pending", 5) /\ s[15] = Log /\ s[16] = En(1) /\ s[17] = Sleep /\ s[18] = En(0)
  /\ s[19] = Check("captured", 0) /\ s[20] = En(0) /\ s[21] = Ack /\ s[22] = Release
<1>1. Programs[5] = AlarmAdjustPreservesPendingFlag
  BY DEF Programs
<1>2. QED BY <1>1 DEF AlarmAdjustPreservesPendingFlag, Quiet, ArmAhead, Capture

\* TestAlarmRolloverAndPeriodicity.
LEMMA AlarmRolloverAndPeriodicityProgram ==
  LET s == Programs[6] IN
  /\ Len(s) = 12
  /\ s[1] = Log /\ s[2] = En(0) /\ s[3] = Ack /\ s[4] = Time("zero", 0 - Offset)
  /\ s[5] = Alarm("zero", 1) /\ s[6].op = "capture" /\ s[7] = Log /\ s[8] = En(1)
  /\ s[9] = PollCaptures(5, "never", LongTimeout) /\ s[10] = En(0) /\ s[11] = Release
  /\ s[12] = Check("two", 0)
<1>1. Programs[6] = AlarmRolloverAndPeriodicity
  BY DEF Programs
<1>2. QED BY <1>1 DEF AlarmRolloverAndPeriodicity, Quiet, Capture

\* TestAlarmSetInThePast.
LEMMA AlarmSetInThePastProgram ==
  LET s == Programs[7] IN
  /\ Len(s) = 13
  /\ s[1] = Log /\ s[2] = En(0) /\ s[3] = Ack /\ s[4] = Time("zero", Far) /\ s[5] = Alarm("zero", Half)
  /\ s[6] = Log /\ s[7].op = "capture" /\ s[8] = En(1) /\ s[9] = PollCaptures(1, "never", Timeout)
  /\ s[10] = Check("acknowledged", 0) /\ s[11] = En(0) /\ s[12] = Release /\ s[13] = Check("quiet", 0)
<1>1. Programs[7] = AlarmSetInThePast
  BY DEF Programs
<1>2. QED BY <1>1 DEF AlarmSetInThePast, Quiet, Half, Capture

\* TestAlarmUnalignedTarget.
LEMMA AlarmUnalignedTargetProgram ==
  LET s == Programs[8] IN
  /\ Len(s) = 11
  /\ s[1] = Log /\ s[2] = En(0) /\ s[3] = Ack /\ s[4] = Time("zero", 0) /\ s[5] = Alarm("zero", 0)
  /\ s[6].op = "capture" /\ s[7] = En(1) /\ s[8] = Sleep /\ s[9] = En(0) /\ s[10] = Release
  /\ s[11] = Check("quiet", 0)
<1>1. Programs[8] = AlarmUnalignedTarget
  BY DEF Programs
<1>2. QED BY <1>1 DEF AlarmUnalignedTarget, Quiet, Capture

\* TestRegisterBitmasks.
LEMMA RegisterBitmasksProgram ==
  LET s == Programs[9] IN
  /\ Len(s) = 7
  /\ s[1] = Log /\ s[2] = Alarm("zero", Half) /\ s[3] = Log /\ s[4] = Time("zero", -1) /\ s[5] = Log
  /\ s[6] = High(HighSize - 1) /\ s[7] = Log
<1>1. Programs[9] = RegisterBitmasks
  BY DEF Programs
<1>2. QED BY <1>1 DEF RegisterBitmasks, Half

\* TestInterruptMasking.
LEMMA InterruptMaskingProgram ==
  LET s == Programs[10] IN
  /\ Len(s) = 21
  /\ s[1] = Log /\ s[2] = En(0) /\ s[3] = Ack /\ s[4] = Time("zero", 0) /\ s[5] = Alarm("zero", Offset)
  /\ s[6].op = "capture" /\ s[7] = En(1) /\ s[8] = En(0) /\ s[9] = Log /\ s[10] = Spin(NotOver)
  /\ s[11] = Log /\ s[12] = Check("quiet", 0) /\ s[13] = Check("pending", 6) /\ s[14] = Log
  /\ s[15] = En(1) /\ s[16] = Sleep /\ s[17] = En(0) /\ s[18] = Release /\ s[19] = Check("captured", 0)
  /\ s[20] = En(0) /\ s[21] = Ack
<1>1. Programs[10] = InterruptMasking
  BY DEF Programs
<1>2. QED BY <1>1 DEF InterruptMasking, Quiet, Capture

\* TestAlarmFlagIsSetWhileMasked.
LEMMA AlarmFlagIsSetWhileMaskedProgram ==
  LET s == Programs[11] IN
  /\ Len(s) = 20
  /\ s[1] = Log /\ s[2] = En(0) /\ s[3] = Ack /\ s[4].op = "capture" /\ s[5] = ReadTime
  /\ s[6] = Alarm("t", Offset) /\ s[7] = ReadTime /\ s[8] = Log /\ s[9] = PollLatched /\ s[10] = Log
  /\ s[11] = Check("quiet", 0) /\ s[12] = Check("latched", 5) /\ s[13] = Log /\ s[14] = En(1)
  /\ s[15] = Sleep /\ s[16] = En(0) /\ s[17] = Check("captured", 0) /\ s[18] = En(0) /\ s[19] = Ack
  /\ s[20] = Release
<1>1. Programs[11] = AlarmFlagIsSetWhileMasked
  BY DEF Programs
<1>2. QED BY <1>1 DEF AlarmFlagIsSetWhileMasked, Quiet, ArmAhead, Capture

\* TestAlarmFlagIsSetWhileMaskedResetTime.
LEMMA AlarmFlagIsSetWhileMaskedResetTimeProgram ==
  LET s == Programs[12] IN
  /\ Len(s) = 14
  /\ s[1] = Log /\ s[2] = En(0) /\ s[3] = Ack /\ s[4].op = "capture" /\ s[5] = Time("zero", 0)
  /\ s[6] = Alarm("zero", Offset) /\ s[7] = PollLatchedUntil /\ s[8] = Log /\ s[9] = Check("quiet", 0)
  /\ s[10] = Check("latched", 0) /\ s[11] = Log /\ s[12] = En(0) /\ s[13] = Ack /\ s[14] = Release
<1>1. Programs[12] = AlarmFlagIsSetWhileMaskedResetTime
  BY DEF Programs
<1>2. QED BY <1>1 DEF AlarmFlagIsSetWhileMaskedResetTime, Quiet, Capture

\* TestInterruptAcknowledge.
LEMMA InterruptAcknowledgeProgram ==
  LET s == Programs[13] IN
  /\ Len(s) = 14
  /\ s[1] = Log /\ s[2] = En(0) /\ s[3] = Ack /\ s[4] = Time("zero", 0) /\ s[5] = Alarm("zero", Offset)
  /\ s[6] = Spin(NotOver) /\ s[7] = Check("pending", 0) /\ s[8] = Log /\ s[9] = Acknowledge(0)
  /\ s[10] = Check("pending", 0) /\ s[11] = Log /\ s[12] = Ack /\ s[13] = Check("acknowledged", 0)
  /\ s[14] = Log
<1>1. Programs[13] = InterruptAcknowledge
  BY DEF Programs
<1>2. QED BY <1>1 DEF InterruptAcknowledge, Quiet

\* TestTimeRegisterReadWrite.
LEMMA TimeRegisterReadWriteProgram ==
  LET s == Programs[14] IN
  /\ Len(s) = 47
  /\ s[1] = Log /\ s[2] = High(2) /\ s[3] = Time("zero", 0) /\ s[4] = ReadTime /\ s[5] = ReadHigh
  /\ s[6] = Log /\ s[7] = CheckValue("time_1", 2) /\ s[8] = CheckValue("time_0", 0) /\ s[9] = High(2)
  /\ s[10] = Time("zero", 1) /\ s[11] = ReadTime /\ s[12] = ReadHigh /\ s[13] = Log
  /\ s[14] = CheckValue("time_1", 2) /\ s[15] = CheckValue("time_0", 1) /\ s[16] = High(2)
  /\ s[17] = Time("zero", Far) /\ s[18] = ReadTime /\ s[19] = ReadHigh /\ s[20] = Log
  /\ s[21] = CheckValue("time_1", 2) /\ s[22] = CheckValue("time_0", Far) /\ s[23] = High(2)
  /\ s[24] = Time("zero", 4 * Far) /\ s[25] = ReadTime /\ s[26] = ReadHigh /\ s[27] = Log
  /\ s[28] = CheckValue("time_1", 2) /\ s[29] = CheckValue("time_0", 4 * Far) /\ s[30] = Time("zero", 2)
  /\ s[31] = High(1) /\ s[32] = ReadTime /\ s[33] = ReadHigh /\ s[34] = Log
  /\ s[35] = CheckValue("time_1", 1) /\ s[36] = Time("zero", 2) /\ s[37] = High(2) /\ s[38] = ReadTime
  /\ s[39] = ReadHigh /\ s[40] = Log /\ s[41] = CheckValue("time_1", 2) /\ s[42] = Time("zero", 2)
  /\ s[43] = High(HighSize - 1) /\ s[44] = ReadTime /\ s[45] = ReadHigh /\ s[46] = Log
  /\ s[47] = CheckValue("time_1", HighSize - 1)
<1>1. Programs[14] = TimeRegisterReadWrite
  BY DEF Programs
<1>2. QED BY <1>1 DEF TimeRegisterReadWrite

\* TestTimeRegisterRollover.
LEMMA TimeRegisterRolloverProgram ==
  LET s == Programs[15] IN
  /\ Len(s) = 10
  /\ s[1] = Log /\ s[2] = High(1) /\ s[3] = Time("zero", -1) /\ s[4] = Log /\ s[5] = Spin({N - 1})
  /\ s[6] = ReadHigh /\ s[7] = ReadTime /\ s[8] = Log /\ s[9] = CheckValue("time_1", 2) /\ s[10] = Log
<1>1. Programs[15] = TimeRegisterRollover
  BY DEF Programs
<1>2. QED BY <1>1 DEF TimeRegisterRollover

-----------------------------------------------------------------------------
(* What the registers and the locals hold *)

Typed(s) ==
    \A i \in 1 .. Len(s) :
      /\ s[i].op = "en" => s[i].value \in {0, 1}
      /\ s[i].op \in {"alarm", "time"} => s[i].base \in {"zero", "t", "boot"} /\ s[i].off \in Int

\* What the programs write to the registers.
LEMMA TypedPrograms == \A n \in 1 .. 16 : Typed(Programs[n])
<1> USE Scale
     DEF Typed, En, Acknowledge, Ack, Alarm, Time, ReadTime, High, ReadHigh, Capture, Release,
         PollCaptures,
        PollLatched, PollLatchedUntil, Spin, Sleep, Log, Check, CheckValue
<1>1. Typed(Programs[1])
  BY BootAlarmProgram
<1>2. Typed(Programs[2])
  BY AlarmUnprogrammedProgram
<1>3. Typed(Programs[3])
  BY AlarmTargetZeroProgram
<1>4. Typed(Programs[4])
  BY AlarmRearmProgram
<1>5. Typed(Programs[5])
  BY AlarmAdjustPreservesPendingFlagProgram
<1>6. Typed(Programs[6])
  BY AlarmRolloverAndPeriodicityProgram
<1>7. Typed(Programs[7])
  BY AlarmSetInThePastProgram
<1>8. Typed(Programs[8])
  BY AlarmUnalignedTargetProgram
<1>9. Typed(Programs[9])
  BY RegisterBitmasksProgram
<1>10. Typed(Programs[10])
  BY InterruptMaskingProgram
<1>11. Typed(Programs[11])
  BY AlarmFlagIsSetWhileMaskedProgram
<1>12. Typed(Programs[12])
  BY AlarmFlagIsSetWhileMaskedResetTimeProgram
<1>13. Typed(Programs[13])
  BY InterruptAcknowledgeProgram
<1>14. Typed(Programs[14])
  BY TimeRegisterReadWriteProgram
<1>15. Typed(Programs[15])
  BY TimeRegisterRolloverProgram
<1>16. Typed(Programs[16])
  BY DEF Programs, ZeroDivisorClock, Quiet, ArmAhead
<1> HIDE Scale DEF Typed
<1>17. QED
  <2>1. \A n \in 1 .. 16 : \/ n = 1 \/ n = 2 \/ n = 3 \/ n = 4 \/ n = 5 \/ n = 6 \/ n = 7 \/ n = 8
                          \/ n = 9 \/ n = 10 \/ n = 11 \/ n = 12 \/ n = 13 \/ n = 14 \/ n = 15 \/ n = 16
    OBVIOUS
  <2>2. QED
    BY <2>1, <1>1, <1>2, <1>3, <1>4, <1>5, <1>6, <1>7, <1>8, <1>9, <1>10, <1>11, <1>12, <1>13, <1>14,
       <1>15, <1>16

\* What is written to TIME_0 or ALARM_0 fits.
LEMMA OperandFits ==
  ASSUME Types, Registers, ~Ended, instruction.op \in {"alarm", "time"}
  PROVE  Operand \in 0 .. N - 1
<1>1. instruction.base \in {"zero", "t", "boot"} /\ instruction.off \in Int
  BY Here, TypedPrograms DEF Typed, instruction
<1>2. t \in Int /\ g_boot_ptimer_state.alarm_0 \in Int
  BY Scale DEF Registers
<1>3. Base(instruction.base) \in Int
  BY <1>1, <1>2 DEF Base
<1>4. N \in Int /\ N > 0
  BY Scale
<1> DEFINE x == Base(instruction.base) + instruction.off + N
<1>5. x \in Int
  BY <1>1, <1>3, <1>4
<1> HIDE DEF x
<1>6. x % N \in 0 .. N - 1
  BY <1>4, <1>5
<1>7. QED BY <1>6 DEF Operand, x

\* The types of the registers and the locals.
LEMMA RegistersStep ==
  ASSUME Types, Registers, [Next]_vars
  PROVE  Registers'
<1>1. /\ time_0 \in 0 .. N - 1 /\ alarm_0 \in 0 .. N - 1 /\ t \in 0 .. N - 1 /\ elapsed \in Nat
      /\ intr_0 \in {0, 1} /\ intr_en_0 \in {0, 1}
      /\ polled \in BOOLEAN /\ latched \in BOOLEAN /\ pass \in BOOLEAN
      /\ g_alarm_captures \in Seq(Nat) /\ ptimer_alarm_count \in Nat
      /\ g_boot_ptimer_state \in [alarm_0 : 0 .. N - 1, intr_en_0 : {0, 1}, alarm_latched : BOOLEAN]
  BY DEF Registers
<1>2. CASE UNCHANGED vars
  BY <1>1, <1>2 DEF vars, registers, counter, isr, locals, verdicts, Registers
<1>3. CASE Tick
  <2>1. time_0' \in 0 .. N - 1
    <3>1. N \in Int /\ N > 0 /\ time_0 + 1 \in Int
      BY <1>1, Scale
    <3>2. (time_0 + 1) % N \in 0 .. N - 1
      BY <3>1
    <3>3. QED BY <1>3, <3>2 DEF Tick
  <2>2. intr_0' \in {0, 1} /\ elapsed' \in Nat
    BY <1>1, <1>3 DEF Tick
  <2>3. QED BY <1>1, <1>3, <2>1, <2>2 DEF Tick, isr, locals, verdicts, Registers
<1>4. CASE Interrupt
  <2>1. ptimer_alarm_count' \in Nat /\ g_alarm_captures' \in Seq(Nat)
    <3>1. ptimer_alarm_count' = ptimer_alarm_count + 1 /\ ptimer_alarm_count' \in Nat
      BY <1>1, <1>4 DEF Interrupt
    <3>2. Append(g_alarm_captures, ptimer_alarm_count') \in Seq(Nat)
      BY <1>1, <3>1
    <3>3. g_alarm_captures' \in {g_alarm_captures, Append(g_alarm_captures, ptimer_alarm_count')}
      BY <1>4 DEF Interrupt, CapturingAlarmCallback
    <3>4. QED BY <1>1, <3>1, <3>2, <3>3
  <2>2. QED BY <1>1, <1>4, <2>1 DEF Interrupt, counter, locals, verdicts, Registers
<1>5. CASE Thread
  <2>1. ~Ended
    BY <1>5, Dispatch
  <2>2. Advance => polled' \in BOOLEAN /\ elapsed' \in Nat
    <3>1. Advance => polled' = FALSE /\ elapsed' = 0
      BY DEF Advance
    <3>2. FALSE \in BOOLEAN /\ 0 \in Nat
      OBVIOUS
    <3>3. QED BY <3>1, <3>2
  <2>3. \A b \in BOOLEAN : Round(b) => polled' \in BOOLEAN /\ elapsed' \in Nat
    BY <1>1 DEF Round
  <2> USE DEF registers, counter, isr, locals, verdicts
  <2>4. CASE WriteEnable
    <3>1. intr_en_0' \in {0, 1}
      BY <2>1, <2>4, Here, TypedPrograms DEF WriteEnable, At, Typed, instruction
    <3>2. QED BY <1>1, <2>2, <2>4, <3>1 DEF WriteEnable, Registers
  <2>5. CASE WriteAck
    BY <1>1, <2>2, <2>5 DEF WriteAck, Registers
  <2>6. CASE WriteAlarm
    <3>1. Operand \in 0 .. N - 1
      BY <2>1, <2>6, OperandFits DEF WriteAlarm, At
    <3>2. intr_0' \in {0, 1}
      BY <1>1, <2>6 DEF WriteAlarm
    <3>3. QED BY <1>1, <2>2, <2>6, <3>1, <3>2 DEF WriteAlarm, Registers
  <2>7. CASE WriteTime
    <3>1. Operand \in 0 .. N - 1
      BY <2>1, <2>7, OperandFits DEF WriteTime, At
    <3>2. QED BY <1>1, <2>2, <2>7, <3>1 DEF WriteTime, Registers
  <2>8. CASE WriteHigh \/ ReadHighStep \/ ReadTimeStep \/ ReleaseStep \/ SleepStep \/ LogStep
    BY <1>1, <2>2, <2>8 DEF WriteHigh, ReadHighStep, ReadTimeStep, ReleaseStep, SleepStep, LogStep, Registers
  <2>9. CASE CaptureStep
    <3>1. g_alarm_captures' \in Seq(Nat) /\ ptimer_alarm_count' \in Nat
      BY <1>1, <2>9 DEF CaptureStep
    <3>2. QED BY <1>1, <2>2, <2>9, <3>1 DEF CaptureStep, Registers
  <2>10. CASE PbInit
    BY <1>1, <2>2, <2>10 DEF PbInit, Registers
  <2>11. CASE SaveRegisters
    BY <1>1, <2>2, <2>11 DEF SaveRegisters, Registers
  <2>12. CASE PollCaptureCount \/ PollCaptureTime \/ SpinStep
    <3>1. polled' \in BOOLEAN /\ elapsed' \in Nat
      BY <2>2, <2>3, <2>12 DEF PollCaptureCount, PollCaptureTime, SpinStep
    <3>2. QED BY <1>1, <2>12, <3>1 DEF PollCaptureCount, PollCaptureTime, SpinStep, Registers
  <2>13. CASE PollInterrupt
    <3>1. polled' \in BOOLEAN /\ elapsed' \in Nat
      BY <2>2, <2>3, <2>13 DEF PollInterrupt
    <3>2. /\ latched' \in BOOLEAN /\ t' \in 0 .. N - 1
          /\ g_boot_ptimer_state' \in [alarm_0 : 0 .. N - 1, intr_en_0 : {0, 1}, alarm_latched : BOOLEAN]
      BY <1>1, <2>13 DEF PollInterrupt
    <3>3. QED BY <1>1, <2>13, <3>1, <3>2 DEF PollInterrupt, Registers
  <2>14. CASE PollTime
    <3>1. polled' \in BOOLEAN /\ elapsed' \in Nat /\ latched' \in BOOLEAN
      BY <1>1, <2>2, <2>3, <2>14 DEF PollTime
    <3>2. QED BY <1>1, <2>14, <3>1 DEF PollTime, Registers
  <2>15. CASE CheckStep
    <3>1. polled' \in BOOLEAN /\ elapsed' \in Nat /\ pass' \in BOOLEAN
      BY <1>1, <2>2, <2>15 DEF CheckStep
    <3>2. QED BY <1>1, <2>15, <3>1 DEF CheckStep, Registers
  <2>16. QED
    BY <1>5, <2>4, <2>5, <2>6, <2>7, <2>8, <2>9, <2>10, <2>11, <2>12, <2>13, <2>14, <2>15 DEF Thread
<1>6. QED BY <1>2, <1>3, <1>4, <1>5 DEF Next, End

-----------------------------------------------------------------------------
(* Where an alarm is set, and TIME_0 *)

\* The alarm is set ahead of what was read of TIME_0.
LEMMA ArmsAhead ==
  ASSUME Working, Thread, instruction.op = "alarm", instruction.base = "t", instruction.off \in 0 .. N - 1
  PROVE  /\ Onward /\ late' = late /\ Unread /\ Recording /\ Running
         /\ UNCHANGED <<intr_en_0, intr_0>> /\ Gap' = instruction.off
<1> DEFINE off == instruction.off
<1>1. alarm_0' = (t + off + N) % N /\ t' = t
  BY Alarms DEF Base, Running
<1>2. off \in 0 .. N - 1
  OBVIOUS
<1> HIDE DEF off
<1>3. t \in 0 .. N - 1 /\ N \in Int
  BY Scale DEF Working, Registers
<1>4. t + off \in (0 - N) .. 2 * N - 1
  BY <1>2, <1>3
<1>5. alarm_0' = IF t + off < N THEN t + off ELSE t + off - N
  <2> DEFINE a == t + off
  <2>1. alarm_0' = (a + N) % N /\ a \in (0 - N) .. 2 * N - 1 /\ ~(a < 0)
    BY <1>1, <1>2, <1>3, <1>4
  <2> HIDE DEF a
  <2>2. alarm_0' = IF a < N THEN a ELSE a - N
    BY <2>1, Remainder
  <2>3. QED BY <1>2, <1>3, <2>2 DEF a
<1>6. Gap' = off
  BY <1>1, <1>2, <1>3, <1>5 DEF Gap, Ahead
<1>7. QED BY <1>6, Alarms DEF off

\* The alarm is set at a time.
LEMMA ArmsAt ==
  ASSUME Working, Thread, instruction.op = "alarm", instruction.base = "zero", instruction.off \in 0 .. N - 1
  PROVE  /\ Onward /\ late' = late /\ Unread /\ Recording /\ Running
         /\ UNCHANGED <<intr_en_0, intr_0>> /\ alarm_0' = instruction.off
         /\ Gap' = IF instruction.off >= t THEN instruction.off - t ELSE instruction.off - t + N
<1> DEFINE off == instruction.off
<1>1. alarm_0' = (0 + off + N) % N /\ t' = t
  BY Alarms DEF Base, Running
<1>2. off \in 0 .. N - 1
  OBVIOUS
<1> HIDE DEF off
<1>3. t \in 0 .. N - 1 /\ N \in Int
  BY Scale DEF Working, Registers
<1>4. 0 + off = off /\ off \in (0 - N) .. 2 * N - 1
  BY <1>2, <1>3
<1>5. alarm_0' = off
  BY <1>1, <1>2, <1>3, <1>4, Remainder
<1>6. Gap' = IF off >= t THEN off - t ELSE off - t + N
  BY <1>1, <1>2, <1>3, <1>5 DEF Gap, Ahead
<1>7. QED BY <1>5, <1>6, Alarms DEF off

\* The alarm of the boot.
LEMMA ArmsBoot ==
  ASSUME Working, Thread, instruction.op = "alarm", instruction.base = "boot", instruction.off = 0
  PROVE  /\ Onward /\ late' = late /\ Unread /\ Recording /\ Running
         /\ UNCHANGED <<intr_en_0, intr_0>> /\ alarm_0' = g_boot_ptimer_state.alarm_0
<1> DEFINE b == g_boot_ptimer_state.alarm_0
<1>1. alarm_0' = (b + 0 + N) % N
  BY Alarms DEF Base
<1>2. b \in 0 .. N - 1 /\ N \in Int
  BY Scale DEF Working, Registers
<1> HIDE DEF b
<1>3. b + 0 = b /\ b \in (0 - N) .. 2 * N - 1
  BY <1>2
<1>4. alarm_0' = b
  BY <1>1, <1>2, <1>3, Remainder
<1>5. QED BY <1>4, Alarms DEF b

\* TIME_0 is set at a time.
LEMMA TimeAt ==
  ASSUME Working, Thread, instruction.op = "time", instruction.base = "zero",
         instruction.off \in (0 - N) .. N - 1
  PROVE  /\ Onward /\ late' = late /\ Unread /\ Recording /\ Aimed /\ UNCHANGED <<intr_en_0, time_1>>
         /\ time_0' = (IF instruction.off < 0 THEN instruction.off + N ELSE instruction.off) /\ t' = time_0'
         /\ Since' = 0
         /\ Gap' = IF alarm_0 >= t' THEN alarm_0 - t' ELSE alarm_0 - t' + N
<1> DEFINE off == instruction.off
<1>1. time_0' = (0 + off + N) % N /\ t' = time_0' /\ alarm_0' = alarm_0
  BY Times DEF Base, Aimed
<1>2. off \in (0 - N) .. N - 1
  OBVIOUS
<1> HIDE DEF off
<1>3. alarm_0 \in 0 .. N - 1 /\ N \in Int
  BY Scale DEF Working, Registers
<1>4. 0 + off = off /\ off \in (0 - N) .. 2 * N - 1 /\ off < N
  BY <1>2, <1>3
<1>5. time_0' = IF off < 0 THEN off + N ELSE off
  <2>1. time_0' = (off + N) % N
    BY <1>1, <1>4
  <2>2. QED BY <1>4, <2>1, Remainder
<1>6. time_0' \in Int
  BY <1>2, <1>3, <1>5
<1>7. Gap' = IF alarm_0 >= t' THEN alarm_0 - t' ELSE alarm_0 - t' + N
  BY <1>1, <1>2, <1>3 DEF Gap, Ahead
<1>8. QED BY <1>1, <1>5, <1>6, <1>7, Times DEF off

\* TIME_0 is set Offset before the alarm of the boot.
LEMMA TimeBoot ==
  ASSUME Working, Thread, instruction.op = "time", instruction.base = "boot", instruction.off = 0 - Offset,
         alarm_0 = g_boot_ptimer_state.alarm_0
  PROVE  /\ Onward /\ late' = late /\ Unread /\ Recording /\ Aimed /\ UNCHANGED <<intr_en_0, time_1>>
         /\ Since' = 0 /\ Gap' = Offset
<1>1. time_0' = (alarm_0 + (0 - Offset) + N) % N /\ t' = time_0' /\ alarm_0' = alarm_0
  BY Times DEF Base, Aimed
<1>2. alarm_0 \in 0 .. N - 1 /\ N \in Int /\ Offset \in Int /\ 0 < Offset /\ Offset < N
  BY Scale DEF Working, Registers
<1>3. alarm_0 + (0 - Offset) \in (0 - N) .. 2 * N - 1
  BY <1>2
<1>4. time_0' = IF alarm_0 < Offset THEN alarm_0 - Offset + N ELSE alarm_0 - Offset
  BY <1>1, <1>2, <1>3, Remainder
<1>5. time_0' \in Int /\ Gap' = Offset
  BY <1>1, <1>2, <1>4 DEF Gap, Ahead
<1>6. QED BY <1>1, <1>5, Times

-----------------------------------------------------------------------------
(* Test by test *)

\* RunPreInitBootAlarmTest.
LEMMA BootAlarmHolds ==
  ASSUME Working, Standing, test = 1, Tick \/ Interrupt \/ Thread
  PROVE  Standing' /\ pass' = pass
<1>1. /\ Since \in 0 .. N - 1 /\ Gap \in 0 .. N - 1 /\ late \in 0 .. Delay /\ elapsed \in Nat
      /\ t \in 0 .. N - 1 /\ intr_0 \in {0, 1} /\ pc \in 1 .. 6 /\ Len(Programs[test]) = 6
      /\ g_boot_ptimer_state.intr_en_0 \in {0, 1}
      /\ time_0 = IF t + Since < N THEN t + Since ELSE t + Since - N
  <2>1. Len(Programs[test]) = 6
    BY BootAlarmProgram
  <2>2. QED BY <2>1, Elapsed DEF Working, Registers, Types
<1>2. BootAlarmAt
  BY DEF Standing
<1>3. CASE Tick
  BY <1>1, <1>2, <1>3, Ticks, LatchedTick, Scale
     DEF Standing, BootAlarmAt, BootEnabled, Within, Unread, Recording, Comes
<1>4. CASE Interrupt
  BY <1>1, <1>2, <1>4, Interrupts, Scale
     DEF Standing, BootAlarmAt, BootEnabled, Within, Unread, Running, Comes, PollsLatched
<1>5. CASE Thread
  <2> USE Scale DEF Standing, BootAlarmAt, BootEnabled, Within, Comes, Onward, Unread, Recording, Running,
          Aimed
  <2>1. CASE pc = 1
    <3>1. instruction.op = "pb_init"
      BY <2>1, BootAlarmProgram DEF instruction
    <3>2. PbInit
      BY <1>5, <3>1, Dispatch
    <3>3. Onward /\ UNCHANGED <<pass>>
      BY <3>2, Advances DEF PbInit, locals, verdicts
    <3>4. QED BY <1>1, <2>1, <3>3
  <2>2. CASE pc = 2
    <3>1. instruction.op = "save"
      BY <2>2, BootAlarmProgram DEF instruction
    <3>2. SaveRegisters
      BY <1>5, <3>1, Dispatch
    <3>3. Onward /\ UNCHANGED <<pass, alarm_0, intr_en_0>> /\ g_boot_ptimer_state'.alarm_0 = alarm_0
         /\ g_boot_ptimer_state'.intr_en_0 = intr_en_0
      BY <3>2, Advances DEF SaveRegisters, locals, verdicts, registers
    <3>4. QED BY <1>1, <2>2, <3>3
  <2>3. CASE pc = 3
    <3>1. instruction.op = "ack" /\ instruction.value = 1
      BY <2>3, BootAlarmProgram DEF instruction, Ack, Acknowledge
    <3>2. QED BY <1>1, <1>2, <1>5, <2>3, <3>1, Acknowledges DEF PollsLatched
  <2>4. CASE pc = 4
    <3>1. instruction.op = "time" /\ instruction.base = "boot" /\ instruction.off = 0 - Offset
      BY <2>4, BootAlarmProgram DEF instruction, Time
    <3>2. alarm_0 = g_boot_ptimer_state.alarm_0
      BY <1>2, <2>4
    <3>3. /\ Onward /\ late' = late /\ Unread /\ Recording /\ Aimed /\ UNCHANGED intr_en_0
          /\ Since' = 0 /\ Gap' = Offset
      BY <1>5, <3>1, <3>2, TimeBoot
    <3>4. QED BY <1>1, <1>2, <2>4, <3>3 DEF PollsLatched
  <2>5. CASE pc = 5
    <3>1. instruction.op = "latched" /\ instruction.timed = TRUE
      BY <2>5, BootAlarmProgram DEF instruction, PollLatched
    <3>2. CASE BootEnabled
      <4>1. PollInterrupt \/ PollTime
        BY <1>5, <3>1, Dispatch
      <4>2. g_boot_ptimer_state \in [alarm_0 : 0 .. N - 1, intr_en_0 : {0, 1}, alarm_latched : BOOLEAN]
        BY DEF Working, Registers
      <4>3. /\ UNCHANGED <<intr_en_0, alarm_0, pass>>
            /\ g_boot_ptimer_state'.intr_en_0 = g_boot_ptimer_state.intr_en_0
            /\ g_boot_ptimer_state'.alarm_0 = g_boot_ptimer_state.alarm_0
        BY <4>1, <4>2 DEF PollInterrupt, PollTime, registers, verdicts
      <4>4. UNCHANGED <<test, pc>> \/ Onward
        BY <4>1, Advances DEF PollInterrupt, PollTime, Round
      <4>5. QED BY <1>1, <1>2, <2>5, <3>2, <4>3, <4>4
    <3>3. CASE PollsLatched
      <4>1. /\ Recording /\ Aimed /\ UNCHANGED <<intr_en_0, pass>>
            /\ g_boot_ptimer_state'.intr_en_0 = g_boot_ptimer_state.intr_en_0
            /\ g_boot_ptimer_state'.alarm_0 = g_boot_ptimer_state.alarm_0
            /\ \/ UNCHANGED <<test, pc, t>> /\ PollsLatched'
               \/ /\ Onward /\ late' = 0 /\ latched' = TRUE /\ intr_0 = 1 /\ Since <= Offset + 2 * Delay
                  /\ t' = time_0 /\ Since' = 0
                  /\ test = 1 => g_boot_ptimer_state'.alarm_latched
        BY <1>2, <1>5, <2>5, <3>1, <3>3, Latched
      <4>2. QED BY <1>1, <1>2, <2>5, <3>3, <4>1 DEF PollsLatched
    <3>4. QED BY <1>2, <2>5, <3>2, <3>3
  <2>6. CASE pc = 6
    <3>1. instruction.op = "ack" /\ instruction.value = 1
      BY <2>6, BootAlarmProgram DEF instruction, Ack, Acknowledge
    <3>2. QED BY <1>1, <1>2, <1>5, <2>6, <3>1, Acknowledges DEF AlarmUnprogrammedAt
  <2> HIDE DEF Standing
  <2>7. QED BY <1>1, <2>1, <2>2, <2>3, <2>4, <2>5, <2>6
<1>6. QED BY <1>3, <1>4, <1>5

\* TestAlarmUnprogrammed.
LEMMA AlarmUnprogrammedHolds ==
  ASSUME Working, Standing, test = 2, Tick \/ Interrupt \/ Thread
  PROVE  Standing' /\ pass' = pass
<1>1. /\ Since \in 0 .. N - 1 /\ Gap \in 0 .. N - 1 /\ late \in 0 .. Delay /\ elapsed \in Nat
      /\ t \in 0 .. N - 1 /\ intr_0 \in {0, 1} /\ pc \in 1 .. 14 /\ Len(Programs[test]) = 14
      /\ time_0 = IF t + Since < N THEN t + Since ELSE t + Since - N
  <2>1. Len(Programs[test]) = 14
    BY AlarmUnprogrammedProgram
  <2>2. QED BY <2>1, Elapsed DEF Working, Registers, Types
<1>2. AlarmUnprogrammedAt
  BY DEF Standing
<1>3. CASE Tick
  BY <1>1, <1>2, <1>3, Ticks, OneCaptureTick, Scale
     DEF Standing, AlarmUnprogrammedAt, BootEnabled, Within, Unread, Recording, AlarmOrCapture
<1>4. CASE Interrupt
  BY <1>1, <1>2, <1>4, Interrupts, OneCaptureInterrupt, Scale
     DEF Standing, AlarmUnprogrammedAt, BootEnabled, Within, Unread, Running, AlarmOrCapture, PollsCaptures
<1>5. CASE Thread
  <2> USE Scale DEF Standing, AlarmUnprogrammedAt, BootEnabled, Within, Onward, Unread, Recording, Running,
          Aimed
  <2>1. CASE pc = 1
    <3>1. instruction.op = "log"
      BY <2>1, AlarmUnprogrammedProgram DEF instruction, Log
    <3>2. QED BY <1>1, <1>2, <1>5, <2>1, <3>1, Logs
  <2>2. CASE pc = 2
    <3>1. instruction.op = "en" /\ instruction.value = 0
      BY <2>2, AlarmUnprogrammedProgram DEF instruction, En
    <3>2. QED BY <1>1, <1>2, <1>5, <2>2, <3>1, Enables
  <2>3. CASE pc = 3
    <3>1. instruction.op = "ack" /\ instruction.value = 1
      BY <2>3, AlarmUnprogrammedProgram DEF instruction, Ack, Acknowledge
    <3>2. QED BY <1>1, <1>2, <1>5, <2>3, <3>1, Acknowledges
  <2>4. CASE pc = 4
    <3>1. instruction.op = "capture"
      BY <2>4, AlarmUnprogrammedProgram DEF instruction
    <3>2. QED BY <1>1, <1>2, <1>5, <2>4, <3>1, Captures
  <2>5. CASE pc = 5
    <3>1. instruction.op = "alarm" /\ instruction.base = "boot" /\ instruction.off = 0
      BY <2>5, AlarmUnprogrammedProgram DEF instruction, Alarm
    <3>2. QED BY <1>1, <1>2, <1>5, <2>5, <3>1, ArmsBoot
  <2>6. CASE pc = 6
    <3>1. instruction.op = "time" /\ instruction.base = "boot" /\ instruction.off = 0 - Offset
      BY <2>6, AlarmUnprogrammedProgram DEF instruction, Time
    <3>2. alarm_0 = g_boot_ptimer_state.alarm_0
      BY <1>2, <2>6
    <3>3. /\ Onward /\ late' = late /\ Unread /\ Recording /\ Aimed /\ UNCHANGED intr_en_0
          /\ Since' = 0 /\ Gap' = Offset
      BY <1>5, <3>1, <3>2, TimeBoot
    <3>4. QED BY <1>1, <1>2, <2>6, <3>3 DEF AlarmOrCapture, PollsCaptures
  <2>7. CASE pc = 7
    <3>1. instruction.op = "en" /\ instruction.value = 1
      BY <2>7, AlarmUnprogrammedProgram DEF instruction, En
    <3>2. QED BY <1>1, <1>2, <1>5, <2>7, <3>1, Enables DEF AlarmOrCapture, PollsCaptures
  <2>8. CASE pc = 8
    <3>1. /\ instruction.op = "captures" /\ instruction.count = 1 /\ instruction.giveup = "delta"
          /\ instruction.limit = Timeout
      BY <2>8, AlarmUnprogrammedProgram DEF instruction, PollCaptures
    <3>2. PollsCaptures
      BY <1>2, <2>8
    <3>3. /\ Unread /\ Recording /\ Running /\ Aimed /\ Gap' = Gap /\ UNCHANGED intr_en_0
          /\ \/ UNCHANGED <<test, pc>> /\ PollsCaptures'
             \/ Onward /\ late' = 0 /\ Captured /\ Since <= Offset + 2 * Delay
      BY <1>5, <3>1, <3>2, OneCapture
    <3>4. QED BY <1>1, <1>2, <2>8, <3>3 DEF AlarmOrCapture, PollsCaptures
  <2>9. CASE pc = 9
    <3>1. instruction.op = "en" /\ instruction.value = 0
      BY <2>9, AlarmUnprogrammedProgram DEF instruction, En
    <3>2. QED BY <1>1, <1>2, <1>5, <2>9, <3>1, Enables
  <2>10. CASE pc = 10
    <3>1. instruction.op = "release"
      BY <2>10, AlarmUnprogrammedProgram DEF instruction, Release
    <3>2. QED BY <1>1, <1>2, <1>5, <2>10, <3>1, Releases
  <2>11. CASE pc = 11
    <3>1. instruction.op = "check" /\ instruction.what = "boot" /\ instruction.skip = 0
      BY <2>11, AlarmUnprogrammedProgram DEF instruction, Check
    <3>2. QED BY <1>1, <1>2, <1>5, <2>11, <3>1, BootCheck
  <2>12. CASE pc = 12
    <3>1. instruction.op = "check" /\ instruction.what = "captured"
      BY <2>12, AlarmUnprogrammedProgram DEF instruction, Check
    <3>2. Holds(instruction.what)
      BY <1>1, <1>2, <2>12, <3>1 DEF Holds, Captured
    <3>3. QED BY <1>1, <1>2, <1>5, <2>12, <3>1, <3>2, Checks
  <2>13. CASE pc = 13
    <3>1. instruction.op = "en" /\ instruction.value = 0
      BY <2>13, AlarmUnprogrammedProgram DEF instruction, En
    <3>2. QED BY <1>1, <1>2, <1>5, <2>13, <3>1, Enables
  <2>14. CASE pc = 14
    <3>1. instruction.op = "ack" /\ instruction.value = 1
      BY <2>14, AlarmUnprogrammedProgram DEF instruction, Ack, Acknowledge
    <3>2. QED BY <1>1, <1>2, <1>5, <2>14, <3>1, Acknowledges DEF AlarmTargetZeroAt
  <2> HIDE DEF Standing
  <2>15. QED BY <1>1, <2>1, <2>2, <2>3, <2>4, <2>5, <2>6, <2>7, <2>8, <2>9, <2>10, <2>11, <2>12, <2>13, <2>14
<1>6. QED BY <1>3, <1>4, <1>5

\* TestAlarmTargetZero.
LEMMA AlarmTargetZeroHolds ==
  ASSUME Working, Standing, test = 3, Tick \/ Interrupt \/ Thread
  PROVE  Standing' /\ pass' = pass
<1>1. /\ Since \in 0 .. N - 1 /\ Gap \in 0 .. N - 1 /\ late \in 0 .. Delay /\ elapsed \in Nat
      /\ t \in 0 .. N - 1 /\ intr_0 \in {0, 1} /\ pc \in 1 .. 13 /\ Len(Programs[test]) = 13
      /\ time_0 = IF t + Since < N THEN t + Since ELSE t + Since - N
  <2>1. Len(Programs[test]) = 13
    BY AlarmTargetZeroProgram
  <2>2. QED BY <2>1, Elapsed DEF Working, Registers, Types
<1>2. AlarmTargetZeroAt
  BY DEF Standing
<1>3. CASE Tick
  BY <1>1, <1>2, <1>3, Ticks, OneCaptureTick, Scale
     DEF Standing, AlarmTargetZeroAt, Within, Early, Unread, Recording, AlarmOrCapture
<1>4. CASE Interrupt
  BY <1>1, <1>2, <1>4, Interrupts, OneCaptureInterrupt, Scale
     DEF Standing, AlarmTargetZeroAt, Within, Early, Unread, Running, AlarmOrCapture, PollsCaptures
<1>5. CASE Thread
  <2> USE Scale DEF Standing, AlarmTargetZeroAt, Within, Early, Onward, Unread, Recording,
          Running, Aimed
  <2>1. CASE pc = 1
    <3>1. instruction.op = "log"
      BY <2>1, AlarmTargetZeroProgram DEF instruction, Log
    <3>2. QED BY <1>1, <1>2, <1>5, <2>1, <3>1, Logs
  <2>2. CASE pc = 2
    <3>1. instruction.op = "en" /\ instruction.value = 0
      BY <2>2, AlarmTargetZeroProgram DEF instruction, En
    <3>2. QED BY <1>1, <1>2, <1>5, <2>2, <3>1, Enables
  <2>3. CASE pc = 3
    <3>1. instruction.op = "ack" /\ instruction.value = 1
      BY <2>3, AlarmTargetZeroProgram DEF instruction, Ack, Acknowledge
    <3>2. QED BY <1>1, <1>2, <1>5, <2>3, <3>1, Acknowledges
  <2>4. CASE pc = 4
    <3>1. instruction.op = "capture"
      BY <2>4, AlarmTargetZeroProgram DEF instruction
    <3>2. QED BY <1>1, <1>2, <1>5, <2>4, <3>1, Captures
  <2>5. CASE pc = 5
    <3>1. instruction.op = "alarm" /\ instruction.base = "zero" /\ instruction.off = 0
      BY <2>5, AlarmTargetZeroProgram DEF instruction, Alarm
    <3>2. instruction.off \in 0 .. N - 1
      BY <3>1
    <3>3. QED BY <1>1, <1>2, <1>5, <2>5, <3>1, <3>2, ArmsAt
  <2>6. CASE pc = 6
    <3>1. instruction.op = "time" /\ instruction.base = "zero" /\ instruction.off = 0 - Offset
      BY <2>6, AlarmTargetZeroProgram DEF instruction, Time
    <3>2. instruction.off \in (0 - N) .. N - 1
      BY <3>1
    <3>3. QED BY <1>1, <1>2, <1>5, <2>6, <3>1, <3>2, TimeAt DEF AlarmOrCapture, PollsCaptures
  <2>7. CASE pc = 7
    <3>1. instruction.op = "en" /\ instruction.value = 1
      BY <2>7, AlarmTargetZeroProgram DEF instruction, En
    <3>2. QED BY <1>1, <1>2, <1>5, <2>7, <3>1, Enables DEF AlarmOrCapture, PollsCaptures
  <2>8. CASE pc = 8
    <3>1. /\ instruction.op = "captures" /\ instruction.count = 1 /\ instruction.giveup = "wrapped"
          /\ instruction.limit = Timeout
      BY <2>8, AlarmTargetZeroProgram DEF instruction, PollCaptures
    <3>2. PollsCaptures /\ t = N - Offset
      BY <1>2, <2>8
    <3>3. /\ Unread /\ Recording /\ Running /\ Aimed /\ Gap' = Gap /\ UNCHANGED intr_en_0
          /\ \/ UNCHANGED <<test, pc>> /\ PollsCaptures'
             \/ Onward /\ late' = 0 /\ Captured /\ Since <= Offset + 2 * Delay
      BY <1>5, <3>1, <3>2, OneCapture
    <3>4. QED BY <1>1, <1>2, <2>8, <3>3 DEF AlarmOrCapture, PollsCaptures
  <2>9. CASE pc = 9
    <3>1. instruction.op = "en" /\ instruction.value = 0
      BY <2>9, AlarmTargetZeroProgram DEF instruction, En
    <3>2. QED BY <1>1, <1>2, <1>5, <2>9, <3>1, Enables
  <2>10. CASE pc = 10
    <3>1. instruction.op = "release"
      BY <2>10, AlarmTargetZeroProgram DEF instruction, Release
    <3>2. QED BY <1>1, <1>2, <1>5, <2>10, <3>1, Releases
  <2>11. CASE pc = 11
    <3>1. instruction.op = "check" /\ instruction.what = "captured"
      BY <2>11, AlarmTargetZeroProgram DEF instruction, Check
    <3>2. Holds(instruction.what)
      BY <1>1, <1>2, <2>11, <3>1 DEF Holds, Captured
    <3>3. QED BY <1>1, <1>2, <1>5, <2>11, <3>1, <3>2, Checks
  <2>12. CASE pc = 12
    <3>1. instruction.op = "en" /\ instruction.value = 0
      BY <2>12, AlarmTargetZeroProgram DEF instruction, En
    <3>2. QED BY <1>1, <1>2, <1>5, <2>12, <3>1, Enables
  <2>13. CASE pc = 13
    <3>1. instruction.op = "ack" /\ instruction.value = 1
      BY <2>13, AlarmTargetZeroProgram DEF instruction, Ack, Acknowledge
    <3>2. QED BY <1>1, <1>2, <1>5, <2>13, <3>1, Acknowledges DEF AlarmRearmAt
  <2> HIDE DEF Standing
  <2>14. QED BY <1>1, <2>1, <2>2, <2>3, <2>4, <2>5, <2>6, <2>7, <2>8, <2>9, <2>10, <2>11, <2>12, <2>13
<1>6. QED BY <1>3, <1>4, <1>5

\* TestAlarmRearm.
LEMMA AlarmRearmHolds ==
  ASSUME Working, Standing, test = 4, Tick \/ Interrupt \/ Thread
  PROVE  Standing' /\ pass' = pass
<1>1. /\ Since \in 0 .. N - 1 /\ Gap \in 0 .. N - 1 /\ late \in 0 .. Delay /\ elapsed \in Nat
      /\ t \in 0 .. N - 1 /\ intr_0 \in {0, 1} /\ pc \in 1 .. 12 /\ Len(Programs[test]) = 12
      /\ time_0 = IF t + Since < N THEN t + Since ELSE t + Since - N
  <2>1. Len(Programs[test]) = 12
    BY AlarmRearmProgram
  <2>2. QED BY <2>1, Elapsed DEF Working, Registers, Types
<1>2. AlarmRearmAt
  BY DEF Standing
<1>3. CASE Tick
  BY <1>1, <1>2, <1>3, Ticks, OneCaptureTick, Scale
     DEF Standing, AlarmRearmAt, Within, Early, Unread, Recording, AlarmOrCapture
<1>4. CASE Interrupt
  BY <1>1, <1>2, <1>4, Interrupts, OneCaptureInterrupt, Scale
     DEF Standing, AlarmRearmAt, Within, Early, Unread, Running, AlarmOrCapture, PollsCaptures
<1>5. CASE Thread
  <2> USE Scale DEF Standing, AlarmRearmAt, Within, Early, Onward, Unread, Recording, Running,
          Aimed
  <2>1. CASE pc = 1
    <3>1. instruction.op = "log"
      BY <2>1, AlarmRearmProgram DEF instruction, Log
    <3>2. QED BY <1>1, <1>2, <1>5, <2>1, <3>1, Logs
  <2>2. CASE pc = 2
    <3>1. instruction.op = "en" /\ instruction.value = 0
      BY <2>2, AlarmRearmProgram DEF instruction, En
    <3>2. QED BY <1>1, <1>2, <1>5, <2>2, <3>1, Enables
  <2>3. CASE pc = 3
    <3>1. instruction.op = "ack" /\ instruction.value = 1
      BY <2>3, AlarmRearmProgram DEF instruction, Ack, Acknowledge
    <3>2. QED BY <1>1, <1>2, <1>5, <2>3, <3>1, Acknowledges
  <2>4. CASE pc = 4
    <3>1. instruction.op = "capture"
      BY <2>4, AlarmRearmProgram DEF instruction
    <3>2. QED BY <1>1, <1>2, <1>5, <2>4, <3>1, Captures
  <2>5. CASE pc = 5
    <3>1. instruction.op = "read"
      BY <2>5, AlarmRearmProgram DEF instruction, ReadTime
    <3>2. QED BY <1>1, <1>2, <1>5, <2>5, <3>1, Reads
  <2>6. CASE pc = 6
    <3>1. instruction.op = "alarm" /\ instruction.base = "t" /\ instruction.off = Offset
      BY <2>6, AlarmRearmProgram DEF instruction, Alarm
    <3>2. instruction.off \in 0 .. N - 1
      BY <3>1
    <3>3. QED BY <1>1, <1>2, <1>5, <2>6, <3>1, <3>2, ArmsAhead
  <2>7. CASE pc = 7
    <3>1. instruction.op = "en" /\ instruction.value = 1
      BY <2>7, AlarmRearmProgram DEF instruction, En
    <3>2. QED BY <1>1, <1>2, <1>5, <2>7, <3>1, Enables DEF AlarmOrCapture, PollsCaptures
  <2>8. CASE pc = 8
    <3>1. instruction.op = "log"
      BY <2>8, AlarmRearmProgram DEF instruction, Log
    <3>2. QED BY <1>1, <1>2, <1>5, <2>8, <3>1, Logs DEF AlarmOrCapture, PollsCaptures
  <2>9. CASE pc = 9
    <3>1. /\ instruction.op = "captures" /\ instruction.count = 1 /\ instruction.giveup = "never"
          /\ instruction.limit = Timeout
      BY <2>9, AlarmRearmProgram DEF instruction, PollCaptures
    <3>2. PollsCaptures
      BY <1>2, <2>9
    <3>3. /\ Unread /\ Recording /\ Running /\ Aimed /\ Gap' = Gap /\ UNCHANGED intr_en_0
          /\ \/ UNCHANGED <<test, pc>> /\ PollsCaptures'
             \/ Onward /\ late' = 0 /\ Captured /\ Since <= Offset + 2 * Delay
      BY <1>5, <3>1, <3>2, OneCapture
    <3>4. QED BY <1>1, <1>2, <2>9, <3>3 DEF AlarmOrCapture, PollsCaptures
  <2>10. CASE pc = 10
    <3>1. instruction.op = "en" /\ instruction.value = 0
      BY <2>10, AlarmRearmProgram DEF instruction, En
    <3>2. QED BY <1>1, <1>2, <1>5, <2>10, <3>1, Enables
  <2>11. CASE pc = 11
    <3>1. instruction.op = "release"
      BY <2>11, AlarmRearmProgram DEF instruction, Release
    <3>2. QED BY <1>1, <1>2, <1>5, <2>11, <3>1, Releases
  <2>12. CASE pc = 12
    <3>1. instruction.op = "check" /\ instruction.what = "captured"
      BY <2>12, AlarmRearmProgram DEF instruction, Check
    <3>2. Holds(instruction.what)
      BY <1>1, <1>2, <2>12, <3>1 DEF Holds, Captured
    <3>3. QED
      BY <1>1, <1>2, <1>5, <2>12, <3>1, <3>2, Checks DEF AlarmAdjustPreservesPendingFlagAt, Comes, Delivers
  <2> HIDE DEF Standing
  <2>13. QED BY <1>1, <2>1, <2>2, <2>3, <2>4, <2>5, <2>6, <2>7, <2>8, <2>9, <2>10, <2>11, <2>12
<1>6. QED BY <1>3, <1>4, <1>5

\* TestAlarmAdjustPreservesPendingFlag.
LEMMA AlarmAdjustPreservesPendingFlagHolds ==
  ASSUME Working, Standing, test = 5, Tick \/ Interrupt \/ Thread
  PROVE  Standing' /\ pass' = pass
<1>1. /\ Since \in 0 .. N - 1 /\ Gap \in 0 .. N - 1 /\ late \in 0 .. Delay /\ elapsed \in Nat
      /\ t \in 0 .. N - 1 /\ intr_0 \in {0, 1} /\ pc \in 1 .. 22 /\ Len(Programs[test]) = 22
      /\ time_0 = IF t + Since < N THEN t + Since ELSE t + Since - N
  <2>1. Len(Programs[test]) = 22
    BY AlarmAdjustPreservesPendingFlagProgram
  <2>2. QED BY <2>1, Elapsed DEF Working, Registers, Types
<1>2. AlarmAdjustPreservesPendingFlagAt
  BY DEF Standing
<1>3. CASE Tick
  BY <1>1, <1>2, <1>3, Ticks, LatchedTick, Scale
     DEF Standing, AlarmAdjustPreservesPendingFlagAt, Within, Early, Unread, Recording, Comes, Delivers
<1>4. CASE Interrupt
  BY <1>1, <1>2, <1>4, Interrupts, Scale
     DEF Standing, AlarmAdjustPreservesPendingFlagAt, Within, Early, Unread, Running, Comes,
         PollsLatched, Delivers
<1>5. CASE Thread
  <2> USE Scale DEF Standing, AlarmAdjustPreservesPendingFlagAt, Within, Early, Comes, Delivers,
          Onward, Unread, Recording, Running, Aimed
  <2>1. CASE pc = 1
    <3>1. instruction.op = "log"
      BY <2>1, AlarmAdjustPreservesPendingFlagProgram DEF instruction, Log
    <3>2. QED BY <1>1, <1>2, <1>5, <2>1, <3>1, Logs
  <2>2. CASE pc = 2
    <3>1. instruction.op = "en" /\ instruction.value = 0
      BY <2>2, AlarmAdjustPreservesPendingFlagProgram DEF instruction, En
    <3>2. QED BY <1>1, <1>2, <1>5, <2>2, <3>1, Enables
  <2>3. CASE pc = 3
    <3>1. instruction.op = "ack" /\ instruction.value = 1
      BY <2>3, AlarmAdjustPreservesPendingFlagProgram DEF instruction, Ack, Acknowledge
    <3>2. QED BY <1>1, <1>2, <1>5, <2>3, <3>1, Acknowledges
  <2>4. CASE pc = 4
    <3>1. instruction.op = "capture"
      BY <2>4, AlarmAdjustPreservesPendingFlagProgram DEF instruction
    <3>2. QED BY <1>1, <1>2, <1>5, <2>4, <3>1, Captures
  <2>5. CASE pc = 5
    <3>1. instruction.op = "read"
      BY <2>5, AlarmAdjustPreservesPendingFlagProgram DEF instruction, ReadTime
    <3>2. QED BY <1>1, <1>2, <1>5, <2>5, <3>1, Reads
  <2>6. CASE pc = 6
    <3>1. instruction.op = "alarm" /\ instruction.base = "t" /\ instruction.off = Offset
      BY <2>6, AlarmAdjustPreservesPendingFlagProgram DEF instruction, Alarm
    <3>2. instruction.off \in 0 .. N - 1
      BY <3>1
    <3>3. QED BY <1>1, <1>2, <1>5, <2>6, <3>1, <3>2, ArmsAhead
  <2>7. CASE pc = 7
    <3>1. instruction.op = "read"
      BY <2>7, AlarmAdjustPreservesPendingFlagProgram DEF instruction, ReadTime
    <3>2. QED BY <1>1, <1>2, <1>5, <2>7, <3>1, Reads DEF PollsLatched
  <2>8. CASE pc = 8
    <3>1. instruction.op = "log"
      BY <2>8, AlarmAdjustPreservesPendingFlagProgram DEF instruction, Log
    <3>2. QED BY <1>1, <1>2, <1>5, <2>8, <3>1, Logs DEF PollsLatched
  <2>9. CASE pc = 9
    <3>1. instruction.op = "latched" /\ instruction.timed = TRUE
      BY <2>9, AlarmAdjustPreservesPendingFlagProgram DEF instruction, PollLatched
    <3>2. PollsLatched
      BY <1>2, <2>9
    <3>3. /\ Recording /\ Aimed /\ UNCHANGED <<intr_en_0, pass>>
          /\ g_boot_ptimer_state'.intr_en_0 = g_boot_ptimer_state.intr_en_0
          /\ g_boot_ptimer_state'.alarm_0 = g_boot_ptimer_state.alarm_0
          /\ \/ UNCHANGED <<test, pc, t>> /\ PollsLatched'
             \/ /\ Onward /\ late' = 0 /\ latched' = TRUE /\ intr_0 = 1 /\ Since <= Offset + 2 * Delay
                /\ t' = time_0 /\ Since' = 0
                /\ test = 1 => g_boot_ptimer_state'.alarm_latched
      BY <1>2, <1>5, <2>9, <3>1, <3>2, Latched
    <3>4. QED BY <1>1, <1>2, <2>9, <3>2, <3>3 DEF PollsLatched
  <2>10. CASE pc = 10
    <3>1. instruction.op = "check" /\ instruction.what = "latched"
      BY <2>10, AlarmAdjustPreservesPendingFlagProgram DEF instruction, Check
    <3>2. Holds(instruction.what)
      BY <1>1, <1>2, <2>10, <3>1 DEF Holds
    <3>3. QED BY <1>1, <1>2, <1>5, <2>10, <3>1, <3>2, Checks
  <2>11. CASE pc = 11
    <3>1. instruction.op = "log"
      BY <2>11, AlarmAdjustPreservesPendingFlagProgram DEF instruction, Log
    <3>2. QED BY <1>1, <1>2, <1>5, <2>11, <3>1, Logs
  <2>12. CASE pc = 12
    <3>1. instruction.op = "check" /\ instruction.what = "quiet"
      BY <2>12, AlarmAdjustPreservesPendingFlagProgram DEF instruction, Check
    <3>2. Holds(instruction.what)
      BY <1>1, <1>2, <2>12, <3>1 DEF Holds, Captured
    <3>3. QED BY <1>1, <1>2, <1>5, <2>12, <3>1, <3>2, Checks
  <2>13. CASE pc = 13
    <3>1. instruction.op = "alarm" /\ instruction.base = "t" /\ instruction.off = Far
      BY <2>13, AlarmAdjustPreservesPendingFlagProgram DEF instruction, Alarm
    <3>2. instruction.off \in 0 .. N - 1
      BY <3>1
    <3>3. QED BY <1>1, <1>2, <1>5, <2>13, <3>1, <3>2, ArmsAhead
  <2>14. CASE pc = 14
    <3>1. instruction.op = "check" /\ instruction.what = "pending"
      BY <2>14, AlarmAdjustPreservesPendingFlagProgram DEF instruction, Check
    <3>2. Holds(instruction.what)
      BY <1>1, <1>2, <2>14, <3>1 DEF Holds
    <3>3. QED BY <1>1, <1>2, <1>5, <2>14, <3>1, <3>2, Checks
  <2>15. CASE pc = 15
    <3>1. instruction.op = "log"
      BY <2>15, AlarmAdjustPreservesPendingFlagProgram DEF instruction, Log
    <3>2. QED BY <1>1, <1>2, <1>5, <2>15, <3>1, Logs
  <2>16. CASE pc = 16
    <3>1. instruction.op = "en" /\ instruction.value = 1
      BY <2>16, AlarmAdjustPreservesPendingFlagProgram DEF instruction, En
    <3>2. QED BY <1>1, <1>2, <1>5, <2>16, <3>1, Enables
  <2>17. CASE pc = 17
    <3>1. instruction.op = "sleep"
      BY <2>17, AlarmAdjustPreservesPendingFlagProgram DEF instruction, Sleep
    <3>2. QED BY <1>1, <1>2, <1>5, <2>17, <3>1, Sleeps
  <2>18. CASE pc = 18
    <3>1. instruction.op = "en" /\ instruction.value = 0
      BY <2>18, AlarmAdjustPreservesPendingFlagProgram DEF instruction, En
    <3>2. QED BY <1>1, <1>2, <1>5, <2>18, <3>1, Enables
  <2>19. CASE pc = 19
    <3>1. instruction.op = "check" /\ instruction.what = "captured"
      BY <2>19, AlarmAdjustPreservesPendingFlagProgram DEF instruction, Check
    <3>2. Holds(instruction.what)
      BY <1>1, <1>2, <2>19, <3>1 DEF Holds, Captured
    <3>3. QED BY <1>1, <1>2, <1>5, <2>19, <3>1, <3>2, Checks
  <2>20. CASE pc = 20
    <3>1. instruction.op = "en" /\ instruction.value = 0
      BY <2>20, AlarmAdjustPreservesPendingFlagProgram DEF instruction, En
    <3>2. QED BY <1>1, <1>2, <1>5, <2>20, <3>1, Enables
  <2>21. CASE pc = 21
    <3>1. instruction.op = "ack" /\ instruction.value = 1
      BY <2>21, AlarmAdjustPreservesPendingFlagProgram DEF instruction, Ack, Acknowledge
    <3>2. QED BY <1>1, <1>2, <1>5, <2>21, <3>1, Acknowledges
  <2>22. CASE pc = 22
    <3>1. instruction.op = "release"
      BY <2>22, AlarmAdjustPreservesPendingFlagProgram DEF instruction, Release
    <3>2. QED BY <1>1, <1>2, <1>5, <2>22, <3>1, Releases DEF AlarmRolloverAndPeriodicityAt, Fired
  <2> HIDE DEF Standing
  <2>23. QED
    BY <1>1, <2>1, <2>2, <2>3, <2>4, <2>5, <2>6, <2>7, <2>8, <2>9, <2>10, <2>11, <2>12, <2>13, <2>14,
       <2>15, <2>16, <2>17, <2>18, <2>19, <2>20, <2>21, <2>22
<1>6. QED BY <1>3, <1>4, <1>5

\* TestAlarmRolloverAndPeriodicity.
LEMMA AlarmRolloverAndPeriodicityHolds ==
  ASSUME Working, Standing, test = 6, Tick \/ Interrupt \/ Thread
  PROVE  Standing' /\ pass' = pass
<1>1. /\ Since \in 0 .. N - 1 /\ Gap \in 0 .. N - 1 /\ late \in 0 .. Delay /\ elapsed \in Nat
      /\ t \in 0 .. N - 1 /\ intr_0 \in {0, 1} /\ pc \in 1 .. 12 /\ Len(Programs[test]) = 12
      /\ time_0 = IF t + Since < N THEN t + Since ELSE t + Since - N
      /\ alarm_0 = IF t + Gap < N THEN t + Gap ELSE t + Gap - N
  <2>1. Len(Programs[test]) = 12
    BY AlarmRolloverAndPeriodicityProgram
  <2>2. QED BY <2>1, Elapsed DEF Working, Registers, Types
<1>2. AlarmRolloverAndPeriodicityAt
  BY DEF Standing
<1>3. CASE Tick
  <2>1. pc = 9 => Waiting
    BY AlarmRolloverAndPeriodicityProgram, Here DEF Working, Waiting, Waits, instruction, PollCaptures
  <2>2. pc = 9 => TwoRounds'
    BY <1>2, <1>3, <2>1, TwoRoundsTick DEF AlarmRolloverAndPeriodicityAt
  <2>3. QED
    BY <1>1, <1>2, <1>3, <2>2, Ticks, Scale
       DEF Standing, AlarmRolloverAndPeriodicityAt, Within, Early, Fired, Unread, Recording
<1>4. CASE Interrupt
  BY <1>1, <1>2, <1>4, Interrupts, TwoRoundsInterrupt, Scale
     DEF Standing, AlarmRolloverAndPeriodicityAt, Within, Early, Unread, Running, Fired, TwoRounds
<1>5. CASE Thread
  <2> USE Scale DEF Standing, AlarmRolloverAndPeriodicityAt, Within, Early, Fired, Onward, Unread,
          Recording, Running, Aimed
  <2>1. CASE pc = 1
    <3>1. instruction.op = "log"
      BY <2>1, AlarmRolloverAndPeriodicityProgram DEF instruction, Log
    <3>2. QED BY <1>1, <1>2, <1>5, <2>1, <3>1, Logs
  <2>2. CASE pc = 2
    <3>1. instruction.op = "en" /\ instruction.value = 0
      BY <2>2, AlarmRolloverAndPeriodicityProgram DEF instruction, En
    <3>2. QED BY <1>1, <1>2, <1>5, <2>2, <3>1, Enables
  <2>3. CASE pc = 3
    <3>1. instruction.op = "ack" /\ instruction.value = 1
      BY <2>3, AlarmRolloverAndPeriodicityProgram DEF instruction, Ack, Acknowledge
    <3>2. QED BY <1>1, <1>2, <1>5, <2>3, <3>1, Acknowledges
  <2>4. CASE pc = 4
    <3>1. instruction.op = "time" /\ instruction.base = "zero" /\ instruction.off = 0 - Offset
      BY <2>4, AlarmRolloverAndPeriodicityProgram DEF instruction, Time
    <3>2. instruction.off \in (0 - N) .. N - 1
      BY <3>1
    <3>3. QED BY <1>1, <1>2, <1>5, <2>4, <3>1, <3>2, TimeAt
  <2>5. CASE pc = 5
    <3>1. instruction.op = "alarm" /\ instruction.base = "zero" /\ instruction.off = 1
      BY <2>5, AlarmRolloverAndPeriodicityProgram DEF instruction, Alarm
    <3>2. instruction.off \in 0 .. N - 1
      BY <3>1
    <3>3. QED BY <1>1, <1>2, <1>5, <2>5, <3>1, <3>2, ArmsAt
  <2>6. CASE pc = 6
    <3>1. instruction.op = "capture"
      BY <2>6, AlarmRolloverAndPeriodicityProgram DEF instruction
    <3>2. QED BY <1>1, <1>2, <1>5, <2>6, <3>1, Captures
  <2>7. CASE pc = 7
    <3>1. instruction.op = "log"
      BY <2>7, AlarmRolloverAndPeriodicityProgram DEF instruction, Log
    <3>2. QED BY <1>1, <1>2, <1>5, <2>7, <3>1, Logs DEF TwoRounds
  <2>8. CASE pc = 8
    <3>1. instruction.op = "en" /\ instruction.value = 1
      BY <2>8, AlarmRolloverAndPeriodicityProgram DEF instruction, En
    <3>2. /\ Onward /\ late' = late /\ Unread /\ Recording /\ Running /\ Aimed /\ Gap' = Gap
          /\ intr_en_0' = 1
      BY <1>5, <3>1, Enables
    <3>3. TwoRounds'
      <4>1. /\ Gap = Offset + 1 /\ ptimer_alarm_fired_callback /\ g_alarm_captures = <<>>
            /\ Since <= Delay + late /\ intr_0 = Fired
        BY <1>2, <2>8
      <4>2. /\ g_alarm_captures' = <<>> /\ Len(<<>>) = 0 /\ elapsed' = 0 /\ Since' = Since
            /\ late' = late /\ intr_0' = intr_0 /\ Fired' = Fired /\ Fired \in {0, 1}
        BY <3>2, <4>1
      <4>3. Counted(0, Since)'
        BY <1>1, <4>1, <4>2 DEF Counted
      <4>4. QED BY <3>2, <4>1, <4>2, <4>3 DEF TwoRounds, Rounds
    <3>4. QED BY <1>1, <1>2, <2>8, <3>2, <3>3
  <2>9. CASE pc = 9
    <3>1. /\ instruction.op = "captures" /\ instruction.count = 5 /\ instruction.giveup = "never"
          /\ instruction.limit = LongTimeout
      BY <2>9, AlarmRolloverAndPeriodicityProgram DEF instruction, PollCaptures
    <3>2. TwoRounds
      BY <1>2, <2>9
    <3>3. /\ Unread /\ Recording /\ Running /\ Aimed /\ Gap' = Gap /\ UNCHANGED intr_en_0
          /\ \/ UNCHANGED <<test, pc>> /\ TwoRounds'
             \/ /\ Onward /\ late' = 0 /\ intr_0 = 0 /\ Len(g_alarm_captures) = 2
                /\ Since > Gap /\ Since <= LongTimeout - N + 3 * Delay
      BY <1>5, <3>1, <3>2, TwoRoundsPoll
    <3>4. QED BY <1>1, <1>2, <2>9, <3>2, <3>3
  <2>10. CASE pc = 10
    <3>1. instruction.op = "en" /\ instruction.value = 0
      BY <2>10, AlarmRolloverAndPeriodicityProgram DEF instruction, En
    <3>2. QED BY <1>1, <1>2, <1>5, <2>10, <3>1, Enables
  <2>11. CASE pc = 11
    <3>1. instruction.op = "release"
      BY <2>11, AlarmRolloverAndPeriodicityProgram DEF instruction, Release
    <3>2. QED BY <1>1, <1>2, <1>5, <2>11, <3>1, Releases
  <2>12. CASE pc = 12
    <3>1. instruction.op = "check" /\ instruction.what = "two"
      BY <2>12, AlarmRolloverAndPeriodicityProgram DEF instruction, Check
    <3>2. Holds(instruction.what)
      BY <1>1, <1>2, <2>12, <3>1 DEF Holds
    <3>3. QED BY <1>1, <1>2, <1>5, <2>12, <3>1, <3>2, Checks DEF AlarmSetInThePastAt
  <2> HIDE DEF Standing
  <2>13. QED BY <1>1, <2>1, <2>2, <2>3, <2>4, <2>5, <2>6, <2>7, <2>8, <2>9, <2>10, <2>11, <2>12
<1>6. QED BY <1>3, <1>4, <1>5

\* TestAlarmSetInThePast.
LEMMA AlarmSetInThePastHolds ==
  ASSUME Working, Standing, test = 7, Tick \/ Interrupt \/ Thread
  PROVE  Standing' /\ pass' = pass
<1>1. /\ Since \in 0 .. N - 1 /\ Gap \in 0 .. N - 1 /\ late \in 0 .. Delay /\ elapsed \in Nat
      /\ t \in 0 .. N - 1 /\ intr_0 \in {0, 1} /\ pc \in 1 .. 13 /\ Len(Programs[test]) = 13
      /\ time_0 = IF t + Since < N THEN t + Since ELSE t + Since - N
      /\ alarm_0 = IF t + Gap < N THEN t + Gap ELSE t + Gap - N
  <2>1. Len(Programs[test]) = 13
    BY AlarmSetInThePastProgram
  <2>2. QED BY <2>1, Elapsed DEF Working, Registers, Types
<1>2. AlarmSetInThePastAt
  BY DEF Standing
<1>3. CASE Tick
  <2>1. pc = 9 => Waiting
    BY AlarmSetInThePastProgram, Here DEF Working, Waiting, Waits, instruction, PollCaptures
  <2>2. pc = 9 => late < Delay /\ elapsed < LongTimeout /\ elapsed' = elapsed + 1 /\ late' = late + 1
    BY <1>1, <1>2, <1>3, <2>1, Ticks, Scale DEF AlarmSetInThePastAt
  <2>3. QED
    BY <1>1, <1>2, <1>3, <2>2, Ticks, Scale
       DEF Standing, AlarmSetInThePastAt, Within, Unread, Recording
<1>4. CASE Interrupt
  BY <1>1, <1>2, <1>4, Interrupts, Scale
     DEF Standing, AlarmSetInThePastAt, Within, Unread, Running
<1>5. CASE Thread
  <2> USE Scale DEF Standing, AlarmSetInThePastAt, Within, Onward, Unread, Recording, Running,
          Aimed
  <2>1. CASE pc = 1
    <3>1. instruction.op = "log"
      BY <2>1, AlarmSetInThePastProgram DEF instruction, Log
    <3>2. QED BY <1>1, <1>2, <1>5, <2>1, <3>1, Logs
  <2>2. CASE pc = 2
    <3>1. instruction.op = "en" /\ instruction.value = 0
      BY <2>2, AlarmSetInThePastProgram DEF instruction, En
    <3>2. QED BY <1>1, <1>2, <1>5, <2>2, <3>1, Enables
  <2>3. CASE pc = 3
    <3>1. instruction.op = "ack" /\ instruction.value = 1
      BY <2>3, AlarmSetInThePastProgram DEF instruction, Ack, Acknowledge
    <3>2. QED BY <1>1, <1>2, <1>5, <2>3, <3>1, Acknowledges
  <2>4. CASE pc = 4
    <3>1. instruction.op = "time" /\ instruction.base = "zero" /\ instruction.off = Far
      BY <2>4, AlarmSetInThePastProgram DEF instruction, Time
    <3>2. instruction.off \in (0 - N) .. N - 1
      BY <3>1
    <3>3. QED BY <1>1, <1>2, <1>5, <2>4, <3>1, <3>2, TimeAt
  <2>5. CASE pc = 5
    <3>1. instruction.op = "alarm" /\ instruction.base = "zero" /\ instruction.off = Half
      BY <2>5, AlarmSetInThePastProgram DEF instruction, Alarm
    <3>2. instruction.off \in 0 .. N - 1
      BY <3>1
    <3>3. QED BY <1>1, <1>2, <1>5, <2>5, <3>1, <3>2, ArmsAt
  <2>6. CASE pc = 6
    <3>1. instruction.op = "log"
      BY <2>6, AlarmSetInThePastProgram DEF instruction, Log
    <3>2. QED BY <1>1, <1>2, <1>5, <2>6, <3>1, Logs
  <2>7. CASE pc = 7
    <3>1. instruction.op = "capture"
      BY <2>7, AlarmSetInThePastProgram DEF instruction
    <3>2. QED BY <1>1, <1>2, <1>5, <2>7, <3>1, Captures
  <2>8. CASE pc = 8
    <3>1. instruction.op = "en" /\ instruction.value = 1
      BY <2>8, AlarmSetInThePastProgram DEF instruction, En
    <3>2. QED BY <1>1, <1>2, <1>5, <2>8, <3>1, Enables
  <2>9. CASE pc = 9
    <3>1. /\ instruction.op = "captures" /\ instruction.count = 1 /\ instruction.giveup = "never"
          /\ instruction.limit = Timeout
      BY <2>9, AlarmSetInThePastProgram DEF instruction, PollCaptures
    <3>2. ~Captured
      BY <1>2, <2>9
    <3>3. ~(Len(g_alarm_captures) >= instruction.count) /\ ~GivesUp
      BY <3>1, <3>2 DEF Captured, GivesUp
    <3>4. /\ Unread /\ Recording /\ Running /\ Aimed /\ Gap' = Gap /\ UNCHANGED intr_en_0
          /\ \/ UNCHANGED <<test, pc, elapsed, late>>
             \/ elapsed >= instruction.limit /\ Onward /\ late' = 0
             \/ ~(elapsed >= instruction.limit) /\ late' = 0 /\ UNCHANGED <<test, pc, elapsed>>
      BY <1>5, <3>1, <3>3, Counts
    <3>5. elapsed >= instruction.limit \/ elapsed < Timeout
      BY <1>1, <3>1
    <3>6. QED BY <1>1, <1>2, <2>9, <3>1, <3>4, <3>5
  <2>10. CASE pc = 10
    <3>1. instruction.op = "check" /\ instruction.what = "acknowledged"
      BY <2>10, AlarmSetInThePastProgram DEF instruction, Check
    <3>2. Holds(instruction.what)
      BY <1>1, <1>2, <2>10, <3>1 DEF Holds
    <3>3. QED BY <1>1, <1>2, <1>5, <2>10, <3>1, <3>2, Checks
  <2>11. CASE pc = 11
    <3>1. instruction.op = "en" /\ instruction.value = 0
      BY <2>11, AlarmSetInThePastProgram DEF instruction, En
    <3>2. QED BY <1>1, <1>2, <1>5, <2>11, <3>1, Enables
  <2>12. CASE pc = 12
    <3>1. instruction.op = "release"
      BY <2>12, AlarmSetInThePastProgram DEF instruction, Release
    <3>2. QED BY <1>1, <1>2, <1>5, <2>12, <3>1, Releases
  <2>13. CASE pc = 13
    <3>1. instruction.op = "check" /\ instruction.what = "quiet"
      BY <2>13, AlarmSetInThePastProgram DEF instruction, Check
    <3>2. Holds(instruction.what)
      BY <1>1, <1>2, <2>13, <3>1 DEF Holds, Captured
    <3>3. QED BY <1>1, <1>2, <1>5, <2>13, <3>1, <3>2, Checks DEF AlarmUnalignedTargetAt
  <2> HIDE DEF Standing
  <2>14. QED BY <1>1, <2>1, <2>2, <2>3, <2>4, <2>5, <2>6, <2>7, <2>8, <2>9, <2>10, <2>11, <2>12, <2>13
<1>6. QED BY <1>3, <1>4, <1>5

\* TestAlarmUnalignedTarget.
LEMMA AlarmUnalignedTargetHolds ==
  ASSUME Working, Standing, test = 8, Tick \/ Interrupt \/ Thread
  PROVE  Standing' /\ pass' = pass
<1>1. /\ Since \in 0 .. N - 1 /\ Gap \in 0 .. N - 1 /\ late \in 0 .. Delay /\ elapsed \in Nat
      /\ t \in 0 .. N - 1 /\ intr_0 \in {0, 1} /\ pc \in 1 .. 11 /\ Len(Programs[test]) = 11
      /\ time_0 = IF t + Since < N THEN t + Since ELSE t + Since - N
      /\ alarm_0 = IF t + Gap < N THEN t + Gap ELSE t + Gap - N
  <2>1. Len(Programs[test]) = 11
    BY AlarmUnalignedTargetProgram
  <2>2. QED BY <2>1, Elapsed DEF Working, Registers, Types
<1>2. AlarmUnalignedTargetAt
  BY DEF Standing
<1>3. CASE Tick
  BY <1>1, <1>2, <1>3, Ticks, Scale
     DEF Standing, AlarmUnalignedTargetAt, Within, Unread, Recording
<1>4. CASE Interrupt
  BY <1>1, <1>2, <1>4, Interrupts, Scale
     DEF Standing, AlarmUnalignedTargetAt, Within, Unread, Running
<1>5. CASE Thread
  <2> USE Scale DEF Standing, AlarmUnalignedTargetAt, Within, Onward, Unread, Recording, Running,
          Aimed
  <2>1. CASE pc = 1
    <3>1. instruction.op = "log"
      BY <2>1, AlarmUnalignedTargetProgram DEF instruction, Log
    <3>2. QED BY <1>1, <1>2, <1>5, <2>1, <3>1, Logs
  <2>2. CASE pc = 2
    <3>1. instruction.op = "en" /\ instruction.value = 0
      BY <2>2, AlarmUnalignedTargetProgram DEF instruction, En
    <3>2. QED BY <1>1, <1>2, <1>5, <2>2, <3>1, Enables
  <2>3. CASE pc = 3
    <3>1. instruction.op = "ack" /\ instruction.value = 1
      BY <2>3, AlarmUnalignedTargetProgram DEF instruction, Ack, Acknowledge
    <3>2. QED BY <1>1, <1>2, <1>5, <2>3, <3>1, Acknowledges
  <2>4. CASE pc = 4
    <3>1. instruction.op = "time" /\ instruction.base = "zero" /\ instruction.off = 0
      BY <2>4, AlarmUnalignedTargetProgram DEF instruction, Time
    <3>2. instruction.off \in (0 - N) .. N - 1
      BY <3>1
    <3>3. QED BY <1>1, <1>2, <1>5, <2>4, <3>1, <3>2, TimeAt
  <2>5. CASE pc = 5
    <3>1. instruction.op = "alarm" /\ instruction.base = "zero" /\ instruction.off = 0
      BY <2>5, AlarmUnalignedTargetProgram DEF instruction, Alarm
    <3>2. instruction.off \in 0 .. N - 1
      BY <3>1
    <3>3. QED BY <1>1, <1>2, <1>5, <2>5, <3>1, <3>2, ArmsAt
  <2>6. CASE pc = 6
    <3>1. instruction.op = "capture"
      BY <2>6, AlarmUnalignedTargetProgram DEF instruction
    <3>2. QED BY <1>1, <1>2, <1>5, <2>6, <3>1, Captures
  <2>7. CASE pc = 7
    <3>1. instruction.op = "en" /\ instruction.value = 1
      BY <2>7, AlarmUnalignedTargetProgram DEF instruction, En
    <3>2. QED BY <1>1, <1>2, <1>5, <2>7, <3>1, Enables
  <2>8. CASE pc = 8
    <3>1. instruction.op = "sleep"
      BY <2>8, AlarmUnalignedTargetProgram DEF instruction, Sleep
    <3>2. QED BY <1>1, <1>2, <1>5, <2>8, <3>1, Sleeps
  <2>9. CASE pc = 9
    <3>1. instruction.op = "en" /\ instruction.value = 0
      BY <2>9, AlarmUnalignedTargetProgram DEF instruction, En
    <3>2. QED BY <1>1, <1>2, <1>5, <2>9, <3>1, Enables
  <2>10. CASE pc = 10
    <3>1. instruction.op = "release"
      BY <2>10, AlarmUnalignedTargetProgram DEF instruction, Release
    <3>2. QED BY <1>1, <1>2, <1>5, <2>10, <3>1, Releases
  <2>11. CASE pc = 11
    <3>1. instruction.op = "check" /\ instruction.what = "quiet"
      BY <2>11, AlarmUnalignedTargetProgram DEF instruction, Check
    <3>2. Holds(instruction.what)
      BY <1>1, <1>2, <2>11, <3>1 DEF Holds, Captured
    <3>3. QED BY <1>1, <1>2, <1>5, <2>11, <3>1, <3>2, Checks DEF RegisterBitmasksAt
  <2> HIDE DEF Standing
  <2>12. QED BY <1>1, <2>1, <2>2, <2>3, <2>4, <2>5, <2>6, <2>7, <2>8, <2>9, <2>10, <2>11
<1>6. QED BY <1>3, <1>4, <1>5

\* TestRegisterBitmasks.
LEMMA RegisterBitmasksHolds ==
  ASSUME Working, Standing, test = 9, Tick \/ Interrupt \/ Thread
  PROVE  Standing' /\ pass' = pass
<1>1. /\ Since \in 0 .. N - 1 /\ Gap \in 0 .. N - 1 /\ late \in 0 .. Delay /\ elapsed \in Nat
      /\ t \in 0 .. N - 1 /\ intr_0 \in {0, 1} /\ pc \in 1 .. 7 /\ Len(Programs[test]) = 7
      /\ time_0 = IF t + Since < N THEN t + Since ELSE t + Since - N
      /\ alarm_0 = IF t + Gap < N THEN t + Gap ELSE t + Gap - N
  <2>1. Len(Programs[test]) = 7
    BY RegisterBitmasksProgram
  <2>2. QED BY <2>1, Elapsed DEF Working, Registers, Types
<1>2. RegisterBitmasksAt
  BY DEF Standing
<1>3. CASE Tick
  BY <1>1, <1>2, <1>3, Ticks, Scale
     DEF Standing, RegisterBitmasksAt, Within, Unread, Recording
<1>4. CASE Interrupt
  BY <1>1, <1>2, <1>4, Interrupts, Scale
     DEF Standing, RegisterBitmasksAt, Within, Unread, Running
<1>5. CASE Thread
  <2> USE Scale DEF Standing, RegisterBitmasksAt, Within, Onward, Unread, Recording, Running,
          Aimed
  <2>1. CASE pc = 1
    <3>1. instruction.op = "log"
      BY <2>1, RegisterBitmasksProgram DEF instruction, Log
    <3>2. QED BY <1>1, <1>2, <1>5, <2>1, <3>1, Logs
  <2>2. CASE pc = 2
    <3>1. instruction.op = "alarm" /\ instruction.base = "zero" /\ instruction.off = Half
      BY <2>2, RegisterBitmasksProgram DEF instruction, Alarm
    <3>2. instruction.off \in 0 .. N - 1
      BY <3>1
    <3>3. QED BY <1>1, <1>2, <1>5, <2>2, <3>1, <3>2, ArmsAt
  <2>3. CASE pc = 3
    <3>1. instruction.op = "log"
      BY <2>3, RegisterBitmasksProgram DEF instruction, Log
    <3>2. QED BY <1>1, <1>2, <1>5, <2>3, <3>1, Logs
  <2>4. CASE pc = 4
    <3>1. instruction.op = "time" /\ instruction.base = "zero" /\ instruction.off = -1
      BY <2>4, RegisterBitmasksProgram DEF instruction, Time
    <3>2. instruction.off \in (0 - N) .. N - 1
      BY <3>1
    <3>3. QED BY <1>1, <1>2, <1>5, <2>4, <3>1, <3>2, TimeAt
  <2>5. CASE pc = 5
    <3>1. instruction.op = "log"
      BY <2>5, RegisterBitmasksProgram DEF instruction, Log
    <3>2. QED BY <1>1, <1>2, <1>5, <2>5, <3>1, Logs
  <2>6. CASE pc = 6
    <3>1. instruction.op = "high" /\ instruction.value = HighSize - 1
      BY <2>6, RegisterBitmasksProgram DEF instruction, High
    <3>2. QED BY <1>1, <1>2, <1>5, <2>6, <3>1, HighWrites
  <2>7. CASE pc = 7
    <3>1. instruction.op = "log"
      BY <2>7, RegisterBitmasksProgram DEF instruction, Log
    <3>2. QED BY <1>1, <1>2, <1>5, <2>7, <3>1, Logs DEF InterruptMaskingAt, Comes, Delivers
  <2> HIDE DEF Standing
  <2>8. QED BY <1>1, <2>1, <2>2, <2>3, <2>4, <2>5, <2>6, <2>7
<1>6. QED BY <1>3, <1>4, <1>5

\* TestInterruptMasking.
LEMMA InterruptMaskingHolds ==
  ASSUME Working, Standing, test = 10, Tick \/ Interrupt \/ Thread
  PROVE  Standing' /\ pass' = pass
<1>1. /\ Since \in 0 .. N - 1 /\ Gap \in 0 .. N - 1 /\ late \in 0 .. Delay /\ elapsed \in Nat
      /\ t \in 0 .. N - 1 /\ intr_0 \in {0, 1} /\ pc \in 1 .. 21 /\ Len(Programs[test]) = 21
      /\ time_0 = IF t + Since < N THEN t + Since ELSE t + Since - N
      /\ alarm_0 = IF t + Gap < N THEN t + Gap ELSE t + Gap - N
  <2>1. Len(Programs[test]) = 21
    BY InterruptMaskingProgram
  <2>2. QED BY <2>1, Elapsed DEF Working, Registers, Types
<1>2. InterruptMaskingAt
  BY DEF Standing
<1>3. CASE Tick
  BY <1>1, <1>2, <1>3, Ticks, Scale
     DEF Standing, InterruptMaskingAt, Within, Unread, Recording, Comes, Delivers
<1>4. CASE Interrupt
  BY <1>1, <1>2, <1>4, Interrupts, Scale
     DEF Standing, InterruptMaskingAt, Within, Unread, Running, Comes, Delivers
<1>5. CASE Thread
  <2> USE Scale DEF Standing, InterruptMaskingAt, Within, Comes, Delivers, Onward, Unread,
          Recording, Running, Aimed
  <2>1. CASE pc = 1
    <3>1. instruction.op = "log"
      BY <2>1, InterruptMaskingProgram DEF instruction, Log
    <3>2. QED BY <1>1, <1>2, <1>5, <2>1, <3>1, Logs
  <2>2. CASE pc = 2
    <3>1. instruction.op = "en" /\ instruction.value = 0
      BY <2>2, InterruptMaskingProgram DEF instruction, En
    <3>2. QED BY <1>1, <1>2, <1>5, <2>2, <3>1, Enables
  <2>3. CASE pc = 3
    <3>1. instruction.op = "ack" /\ instruction.value = 1
      BY <2>3, InterruptMaskingProgram DEF instruction, Ack, Acknowledge
    <3>2. QED BY <1>1, <1>2, <1>5, <2>3, <3>1, Acknowledges
  <2>4. CASE pc = 4
    <3>1. instruction.op = "time" /\ instruction.base = "zero" /\ instruction.off = 0
      BY <2>4, InterruptMaskingProgram DEF instruction, Time
    <3>2. instruction.off \in (0 - N) .. N - 1
      BY <3>1
    <3>3. QED BY <1>1, <1>2, <1>5, <2>4, <3>1, <3>2, TimeAt
  <2>5. CASE pc = 5
    <3>1. instruction.op = "alarm" /\ instruction.base = "zero" /\ instruction.off = Offset
      BY <2>5, InterruptMaskingProgram DEF instruction, Alarm
    <3>2. instruction.off \in 0 .. N - 1
      BY <3>1
    <3>3. QED BY <1>1, <1>2, <1>5, <2>5, <3>1, <3>2, ArmsAt
  <2>6. CASE pc = 6
    <3>1. instruction.op = "capture"
      BY <2>6, InterruptMaskingProgram DEF instruction
    <3>2. QED BY <1>1, <1>2, <1>5, <2>6, <3>1, Captures
  <2>7. CASE pc = 7
    <3>1. instruction.op = "en" /\ instruction.value = 1
      BY <2>7, InterruptMaskingProgram DEF instruction, En
    <3>2. QED BY <1>1, <1>2, <1>5, <2>7, <3>1, Enables
  <2>8. CASE pc = 8
    <3>1. instruction.op = "en" /\ instruction.value = 0
      BY <2>8, InterruptMaskingProgram DEF instruction, En
    <3>2. QED BY <1>1, <1>2, <1>5, <2>8, <3>1, Enables
  <2>9. CASE pc = 9
    <3>1. instruction.op = "log"
      BY <2>9, InterruptMaskingProgram DEF instruction, Log
    <3>2. QED BY <1>1, <1>2, <1>5, <2>9, <3>1, Logs
  <2>10. CASE pc = 10
    <3>1. instruction.op = "spin" /\ instruction.while = NotOver
      BY <2>10, InterruptMaskingProgram DEF instruction, Spin
    <3>2. t = 0 /\ alarm_0 = Offset /\ Comes
      BY <1>2, <2>10
    <3>3. time_0 = Since /\ Gap = Offset /\ (time_0 \in instruction.while <=> Since < Offset + Over)
      <4>1. time_0 = Since /\ Gap = Offset
        BY <1>1, <3>2
      <4>2. QED BY <1>1, <3>1, <4>1 DEF NotOver
    <3>4. /\ late' = 0 /\ Unread /\ Recording /\ Running /\ Aimed /\ Gap' = Gap /\ UNCHANGED intr_en_0
          /\ IF Since < Offset + Over THEN UNCHANGED <<test, pc>> ELSE Onward
      BY <1>5, <3>1, <3>3, Spins
    <3>5. QED BY <1>1, <1>2, <2>10, <3>2, <3>3, <3>4
  <2>11. CASE pc = 11
    <3>1. instruction.op = "log"
      BY <2>11, InterruptMaskingProgram DEF instruction, Log
    <3>2. QED BY <1>1, <1>2, <1>5, <2>11, <3>1, Logs
  <2>12. CASE pc = 12
    <3>1. instruction.op = "check" /\ instruction.what = "quiet"
      BY <2>12, InterruptMaskingProgram DEF instruction, Check
    <3>2. Holds(instruction.what)
      BY <1>1, <1>2, <2>12, <3>1 DEF Holds, Captured
    <3>3. QED BY <1>1, <1>2, <1>5, <2>12, <3>1, <3>2, Checks
  <2>13. CASE pc = 13
    <3>1. instruction.op = "check" /\ instruction.what = "pending"
      BY <2>13, InterruptMaskingProgram DEF instruction, Check
    <3>2. Holds(instruction.what)
      BY <1>1, <1>2, <2>13, <3>1 DEF Holds
    <3>3. QED BY <1>1, <1>2, <1>5, <2>13, <3>1, <3>2, Checks
  <2>14. CASE pc = 14
    <3>1. instruction.op = "log"
      BY <2>14, InterruptMaskingProgram DEF instruction, Log
    <3>2. QED BY <1>1, <1>2, <1>5, <2>14, <3>1, Logs
  <2>15. CASE pc = 15
    <3>1. instruction.op = "en" /\ instruction.value = 1
      BY <2>15, InterruptMaskingProgram DEF instruction, En
    <3>2. QED BY <1>1, <1>2, <1>5, <2>15, <3>1, Enables
  <2>16. CASE pc = 16
    <3>1. instruction.op = "sleep"
      BY <2>16, InterruptMaskingProgram DEF instruction, Sleep
    <3>2. QED BY <1>1, <1>2, <1>5, <2>16, <3>1, Sleeps
  <2>17. CASE pc = 17
    <3>1. instruction.op = "en" /\ instruction.value = 0
      BY <2>17, InterruptMaskingProgram DEF instruction, En
    <3>2. QED BY <1>1, <1>2, <1>5, <2>17, <3>1, Enables
  <2>18. CASE pc = 18
    <3>1. instruction.op = "release"
      BY <2>18, InterruptMaskingProgram DEF instruction, Release
    <3>2. QED BY <1>1, <1>2, <1>5, <2>18, <3>1, Releases
  <2>19. CASE pc = 19
    <3>1. instruction.op = "check" /\ instruction.what = "captured"
      BY <2>19, InterruptMaskingProgram DEF instruction, Check
    <3>2. Holds(instruction.what)
      BY <1>1, <1>2, <2>19, <3>1 DEF Holds, Captured
    <3>3. QED BY <1>1, <1>2, <1>5, <2>19, <3>1, <3>2, Checks
  <2>20. CASE pc = 20
    <3>1. instruction.op = "en" /\ instruction.value = 0
      BY <2>20, InterruptMaskingProgram DEF instruction, En
    <3>2. QED BY <1>1, <1>2, <1>5, <2>20, <3>1, Enables
  <2>21. CASE pc = 21
    <3>1. instruction.op = "ack" /\ instruction.value = 1
      BY <2>21, InterruptMaskingProgram DEF instruction, Ack, Acknowledge
    <3>2. QED BY <1>1, <1>2, <1>5, <2>21, <3>1, Acknowledges DEF AlarmFlagIsSetWhileMaskedAt
  <2> HIDE DEF Standing
  <2>22. QED
    BY <1>1, <2>1, <2>2, <2>3, <2>4, <2>5, <2>6, <2>7, <2>8, <2>9, <2>10, <2>11, <2>12, <2>13, <2>14,
       <2>15, <2>16, <2>17, <2>18, <2>19, <2>20, <2>21
<1>6. QED BY <1>3, <1>4, <1>5

\* TestAlarmFlagIsSetWhileMasked.
LEMMA AlarmFlagIsSetWhileMaskedHolds ==
  ASSUME Working, Standing, test = 11, Tick \/ Interrupt \/ Thread
  PROVE  Standing' /\ pass' = pass
<1>1. /\ Since \in 0 .. N - 1 /\ Gap \in 0 .. N - 1 /\ late \in 0 .. Delay /\ elapsed \in Nat
      /\ t \in 0 .. N - 1 /\ intr_0 \in {0, 1} /\ pc \in 1 .. 20 /\ Len(Programs[test]) = 20
      /\ time_0 = IF t + Since < N THEN t + Since ELSE t + Since - N
  <2>1. Len(Programs[test]) = 20
    BY AlarmFlagIsSetWhileMaskedProgram
  <2>2. QED BY <2>1, Elapsed DEF Working, Registers, Types
<1>2. AlarmFlagIsSetWhileMaskedAt
  BY DEF Standing
<1>3. CASE Tick
  BY <1>1, <1>2, <1>3, Ticks, LatchedTick, Scale
     DEF Standing, AlarmFlagIsSetWhileMaskedAt, Within, Unread, Recording, Comes, Delivers
<1>4. CASE Interrupt
  BY <1>1, <1>2, <1>4, Interrupts, Scale
     DEF Standing, AlarmFlagIsSetWhileMaskedAt, Within, Unread, Running, Comes, PollsLatched, Delivers
<1>5. CASE Thread
  <2> USE Scale DEF Standing, AlarmFlagIsSetWhileMaskedAt, Within, Comes, Delivers, Onward,
          Unread, Recording, Running, Aimed
  <2>1. CASE pc = 1
    <3>1. instruction.op = "log"
      BY <2>1, AlarmFlagIsSetWhileMaskedProgram DEF instruction, Log
    <3>2. QED BY <1>1, <1>2, <1>5, <2>1, <3>1, Logs
  <2>2. CASE pc = 2
    <3>1. instruction.op = "en" /\ instruction.value = 0
      BY <2>2, AlarmFlagIsSetWhileMaskedProgram DEF instruction, En
    <3>2. QED BY <1>1, <1>2, <1>5, <2>2, <3>1, Enables
  <2>3. CASE pc = 3
    <3>1. instruction.op = "ack" /\ instruction.value = 1
      BY <2>3, AlarmFlagIsSetWhileMaskedProgram DEF instruction, Ack, Acknowledge
    <3>2. QED BY <1>1, <1>2, <1>5, <2>3, <3>1, Acknowledges
  <2>4. CASE pc = 4
    <3>1. instruction.op = "capture"
      BY <2>4, AlarmFlagIsSetWhileMaskedProgram DEF instruction
    <3>2. QED BY <1>1, <1>2, <1>5, <2>4, <3>1, Captures
  <2>5. CASE pc = 5
    <3>1. instruction.op = "read"
      BY <2>5, AlarmFlagIsSetWhileMaskedProgram DEF instruction, ReadTime
    <3>2. QED BY <1>1, <1>2, <1>5, <2>5, <3>1, Reads
  <2>6. CASE pc = 6
    <3>1. instruction.op = "alarm" /\ instruction.base = "t" /\ instruction.off = Offset
      BY <2>6, AlarmFlagIsSetWhileMaskedProgram DEF instruction, Alarm
    <3>2. instruction.off \in 0 .. N - 1
      BY <3>1
    <3>3. QED BY <1>1, <1>2, <1>5, <2>6, <3>1, <3>2, ArmsAhead
  <2>7. CASE pc = 7
    <3>1. instruction.op = "read"
      BY <2>7, AlarmFlagIsSetWhileMaskedProgram DEF instruction, ReadTime
    <3>2. QED BY <1>1, <1>2, <1>5, <2>7, <3>1, Reads DEF PollsLatched
  <2>8. CASE pc = 8
    <3>1. instruction.op = "log"
      BY <2>8, AlarmFlagIsSetWhileMaskedProgram DEF instruction, Log
    <3>2. QED BY <1>1, <1>2, <1>5, <2>8, <3>1, Logs DEF PollsLatched
  <2>9. CASE pc = 9
    <3>1. instruction.op = "latched" /\ instruction.timed = TRUE
      BY <2>9, AlarmFlagIsSetWhileMaskedProgram DEF instruction, PollLatched
    <3>2. PollsLatched
      BY <1>2, <2>9
    <3>3. /\ Recording /\ Aimed /\ UNCHANGED <<intr_en_0, pass>>
          /\ g_boot_ptimer_state'.intr_en_0 = g_boot_ptimer_state.intr_en_0
          /\ g_boot_ptimer_state'.alarm_0 = g_boot_ptimer_state.alarm_0
          /\ \/ UNCHANGED <<test, pc, t>> /\ PollsLatched'
             \/ /\ Onward /\ late' = 0 /\ latched' = TRUE /\ intr_0 = 1 /\ Since <= Offset + 2 * Delay
                /\ t' = time_0 /\ Since' = 0
                /\ test = 1 => g_boot_ptimer_state'.alarm_latched
      BY <1>2, <1>5, <2>9, <3>1, <3>2, Latched
    <3>4. QED BY <1>1, <1>2, <2>9, <3>2, <3>3 DEF PollsLatched
  <2>10. CASE pc = 10
    <3>1. instruction.op = "log"
      BY <2>10, AlarmFlagIsSetWhileMaskedProgram DEF instruction, Log
    <3>2. QED BY <1>1, <1>2, <1>5, <2>10, <3>1, Logs
  <2>11. CASE pc = 11
    <3>1. instruction.op = "check" /\ instruction.what = "quiet"
      BY <2>11, AlarmFlagIsSetWhileMaskedProgram DEF instruction, Check
    <3>2. Holds(instruction.what)
      BY <1>1, <1>2, <2>11, <3>1 DEF Holds, Captured
    <3>3. QED BY <1>1, <1>2, <1>5, <2>11, <3>1, <3>2, Checks
  <2>12. CASE pc = 12
    <3>1. instruction.op = "check" /\ instruction.what = "latched"
      BY <2>12, AlarmFlagIsSetWhileMaskedProgram DEF instruction, Check
    <3>2. Holds(instruction.what)
      BY <1>1, <1>2, <2>12, <3>1 DEF Holds
    <3>3. QED BY <1>1, <1>2, <1>5, <2>12, <3>1, <3>2, Checks
  <2>13. CASE pc = 13
    <3>1. instruction.op = "log"
      BY <2>13, AlarmFlagIsSetWhileMaskedProgram DEF instruction, Log
    <3>2. QED BY <1>1, <1>2, <1>5, <2>13, <3>1, Logs
  <2>14. CASE pc = 14
    <3>1. instruction.op = "en" /\ instruction.value = 1
      BY <2>14, AlarmFlagIsSetWhileMaskedProgram DEF instruction, En
    <3>2. QED BY <1>1, <1>2, <1>5, <2>14, <3>1, Enables
  <2>15. CASE pc = 15
    <3>1. instruction.op = "sleep"
      BY <2>15, AlarmFlagIsSetWhileMaskedProgram DEF instruction, Sleep
    <3>2. QED BY <1>1, <1>2, <1>5, <2>15, <3>1, Sleeps
  <2>16. CASE pc = 16
    <3>1. instruction.op = "en" /\ instruction.value = 0
      BY <2>16, AlarmFlagIsSetWhileMaskedProgram DEF instruction, En
    <3>2. QED BY <1>1, <1>2, <1>5, <2>16, <3>1, Enables
  <2>17. CASE pc = 17
    <3>1. instruction.op = "check" /\ instruction.what = "captured"
      BY <2>17, AlarmFlagIsSetWhileMaskedProgram DEF instruction, Check
    <3>2. Holds(instruction.what)
      BY <1>1, <1>2, <2>17, <3>1 DEF Holds, Captured
    <3>3. QED BY <1>1, <1>2, <1>5, <2>17, <3>1, <3>2, Checks
  <2>18. CASE pc = 18
    <3>1. instruction.op = "en" /\ instruction.value = 0
      BY <2>18, AlarmFlagIsSetWhileMaskedProgram DEF instruction, En
    <3>2. QED BY <1>1, <1>2, <1>5, <2>18, <3>1, Enables
  <2>19. CASE pc = 19
    <3>1. instruction.op = "ack" /\ instruction.value = 1
      BY <2>19, AlarmFlagIsSetWhileMaskedProgram DEF instruction, Ack, Acknowledge
    <3>2. QED BY <1>1, <1>2, <1>5, <2>19, <3>1, Acknowledges
  <2>20. CASE pc = 20
    <3>1. instruction.op = "release"
      BY <2>20, AlarmFlagIsSetWhileMaskedProgram DEF instruction, Release
    <3>2. QED BY <1>1, <1>2, <1>5, <2>20, <3>1, Releases DEF AlarmFlagIsSetWhileMaskedResetTimeAt
  <2> HIDE DEF Standing
  <2>21. QED
    BY <1>1, <2>1, <2>2, <2>3, <2>4, <2>5, <2>6, <2>7, <2>8, <2>9, <2>10, <2>11, <2>12, <2>13, <2>14,
       <2>15, <2>16, <2>17, <2>18, <2>19, <2>20
<1>6. QED BY <1>3, <1>4, <1>5

\* TestAlarmFlagIsSetWhileMaskedResetTime.
LEMMA AlarmFlagIsSetWhileMaskedResetTimeHolds ==
  ASSUME Working, Standing, test = 12, Tick \/ Interrupt \/ Thread
  PROVE  Standing' /\ pass' = pass
<1>1. /\ Since \in 0 .. N - 1 /\ Gap \in 0 .. N - 1 /\ late \in 0 .. Delay /\ elapsed \in Nat
      /\ t \in 0 .. N - 1 /\ intr_0 \in {0, 1} /\ pc \in 1 .. 14 /\ Len(Programs[test]) = 14
      /\ time_0 = IF t + Since < N THEN t + Since ELSE t + Since - N
      /\ alarm_0 = IF t + Gap < N THEN t + Gap ELSE t + Gap - N
  <2>1. Len(Programs[test]) = 14
    BY AlarmFlagIsSetWhileMaskedResetTimeProgram
  <2>2. QED BY <2>1, Elapsed DEF Working, Registers, Types
<1>2. AlarmFlagIsSetWhileMaskedResetTimeAt
  BY DEF Standing
<1>3. CASE Tick
  BY <1>1, <1>2, <1>3, Ticks, LatchedTick, Scale
     DEF Standing, AlarmFlagIsSetWhileMaskedResetTimeAt, Within, Unread, Recording, Comes
<1>4. CASE Interrupt
  BY <1>1, <1>2, <1>4, Interrupts, Scale
     DEF Standing, AlarmFlagIsSetWhileMaskedResetTimeAt, Within, Unread, Running, Comes, PollsLatched
<1>5. CASE Thread
  <2> USE Scale DEF Standing, AlarmFlagIsSetWhileMaskedResetTimeAt, Within, Comes, Onward, Unread,
          Recording, Running, Aimed
  <2>1. CASE pc = 1
    <3>1. instruction.op = "log"
      BY <2>1, AlarmFlagIsSetWhileMaskedResetTimeProgram DEF instruction, Log
    <3>2. QED BY <1>1, <1>2, <1>5, <2>1, <3>1, Logs
  <2>2. CASE pc = 2
    <3>1. instruction.op = "en" /\ instruction.value = 0
      BY <2>2, AlarmFlagIsSetWhileMaskedResetTimeProgram DEF instruction, En
    <3>2. QED BY <1>1, <1>2, <1>5, <2>2, <3>1, Enables
  <2>3. CASE pc = 3
    <3>1. instruction.op = "ack" /\ instruction.value = 1
      BY <2>3, AlarmFlagIsSetWhileMaskedResetTimeProgram DEF instruction, Ack, Acknowledge
    <3>2. QED BY <1>1, <1>2, <1>5, <2>3, <3>1, Acknowledges
  <2>4. CASE pc = 4
    <3>1. instruction.op = "capture"
      BY <2>4, AlarmFlagIsSetWhileMaskedResetTimeProgram DEF instruction
    <3>2. QED BY <1>1, <1>2, <1>5, <2>4, <3>1, Captures
  <2>5. CASE pc = 5
    <3>1. instruction.op = "time" /\ instruction.base = "zero" /\ instruction.off = 0
      BY <2>5, AlarmFlagIsSetWhileMaskedResetTimeProgram DEF instruction, Time
    <3>2. instruction.off \in (0 - N) .. N - 1
      BY <3>1
    <3>3. QED BY <1>1, <1>2, <1>5, <2>5, <3>1, <3>2, TimeAt DEF PollsLatched
  <2>6. CASE pc = 6
    <3>1. instruction.op = "alarm" /\ instruction.base = "zero" /\ instruction.off = Offset
      BY <2>6, AlarmFlagIsSetWhileMaskedResetTimeProgram DEF instruction, Alarm
    <3>2. instruction.off \in 0 .. N - 1
      BY <3>1
    <3>3. QED BY <1>1, <1>2, <1>5, <2>6, <3>1, <3>2, ArmsAt DEF PollsLatched
  <2>7. CASE pc = 7
    <3>1. instruction.op = "latched" /\ instruction.timed = FALSE
      BY <2>7, AlarmFlagIsSetWhileMaskedResetTimeProgram DEF instruction, PollLatchedUntil
    <3>2. PollsLatched /\ t = 0
      BY <1>2, <2>7
    <3>3. /\ Recording /\ Aimed /\ UNCHANGED <<intr_en_0, pass>>
          /\ g_boot_ptimer_state'.intr_en_0 = g_boot_ptimer_state.intr_en_0
          /\ g_boot_ptimer_state'.alarm_0 = g_boot_ptimer_state.alarm_0
          /\ \/ UNCHANGED <<test, pc, t>> /\ PollsLatched'
             \/ /\ Onward /\ late' = 0 /\ latched' = TRUE /\ intr_0 = 1 /\ Since <= Offset + 2 * Delay
                /\ t' = time_0 /\ Since' = 0
                /\ test = 1 => g_boot_ptimer_state'.alarm_latched
      BY <1>2, <1>5, <2>7, <3>1, <3>2, Latched
    <3>4. QED BY <1>1, <1>2, <2>7, <3>2, <3>3 DEF PollsLatched
  <2>8. CASE pc = 8
    <3>1. instruction.op = "log"
      BY <2>8, AlarmFlagIsSetWhileMaskedResetTimeProgram DEF instruction, Log
    <3>2. QED BY <1>1, <1>2, <1>5, <2>8, <3>1, Logs
  <2>9. CASE pc = 9
    <3>1. instruction.op = "check" /\ instruction.what = "quiet"
      BY <2>9, AlarmFlagIsSetWhileMaskedResetTimeProgram DEF instruction, Check
    <3>2. Holds(instruction.what)
      BY <1>1, <1>2, <2>9, <3>1 DEF Holds, Captured
    <3>3. QED BY <1>1, <1>2, <1>5, <2>9, <3>1, <3>2, Checks
  <2>10. CASE pc = 10
    <3>1. instruction.op = "check" /\ instruction.what = "latched"
      BY <2>10, AlarmFlagIsSetWhileMaskedResetTimeProgram DEF instruction, Check
    <3>2. Holds(instruction.what)
      BY <1>1, <1>2, <2>10, <3>1 DEF Holds
    <3>3. QED BY <1>1, <1>2, <1>5, <2>10, <3>1, <3>2, Checks
  <2>11. CASE pc = 11
    <3>1. instruction.op = "log"
      BY <2>11, AlarmFlagIsSetWhileMaskedResetTimeProgram DEF instruction, Log
    <3>2. QED BY <1>1, <1>2, <1>5, <2>11, <3>1, Logs
  <2>12. CASE pc = 12
    <3>1. instruction.op = "en" /\ instruction.value = 0
      BY <2>12, AlarmFlagIsSetWhileMaskedResetTimeProgram DEF instruction, En
    <3>2. QED BY <1>1, <1>2, <1>5, <2>12, <3>1, Enables
  <2>13. CASE pc = 13
    <3>1. instruction.op = "ack" /\ instruction.value = 1
      BY <2>13, AlarmFlagIsSetWhileMaskedResetTimeProgram DEF instruction, Ack, Acknowledge
    <3>2. QED BY <1>1, <1>2, <1>5, <2>13, <3>1, Acknowledges
  <2>14. CASE pc = 14
    <3>1. instruction.op = "release"
      BY <2>14, AlarmFlagIsSetWhileMaskedResetTimeProgram DEF instruction, Release
    <3>2. QED BY <1>1, <1>2, <1>5, <2>14, <3>1, Releases DEF InterruptAcknowledgeAt
  <2> HIDE DEF Standing
  <2>15. QED BY <1>1, <2>1, <2>2, <2>3, <2>4, <2>5, <2>6, <2>7, <2>8, <2>9, <2>10, <2>11, <2>12, <2>13, <2>14
<1>6. QED BY <1>3, <1>4, <1>5

\* TestInterruptAcknowledge.
LEMMA InterruptAcknowledgeHolds ==
  ASSUME Working, Standing, test = 13, Tick \/ Interrupt \/ Thread
  PROVE  Standing' /\ pass' = pass
<1>1. /\ Since \in 0 .. N - 1 /\ Gap \in 0 .. N - 1 /\ late \in 0 .. Delay /\ elapsed \in Nat
      /\ t \in 0 .. N - 1 /\ intr_0 \in {0, 1} /\ pc \in 1 .. 14 /\ Len(Programs[test]) = 14
      /\ time_0 = IF t + Since < N THEN t + Since ELSE t + Since - N
      /\ alarm_0 = IF t + Gap < N THEN t + Gap ELSE t + Gap - N
  <2>1. Len(Programs[test]) = 14
    BY InterruptAcknowledgeProgram
  <2>2. QED BY <2>1, Elapsed DEF Working, Registers, Types
<1>2. InterruptAcknowledgeAt
  BY DEF Standing
<1>3. CASE Tick
  BY <1>1, <1>2, <1>3, Ticks, Scale
     DEF Standing, InterruptAcknowledgeAt, Within, Unread, Recording, Comes
<1>4. CASE Interrupt
  BY <1>1, <1>2, <1>4, Interrupts, Scale
     DEF Standing, InterruptAcknowledgeAt, Within, Unread, Running, Comes
<1>5. CASE Thread
  <2> USE Scale DEF Standing, InterruptAcknowledgeAt, Within, Comes, Onward, Unread, Recording,
          Running, Aimed
  <2>1. CASE pc = 1
    <3>1. instruction.op = "log"
      BY <2>1, InterruptAcknowledgeProgram DEF instruction, Log
    <3>2. QED BY <1>1, <1>2, <1>5, <2>1, <3>1, Logs
  <2>2. CASE pc = 2
    <3>1. instruction.op = "en" /\ instruction.value = 0
      BY <2>2, InterruptAcknowledgeProgram DEF instruction, En
    <3>2. QED BY <1>1, <1>2, <1>5, <2>2, <3>1, Enables
  <2>3. CASE pc = 3
    <3>1. instruction.op = "ack" /\ instruction.value = 1
      BY <2>3, InterruptAcknowledgeProgram DEF instruction, Ack, Acknowledge
    <3>2. QED BY <1>1, <1>2, <1>5, <2>3, <3>1, Acknowledges
  <2>4. CASE pc = 4
    <3>1. instruction.op = "time" /\ instruction.base = "zero" /\ instruction.off = 0
      BY <2>4, InterruptAcknowledgeProgram DEF instruction, Time
    <3>2. instruction.off \in (0 - N) .. N - 1
      BY <3>1
    <3>3. QED BY <1>1, <1>2, <1>5, <2>4, <3>1, <3>2, TimeAt
  <2>5. CASE pc = 5
    <3>1. instruction.op = "alarm" /\ instruction.base = "zero" /\ instruction.off = Offset
      BY <2>5, InterruptAcknowledgeProgram DEF instruction, Alarm
    <3>2. instruction.off \in 0 .. N - 1
      BY <3>1
    <3>3. QED BY <1>1, <1>2, <1>5, <2>5, <3>1, <3>2, ArmsAt
  <2>6. CASE pc = 6
    <3>1. instruction.op = "spin" /\ instruction.while = NotOver
      BY <2>6, InterruptAcknowledgeProgram DEF instruction, Spin
    <3>2. t = 0 /\ alarm_0 = Offset /\ Comes /\ Within(Offset + Over)
      BY <1>2, <2>6
    <3>3. time_0 = Since /\ Gap = Offset /\ (time_0 \in instruction.while <=> Since < Offset + Over)
      <4>1. time_0 = Since /\ Gap = Offset
        BY <1>1, <3>2
      <4>2. QED BY <1>1, <3>1, <4>1 DEF NotOver
    <3>4. /\ late' = 0 /\ Unread /\ Recording /\ Running /\ Aimed /\ Gap' = Gap /\ UNCHANGED intr_en_0
          /\ IF Since < Offset + Over THEN UNCHANGED <<test, pc>> ELSE Onward
      BY <1>5, <3>1, <3>3, Spins
    <3>5. QED BY <1>1, <1>2, <2>6, <3>2, <3>3, <3>4
  <2>7. CASE pc = 7
    <3>1. instruction.op = "check" /\ instruction.what = "pending"
      BY <2>7, InterruptAcknowledgeProgram DEF instruction, Check
    <3>2. Holds(instruction.what)
      BY <1>1, <1>2, <2>7, <3>1 DEF Holds
    <3>3. QED BY <1>1, <1>2, <1>5, <2>7, <3>1, <3>2, Checks
  <2>8. CASE pc = 8
    <3>1. instruction.op = "log"
      BY <2>8, InterruptAcknowledgeProgram DEF instruction, Log
    <3>2. QED BY <1>1, <1>2, <1>5, <2>8, <3>1, Logs
  <2>9. CASE pc = 9
    <3>1. instruction.op = "ack" /\ instruction.value = 0
      BY <2>9, InterruptAcknowledgeProgram DEF instruction, Acknowledge
    <3>2. QED BY <1>1, <1>2, <1>5, <2>9, <3>1, Acknowledges
  <2>10. CASE pc = 10
    <3>1. instruction.op = "check" /\ instruction.what = "pending"
      BY <2>10, InterruptAcknowledgeProgram DEF instruction, Check
    <3>2. Holds(instruction.what)
      BY <1>1, <1>2, <2>10, <3>1 DEF Holds
    <3>3. QED BY <1>1, <1>2, <1>5, <2>10, <3>1, <3>2, Checks
  <2>11. CASE pc = 11
    <3>1. instruction.op = "log"
      BY <2>11, InterruptAcknowledgeProgram DEF instruction, Log
    <3>2. QED BY <1>1, <1>2, <1>5, <2>11, <3>1, Logs
  <2>12. CASE pc = 12
    <3>1. instruction.op = "ack" /\ instruction.value = 1
      BY <2>12, InterruptAcknowledgeProgram DEF instruction, Ack, Acknowledge
    <3>2. QED BY <1>1, <1>2, <1>5, <2>12, <3>1, Acknowledges
  <2>13. CASE pc = 13
    <3>1. instruction.op = "check" /\ instruction.what = "acknowledged"
      BY <2>13, InterruptAcknowledgeProgram DEF instruction, Check
    <3>2. Holds(instruction.what)
      BY <1>1, <1>2, <2>13, <3>1 DEF Holds
    <3>3. QED BY <1>1, <1>2, <1>5, <2>13, <3>1, <3>2, Checks
  <2>14. CASE pc = 14
    <3>1. instruction.op = "log"
      BY <2>14, InterruptAcknowledgeProgram DEF instruction, Log
    <3>2. QED
      BY <1>1, <1>2, <1>5, <2>14, <3>1, Logs DEF TimeRegisterReadWriteAt, After, WrittenLow, WrittenHigh
  <2> HIDE DEF Standing
  <2>15. QED BY <1>1, <2>1, <2>2, <2>3, <2>4, <2>5, <2>6, <2>7, <2>8, <2>9, <2>10, <2>11, <2>12, <2>13, <2>14
<1>6. QED BY <1>3, <1>4, <1>5

\* TestTimeRegisterReadWrite.
LEMMA TimeRegisterReadWriteHolds ==
  ASSUME Working, Standing, test = 14, Tick \/ Interrupt \/ Thread
  PROVE  Standing' /\ pass' = pass
<1>1. /\ Since \in 0 .. N - 1 /\ Gap \in 0 .. N - 1 /\ late \in 0 .. Delay /\ elapsed \in Nat
      /\ t \in 0 .. N - 1 /\ intr_0 \in {0, 1} /\ pc \in 1 .. 47 /\ Len(Programs[test]) = 47
      /\ time_0 = IF t + Since < N THEN t + Since ELSE t + Since - N
  <2>1. Len(Programs[test]) = 47
    BY TimeRegisterReadWriteProgram
  <2>2. QED BY <2>1, Elapsed DEF Working, Registers, Types
<1>2. TimeRegisterReadWriteAt
  BY DEF Standing
<1>3. CASE Tick
  BY <1>1, <1>2, <1>3, Ticks, Scale
     DEF Standing, TimeRegisterReadWriteAt, Within, Unread, Recording, After, WrittenLow, WrittenHigh
<1>4. CASE Interrupt
  <2>1. UNCHANGED <<test, pc, time_0, time_1, t, late, high, pass>>
    BY <1>4, Interrupts DEF Unread, Running
  <2>2. QED BY <1>2, <2>1 DEF Standing, TimeRegisterReadWriteAt, After, WrittenLow, WrittenHigh
<1>5. CASE Thread
  <2> USE Scale DEF Standing, TimeRegisterReadWriteAt, Within, After, WrittenLow, WrittenHigh,
          Onward, Unread, Recording, Running, Aimed
  <2>1. CASE pc = 1
    <3>1. instruction.op = "log"
      BY <2>1, TimeRegisterReadWriteProgram DEF instruction, Log
    <3>2. QED BY <1>1, <1>2, <1>5, <2>1, <3>1, Logs
  <2>2. CASE pc = 2
    <3>1. instruction.op = "high" /\ instruction.value = 2
      BY <2>2, TimeRegisterReadWriteProgram DEF instruction, High
    <3>2. QED BY <1>1, <1>2, <1>5, <2>2, <3>1, HighWrites
  <2>3. CASE pc = 3
    <3>1. instruction.op = "time" /\ instruction.base = "zero" /\ instruction.off = 0
      BY <2>3, TimeRegisterReadWriteProgram DEF instruction, Time
    <3>2. instruction.off \in (0 - N) .. N - 1
      BY <3>1
    <3>3. QED BY <1>1, <1>2, <1>5, <2>3, <3>1, <3>2, TimeAt
  <2>4. CASE pc = 4
    <3>1. instruction.op = "read"
      BY <2>4, TimeRegisterReadWriteProgram DEF instruction, ReadTime
    <3>2. QED BY <1>1, <1>2, <1>5, <2>4, <3>1, Reads
  <2>5. CASE pc = 5
    <3>1. instruction.op = "read_high"
      BY <2>5, TimeRegisterReadWriteProgram DEF instruction, ReadHigh
    <3>2. QED BY <1>1, <1>2, <1>5, <2>5, <3>1, HighReads
  <2>6. CASE pc = 6
    <3>1. instruction.op = "log"
      BY <2>6, TimeRegisterReadWriteProgram DEF instruction, Log
    <3>2. QED BY <1>1, <1>2, <1>5, <2>6, <3>1, Logs
  <2>7. CASE pc = 7
    <3>1. instruction.op = "check" /\ instruction.what = "time_1" /\ instruction.value = 2
      BY <2>7, TimeRegisterReadWriteProgram DEF instruction, CheckValue
    <3>2. Holds(instruction.what)
      BY <1>1, <1>2, <2>7, <3>1 DEF Holds
    <3>3. QED BY <1>1, <1>2, <1>5, <2>7, <3>1, <3>2, Checks
  <2>8. CASE pc = 8
    <3>1. instruction.op = "check" /\ instruction.what = "time_0" /\ instruction.value = 0
      BY <2>8, TimeRegisterReadWriteProgram DEF instruction, CheckValue
    <3>2. Holds(instruction.what)
      BY <1>1, <1>2, <2>8, <3>1 DEF Holds
    <3>3. QED BY <1>1, <1>2, <1>5, <2>8, <3>1, <3>2, Checks
  <2>9. CASE pc = 9
    <3>1. instruction.op = "high" /\ instruction.value = 2
      BY <2>9, TimeRegisterReadWriteProgram DEF instruction, High
    <3>2. QED BY <1>1, <1>2, <1>5, <2>9, <3>1, HighWrites
  <2>10. CASE pc = 10
    <3>1. instruction.op = "time" /\ instruction.base = "zero" /\ instruction.off = 1
      BY <2>10, TimeRegisterReadWriteProgram DEF instruction, Time
    <3>2. instruction.off \in (0 - N) .. N - 1
      BY <3>1
    <3>3. QED BY <1>1, <1>2, <1>5, <2>10, <3>1, <3>2, TimeAt
  <2>11. CASE pc = 11
    <3>1. instruction.op = "read"
      BY <2>11, TimeRegisterReadWriteProgram DEF instruction, ReadTime
    <3>2. QED BY <1>1, <1>2, <1>5, <2>11, <3>1, Reads
  <2>12. CASE pc = 12
    <3>1. instruction.op = "read_high"
      BY <2>12, TimeRegisterReadWriteProgram DEF instruction, ReadHigh
    <3>2. QED BY <1>1, <1>2, <1>5, <2>12, <3>1, HighReads
  <2>13. CASE pc = 13
    <3>1. instruction.op = "log"
      BY <2>13, TimeRegisterReadWriteProgram DEF instruction, Log
    <3>2. QED BY <1>1, <1>2, <1>5, <2>13, <3>1, Logs
  <2>14. CASE pc = 14
    <3>1. instruction.op = "check" /\ instruction.what = "time_1" /\ instruction.value = 2
      BY <2>14, TimeRegisterReadWriteProgram DEF instruction, CheckValue
    <3>2. Holds(instruction.what)
      BY <1>1, <1>2, <2>14, <3>1 DEF Holds
    <3>3. QED BY <1>1, <1>2, <1>5, <2>14, <3>1, <3>2, Checks
  <2>15. CASE pc = 15
    <3>1. instruction.op = "check" /\ instruction.what = "time_0" /\ instruction.value = 1
      BY <2>15, TimeRegisterReadWriteProgram DEF instruction, CheckValue
    <3>2. Holds(instruction.what)
      BY <1>1, <1>2, <2>15, <3>1 DEF Holds
    <3>3. QED BY <1>1, <1>2, <1>5, <2>15, <3>1, <3>2, Checks
  <2>16. CASE pc = 16
    <3>1. instruction.op = "high" /\ instruction.value = 2
      BY <2>16, TimeRegisterReadWriteProgram DEF instruction, High
    <3>2. QED BY <1>1, <1>2, <1>5, <2>16, <3>1, HighWrites
  <2>17. CASE pc = 17
    <3>1. instruction.op = "time" /\ instruction.base = "zero" /\ instruction.off = Far
      BY <2>17, TimeRegisterReadWriteProgram DEF instruction, Time
    <3>2. instruction.off \in (0 - N) .. N - 1
      BY <3>1
    <3>3. QED BY <1>1, <1>2, <1>5, <2>17, <3>1, <3>2, TimeAt
  <2>18. CASE pc = 18
    <3>1. instruction.op = "read"
      BY <2>18, TimeRegisterReadWriteProgram DEF instruction, ReadTime
    <3>2. QED BY <1>1, <1>2, <1>5, <2>18, <3>1, Reads
  <2>19. CASE pc = 19
    <3>1. instruction.op = "read_high"
      BY <2>19, TimeRegisterReadWriteProgram DEF instruction, ReadHigh
    <3>2. QED BY <1>1, <1>2, <1>5, <2>19, <3>1, HighReads
  <2>20. CASE pc = 20
    <3>1. instruction.op = "log"
      BY <2>20, TimeRegisterReadWriteProgram DEF instruction, Log
    <3>2. QED BY <1>1, <1>2, <1>5, <2>20, <3>1, Logs
  <2>21. CASE pc = 21
    <3>1. instruction.op = "check" /\ instruction.what = "time_1" /\ instruction.value = 2
      BY <2>21, TimeRegisterReadWriteProgram DEF instruction, CheckValue
    <3>2. Holds(instruction.what)
      BY <1>1, <1>2, <2>21, <3>1 DEF Holds
    <3>3. QED BY <1>1, <1>2, <1>5, <2>21, <3>1, <3>2, Checks
  <2>22. CASE pc = 22
    <3>1. instruction.op = "check" /\ instruction.what = "time_0" /\ instruction.value = Far
      BY <2>22, TimeRegisterReadWriteProgram DEF instruction, CheckValue
    <3>2. Holds(instruction.what)
      BY <1>1, <1>2, <2>22, <3>1 DEF Holds
    <3>3. QED BY <1>1, <1>2, <1>5, <2>22, <3>1, <3>2, Checks
  <2>23. CASE pc = 23
    <3>1. instruction.op = "high" /\ instruction.value = 2
      BY <2>23, TimeRegisterReadWriteProgram DEF instruction, High
    <3>2. QED BY <1>1, <1>2, <1>5, <2>23, <3>1, HighWrites
  <2>24. CASE pc = 24
    <3>1. instruction.op = "time" /\ instruction.base = "zero" /\ instruction.off = 4 * Far
      BY <2>24, TimeRegisterReadWriteProgram DEF instruction, Time
    <3>2. instruction.off \in (0 - N) .. N - 1
      BY <3>1
    <3>3. QED BY <1>1, <1>2, <1>5, <2>24, <3>1, <3>2, TimeAt
  <2>25. CASE pc = 25
    <3>1. instruction.op = "read"
      BY <2>25, TimeRegisterReadWriteProgram DEF instruction, ReadTime
    <3>2. QED BY <1>1, <1>2, <1>5, <2>25, <3>1, Reads
  <2>26. CASE pc = 26
    <3>1. instruction.op = "read_high"
      BY <2>26, TimeRegisterReadWriteProgram DEF instruction, ReadHigh
    <3>2. QED BY <1>1, <1>2, <1>5, <2>26, <3>1, HighReads
  <2>27. CASE pc = 27
    <3>1. instruction.op = "log"
      BY <2>27, TimeRegisterReadWriteProgram DEF instruction, Log
    <3>2. QED BY <1>1, <1>2, <1>5, <2>27, <3>1, Logs
  <2>28. CASE pc = 28
    <3>1. instruction.op = "check" /\ instruction.what = "time_1" /\ instruction.value = 2
      BY <2>28, TimeRegisterReadWriteProgram DEF instruction, CheckValue
    <3>2. Holds(instruction.what)
      BY <1>1, <1>2, <2>28, <3>1 DEF Holds
    <3>3. QED BY <1>1, <1>2, <1>5, <2>28, <3>1, <3>2, Checks
  <2>29. CASE pc = 29
    <3>1. instruction.op = "check" /\ instruction.what = "time_0" /\ instruction.value = 4 * Far
      BY <2>29, TimeRegisterReadWriteProgram DEF instruction, CheckValue
    <3>2. Holds(instruction.what)
      BY <1>1, <1>2, <2>29, <3>1 DEF Holds
    <3>3. QED BY <1>1, <1>2, <1>5, <2>29, <3>1, <3>2, Checks
  <2>30. CASE pc = 30
    <3>1. instruction.op = "time" /\ instruction.base = "zero" /\ instruction.off = 2
      BY <2>30, TimeRegisterReadWriteProgram DEF instruction, Time
    <3>2. instruction.off \in (0 - N) .. N - 1
      BY <3>1
    <3>3. QED BY <1>1, <1>2, <1>5, <2>30, <3>1, <3>2, TimeAt
  <2>31. CASE pc = 31
    <3>1. instruction.op = "high" /\ instruction.value = 1
      BY <2>31, TimeRegisterReadWriteProgram DEF instruction, High
    <3>2. QED BY <1>1, <1>2, <1>5, <2>31, <3>1, HighWrites
  <2>32. CASE pc = 32
    <3>1. instruction.op = "read"
      BY <2>32, TimeRegisterReadWriteProgram DEF instruction, ReadTime
    <3>2. QED BY <1>1, <1>2, <1>5, <2>32, <3>1, Reads
  <2>33. CASE pc = 33
    <3>1. instruction.op = "read_high"
      BY <2>33, TimeRegisterReadWriteProgram DEF instruction, ReadHigh
    <3>2. QED BY <1>1, <1>2, <1>5, <2>33, <3>1, HighReads
  <2>34. CASE pc = 34
    <3>1. instruction.op = "log"
      BY <2>34, TimeRegisterReadWriteProgram DEF instruction, Log
    <3>2. QED BY <1>1, <1>2, <1>5, <2>34, <3>1, Logs
  <2>35. CASE pc = 35
    <3>1. instruction.op = "check" /\ instruction.what = "time_1" /\ instruction.value = 1
      BY <2>35, TimeRegisterReadWriteProgram DEF instruction, CheckValue
    <3>2. Holds(instruction.what)
      BY <1>1, <1>2, <2>35, <3>1 DEF Holds
    <3>3. QED BY <1>1, <1>2, <1>5, <2>35, <3>1, <3>2, Checks
  <2>36. CASE pc = 36
    <3>1. instruction.op = "time" /\ instruction.base = "zero" /\ instruction.off = 2
      BY <2>36, TimeRegisterReadWriteProgram DEF instruction, Time
    <3>2. instruction.off \in (0 - N) .. N - 1
      BY <3>1
    <3>3. QED BY <1>1, <1>2, <1>5, <2>36, <3>1, <3>2, TimeAt
  <2>37. CASE pc = 37
    <3>1. instruction.op = "high" /\ instruction.value = 2
      BY <2>37, TimeRegisterReadWriteProgram DEF instruction, High
    <3>2. QED BY <1>1, <1>2, <1>5, <2>37, <3>1, HighWrites
  <2>38. CASE pc = 38
    <3>1. instruction.op = "read"
      BY <2>38, TimeRegisterReadWriteProgram DEF instruction, ReadTime
    <3>2. QED BY <1>1, <1>2, <1>5, <2>38, <3>1, Reads
  <2>39. CASE pc = 39
    <3>1. instruction.op = "read_high"
      BY <2>39, TimeRegisterReadWriteProgram DEF instruction, ReadHigh
    <3>2. QED BY <1>1, <1>2, <1>5, <2>39, <3>1, HighReads
  <2>40. CASE pc = 40
    <3>1. instruction.op = "log"
      BY <2>40, TimeRegisterReadWriteProgram DEF instruction, Log
    <3>2. QED BY <1>1, <1>2, <1>5, <2>40, <3>1, Logs
  <2>41. CASE pc = 41
    <3>1. instruction.op = "check" /\ instruction.what = "time_1" /\ instruction.value = 2
      BY <2>41, TimeRegisterReadWriteProgram DEF instruction, CheckValue
    <3>2. Holds(instruction.what)
      BY <1>1, <1>2, <2>41, <3>1 DEF Holds
    <3>3. QED BY <1>1, <1>2, <1>5, <2>41, <3>1, <3>2, Checks
  <2>42. CASE pc = 42
    <3>1. instruction.op = "time" /\ instruction.base = "zero" /\ instruction.off = 2
      BY <2>42, TimeRegisterReadWriteProgram DEF instruction, Time
    <3>2. instruction.off \in (0 - N) .. N - 1
      BY <3>1
    <3>3. QED BY <1>1, <1>2, <1>5, <2>42, <3>1, <3>2, TimeAt
  <2>43. CASE pc = 43
    <3>1. instruction.op = "high" /\ instruction.value = HighSize - 1
      BY <2>43, TimeRegisterReadWriteProgram DEF instruction, High
    <3>2. QED BY <1>1, <1>2, <1>5, <2>43, <3>1, HighWrites
  <2>44. CASE pc = 44
    <3>1. instruction.op = "read"
      BY <2>44, TimeRegisterReadWriteProgram DEF instruction, ReadTime
    <3>2. QED BY <1>1, <1>2, <1>5, <2>44, <3>1, Reads
  <2>45. CASE pc = 45
    <3>1. instruction.op = "read_high"
      BY <2>45, TimeRegisterReadWriteProgram DEF instruction, ReadHigh
    <3>2. QED BY <1>1, <1>2, <1>5, <2>45, <3>1, HighReads
  <2>46. CASE pc = 46
    <3>1. instruction.op = "log"
      BY <2>46, TimeRegisterReadWriteProgram DEF instruction, Log
    <3>2. QED BY <1>1, <1>2, <1>5, <2>46, <3>1, Logs
  <2>47. CASE pc = 47
    <3>1. instruction.op = "check" /\ instruction.what = "time_1" /\ instruction.value = HighSize - 1
      BY <2>47, TimeRegisterReadWriteProgram DEF instruction, CheckValue
    <3>2. Holds(instruction.what)
      BY <1>1, <1>2, <2>47, <3>1 DEF Holds
    <3>3. QED BY <1>1, <1>2, <1>5, <2>47, <3>1, <3>2, Checks DEF TimeRegisterRolloverAt, Wraps
  <2> HIDE DEF Standing
  <2>48. QED
    BY <1>1, <2>1, <2>2, <2>3, <2>4, <2>5, <2>6, <2>7, <2>8, <2>9, <2>10, <2>11, <2>12, <2>13, <2>14,
       <2>15, <2>16, <2>17, <2>18, <2>19, <2>20, <2>21, <2>22, <2>23, <2>24, <2>25, <2>26, <2>27, <2>28,
       <2>29, <2>30, <2>31, <2>32, <2>33, <2>34, <2>35, <2>36, <2>37, <2>38, <2>39, <2>40, <2>41, <2>42,
       <2>43, <2>44, <2>45, <2>46, <2>47
<1>6. QED BY <1>3, <1>4, <1>5

\* TestTimeRegisterRollover.
LEMMA TimeRegisterRolloverHolds ==
  ASSUME Working, Standing, test = 15, Tick \/ Interrupt \/ Thread
  PROVE  Standing' /\ pass' = pass
<1>1. /\ Since \in 0 .. N - 1 /\ Gap \in 0 .. N - 1 /\ late \in 0 .. Delay /\ elapsed \in Nat
      /\ t \in 0 .. N - 1 /\ intr_0 \in {0, 1} /\ pc \in 1 .. 10 /\ Len(Programs[test]) = 10
      /\ time_0 = IF t + Since < N THEN t + Since ELSE t + Since - N
  <2>1. Len(Programs[test]) = 10
    BY TimeRegisterRolloverProgram
  <2>2. QED BY <2>1, Elapsed DEF Working, Registers, Types
<1>2. TimeRegisterRolloverAt
  BY DEF Standing
<1>3. CASE Tick
  BY <1>1, <1>2, <1>3, Ticks, Scale
     DEF Standing, TimeRegisterRolloverAt, Within, Unread, Recording, Wraps
<1>4. CASE Interrupt
  BY <1>1, <1>2, <1>4, Interrupts, Scale
     DEF Standing, TimeRegisterRolloverAt, Within, Unread, Running, Wraps
<1>5. CASE Thread
  <2> USE Scale DEF Standing, TimeRegisterRolloverAt, Within, Wraps, Onward, Unread, Recording,
          Running, Aimed
  <2>1. CASE pc = 1
    <3>1. instruction.op = "log"
      BY <2>1, TimeRegisterRolloverProgram DEF instruction, Log
    <3>2. QED BY <1>1, <1>2, <1>5, <2>1, <3>1, Logs
  <2>2. CASE pc = 2
    <3>1. instruction.op = "high" /\ instruction.value = 1
      BY <2>2, TimeRegisterRolloverProgram DEF instruction, High
    <3>2. QED BY <1>1, <1>2, <1>5, <2>2, <3>1, HighWrites
  <2>3. CASE pc = 3
    <3>1. instruction.op = "time" /\ instruction.base = "zero" /\ instruction.off = -1
      BY <2>3, TimeRegisterRolloverProgram DEF instruction, Time
    <3>2. instruction.off \in (0 - N) .. N - 1
      BY <3>1
    <3>3. QED BY <1>1, <1>2, <1>5, <2>3, <3>1, <3>2, TimeAt
  <2>4. CASE pc = 4
    <3>1. instruction.op = "log"
      BY <2>4, TimeRegisterRolloverProgram DEF instruction, Log
    <3>2. QED BY <1>1, <1>2, <1>5, <2>4, <3>1, Logs
  <2>5. CASE pc = 5
    <3>1. instruction.op = "spin" /\ instruction.while = {N - 1}
      BY <2>5, TimeRegisterRolloverProgram DEF instruction, Spin
    <3>2. time_0 \in instruction.while <=> time_0 = N - 1
      BY <1>1, <3>1
    <3>3. /\ late' = 0 /\ Unread /\ Recording /\ Running /\ Aimed /\ Gap' = Gap /\ UNCHANGED intr_en_0
          /\ IF time_0 = N - 1 THEN UNCHANGED <<test, pc>> ELSE Onward
      BY <1>5, <3>1, <3>2, Spins
    <3>4. QED BY <1>1, <1>2, <2>5, <3>3
  <2>6. CASE pc = 6
    <3>1. instruction.op = "read_high"
      BY <2>6, TimeRegisterRolloverProgram DEF instruction, ReadHigh
    <3>2. QED BY <1>1, <1>2, <1>5, <2>6, <3>1, HighReads
  <2>7. CASE pc = 7
    <3>1. instruction.op = "read"
      BY <2>7, TimeRegisterRolloverProgram DEF instruction, ReadTime
    <3>2. QED BY <1>1, <1>2, <1>5, <2>7, <3>1, Reads
  <2>8. CASE pc = 8
    <3>1. instruction.op = "log"
      BY <2>8, TimeRegisterRolloverProgram DEF instruction, Log
    <3>2. QED BY <1>1, <1>2, <1>5, <2>8, <3>1, Logs
  <2>9. CASE pc = 9
    <3>1. instruction.op = "check" /\ instruction.what = "time_1" /\ instruction.value = 2
      BY <2>9, TimeRegisterRolloverProgram DEF instruction, CheckValue
    <3>2. Holds(instruction.what)
      BY <1>1, <1>2, <2>9, <3>1 DEF Holds
    <3>3. QED BY <1>1, <1>2, <1>5, <2>9, <3>1, <3>2, Checks
  <2>10. CASE pc = 10
    <3>1. instruction.op = "log"
      BY <2>10, TimeRegisterRolloverProgram DEF instruction, Log
    <3>2. QED BY <1>1, <1>2, <1>5, <2>10, <3>1, Logs
  <2> HIDE DEF Standing
  <2>11. QED BY <1>1, <2>1, <2>2, <2>3, <2>4, <2>5, <2>6, <2>7, <2>8, <2>9, <2>10
<1>6. QED BY <1>3, <1>4, <1>5

-----------------------------------------------------------------------------
(* No test fails falsely *)

\* The registers are saved once, what RunPreInitBootAlarmTest saw is checked
\* once, and the last program checks nothing.
LEMMA SavedOnce ==
  /\ \A n \in 2 .. 16 : \A i \in 1 .. Len(Programs[n]) : Programs[n][i].op # "save"
  /\ \A n \in 3 .. 16 : \A i \in 1 .. Len(Programs[n]) :
       Programs[n][i].op = "check" => Programs[n][i].what # "boot"
  /\ \A i \in 1 .. Len(Programs[16]) : Programs[16][i].op # "check"
<1> DEFINE Unsaved(s) == \A i \in 1 .. Len(s) : s[i].op # "save"
           Unbooted(s) == \A i \in 1 .. Len(s) : s[i].op = "check" => s[i].what # "boot"
<1> USE DEF En, Acknowledge, Ack, Alarm, Time, ReadTime, High, ReadHigh, Release, PollCaptures,
            PollLatched, PollLatchedUntil, Spin, Sleep, Log, Check, CheckValue
<1>2. Unsaved(Programs[2])
  BY AlarmUnprogrammedProgram
<1>3. Unsaved(Programs[3]) /\ Unbooted(Programs[3])
  BY AlarmTargetZeroProgram
<1>4. Unsaved(Programs[4]) /\ Unbooted(Programs[4])
  BY AlarmRearmProgram
<1>5. Unsaved(Programs[5]) /\ Unbooted(Programs[5])
  BY AlarmAdjustPreservesPendingFlagProgram
<1>6. Unsaved(Programs[6]) /\ Unbooted(Programs[6])
  BY AlarmRolloverAndPeriodicityProgram
<1>7. Unsaved(Programs[7]) /\ Unbooted(Programs[7])
  BY AlarmSetInThePastProgram
<1>8. Unsaved(Programs[8]) /\ Unbooted(Programs[8])
  BY AlarmUnalignedTargetProgram
<1>9. Unsaved(Programs[9]) /\ Unbooted(Programs[9])
  BY RegisterBitmasksProgram
<1>10. Unsaved(Programs[10]) /\ Unbooted(Programs[10])
  BY InterruptMaskingProgram
<1>11. Unsaved(Programs[11]) /\ Unbooted(Programs[11])
  BY AlarmFlagIsSetWhileMaskedProgram
<1>12. Unsaved(Programs[12]) /\ Unbooted(Programs[12])
  BY AlarmFlagIsSetWhileMaskedResetTimeProgram
<1>13. Unsaved(Programs[13]) /\ Unbooted(Programs[13])
  BY InterruptAcknowledgeProgram
<1>14. Unsaved(Programs[14]) /\ Unbooted(Programs[14])
  BY TimeRegisterReadWriteProgram
<1>15. Unsaved(Programs[15]) /\ Unbooted(Programs[15])
  BY TimeRegisterRolloverProgram
<1>16. Unsaved(Programs[16]) /\ \A i \in 1 .. Len(Programs[16]) : Programs[16][i].op # "check"
  BY DEF Programs, ZeroDivisorClock, Quiet, ArmAhead
<1> HIDE DEF Unsaved, Unbooted
<1>17. \A n \in 2 .. 16 : Unsaved(Programs[n])
  <2>1. \A n \in 2 .. 16 : \/ n = 2 \/ n = 3 \/ n = 4 \/ n = 5 \/ n = 6 \/ n = 7 \/ n = 8
                          \/ n = 9 \/ n = 10 \/ n = 11 \/ n = 12 \/ n = 13 \/ n = 14 \/ n = 15 \/ n = 16
    OBVIOUS
  <2>2. QED
    BY <2>1, <1>2, <1>3, <1>4, <1>5, <1>6, <1>7, <1>8, <1>9, <1>10, <1>11, <1>12, <1>13, <1>14, <1>15, <1>16
<1>18. \A n \in 3 .. 16 : Unbooted(Programs[n])
  <2>1. \A n \in 3 .. 16 : \/ n = 3 \/ n = 4 \/ n = 5 \/ n = 6 \/ n = 7 \/ n = 8 \/ n = 9
                          \/ n = 10 \/ n = 11 \/ n = 12 \/ n = 13 \/ n = 14 \/ n = 15 \/ n = 16
    OBVIOUS
  <2>2. Unbooted(Programs[16])
    BY <1>16 DEF Unbooted
  <2>3. QED
    BY <2>1, <2>2, <1>3, <1>4, <1>5, <1>6, <1>7, <1>8, <1>9, <1>10, <1>11, <1>12, <1>13, <1>14, <1>15
<1>19. QED BY <1>16, <1>17, <1>18 DEF Unsaved, Unbooted

\* A step of a test on a PTIMER that works keeps to the tables.
LEMMA StandingStep ==
  ASSUME Working, Standing, Tick \/ Interrupt \/ Thread
  PROVE  Standing' /\ pass' = pass
<1>1. test \in 1 .. 17
  BY DEF Working, Types
<1>2. CASE test \in 1 .. 15
  <2>1. \/ test = 1 \/ test = 2 \/ test = 3 \/ test = 4 \/ test = 5 \/ test = 6 \/ test = 7 \/ test = 8
        \/ test = 9 \/ test = 10 \/ test = 11 \/ test = 12 \/ test = 13 \/ test = 14 \/ test = 15
    BY <1>2
  <2>2. CASE test \in {1, 2, 3, 4, 5}
    BY <2>2, BootAlarmHolds, AlarmUnprogrammedHolds, AlarmTargetZeroHolds, AlarmRearmHolds,
       AlarmAdjustPreservesPendingFlagHolds
  <2>3. CASE test \in {6, 7, 8, 9, 10}
    BY <2>3, AlarmRolloverAndPeriodicityHolds, AlarmSetInThePastHolds, AlarmUnalignedTargetHolds,
       RegisterBitmasksHolds, InterruptMaskingHolds
  <2>4. CASE test \in {11, 12, 13, 14, 15}
    BY <2>4, AlarmFlagIsSetWhileMaskedHolds, AlarmFlagIsSetWhileMaskedResetTimeHolds,
       InterruptAcknowledgeHolds, TimeRegisterReadWriteHolds, TimeRegisterRolloverHolds
  <2>5. QED BY <2>1, <2>2, <2>3, <2>4
<1>3. CASE test \in {16, 17}
  <2>1. CASE Thread
    <3>1. test = 16 /\ instruction.op # "check"
      BY <1>3, <2>1, Dispatch, Here, SavedOnce DEF Working, instruction
    <3>2. pass' = pass
      BY <2>1, <3>1 DEF Thread, At, WriteEnable, WriteAck, WriteAlarm, WriteTime, WriteHigh, ReadTimeStep,
         ReadHighStep, CaptureStep, ReleaseStep, PbInit, SaveRegisters, PollCaptureCount, PollCaptureTime,
         PollInterrupt, PollTime, SpinStep, SleepStep, LogStep, CheckStep, locals, verdicts
    <3>3. Advance \/ Stays
      BY <2>1, <3>1, Steps DEF WriteEnable, PbInit, CaptureStep, ReleaseStep, Passive, PassesOver
    <3>4. test' = 16 \/ test' = 17
      BY <3>1, <3>3 DEF Advance, Stays
    <3>5. QED BY <3>2, <3>4 DEF Standing
  <2>2. CASE Tick \/ Interrupt
    <3>1. test' = test /\ pass' = pass
      BY <2>2 DEF Tick, Interrupt, locals, verdicts
    <3>2. QED BY <1>3, <3>1 DEF Standing
  <2>3. QED BY <2>1, <2>2
<1>4. QED BY <1>1, <1>2, <1>3

\* What pb_init made of INTR_EN_0 is saved once.
LEMMA BootSaved ==
  ASSUME Types, Registers, Thread
  PROVE  \/ g_boot_ptimer_state'.intr_en_0 = g_boot_ptimer_state.intr_en_0
         \/ instruction.op = "save" /\ test = 1 /\ pc = 2 /\ pc' = 3
<1>1. test \in 1 .. 16 /\ pc \in 1 .. Len(Programs[test])
  BY Dispatch, Here
<1>2. CASE instruction.op = "save"
  <2>1. test = 1
    <3>1. ~(test \in 2 .. 16)
      BY <1>1, <1>2, SavedOnce DEF instruction
    <3>2. QED BY <1>1, <3>1
  <2>2. pc = 2
    BY <1>1, <1>2, <2>1, BootAlarmProgram DEF instruction, Time, PollLatched, Ack, Acknowledge
  <2>3. pc' = 3
    BY <1>2, <2>1, <2>2, Dispatch, BootAlarmProgram DEF SaveRegisters, Advance
  <2>4. QED BY <1>2, <2>1, <2>2, <2>3
<1>3. CASE PollInterrupt
  <2>1. g_boot_ptimer_state \in [alarm_0 : 0 .. N - 1, intr_en_0 : {0, 1}, alarm_latched : BOOLEAN]
    BY DEF Registers
  <2>2. g_boot_ptimer_state' \in {g_boot_ptimer_state, [g_boot_ptimer_state EXCEPT !.alarm_latched = TRUE]}
    BY <1>3 DEF PollInterrupt
  <2>3. QED BY <2>1, <2>2
<1>4. CASE instruction.op # "save" /\ ~PollInterrupt
  <2>1. g_boot_ptimer_state' = g_boot_ptimer_state
    BY <1>4 DEF Thread, At, WriteEnable, WriteAck, WriteAlarm, WriteTime, WriteHigh, ReadTimeStep,
       ReadHighStep, CaptureStep, ReleaseStep, PbInit, SaveRegisters, PollCaptureCount, PollCaptureTime,
       PollTime, SpinStep, SleepStep, LogStep, CheckStep
  <2>2. QED BY <2>1
<1>5. QED BY <1>2, <1>3, <1>4

\* That check fails only if pb_init had enabled the interrupt.
LEMMA BootVerdictStep ==
  ASSUME Working, Standing, BootVerdict, Tick \/ Interrupt \/ Thread
  PROVE  BootVerdict'
<1>1. CASE Tick \/ Interrupt
  BY <1>1 DEF Tick, Interrupt, locals, verdicts, BootVerdict, BootEnabled
<1>2. CASE Thread
  <2>1. /\ test \in 1 .. 16 /\ pc \in 1 .. Len(Programs[test]) /\ instruction = Programs[test][pc]
        /\ Types /\ Registers
    BY <1>2, Dispatch, Here DEF Working, instruction
  <2>2. test' = test \/ test' = test + 1
    BY <1>2, Steps DEF WriteEnable, PbInit, CaptureStep, ReleaseStep, Passive, Advance, Stays, PassesOver
  <2>3. test # 1 => test' # 1
    BY <2>1, <2>2
  <2>4. test # 1 => g_boot_ptimer_state'.intr_en_0 = g_boot_ptimer_state.intr_en_0
    BY <1>2, <2>1, BootSaved
  <2>5. CASE instruction.op = "check" /\ instruction.what = "boot" /\ ~Holds("boot")
    <3>1. test = 2
      <4>1. test # 1
        BY <2>1, <2>5, FirstProgram
      <4>2. test \notin 3 .. 16
        BY <2>1, <2>5, SavedOnce
      <4>3. QED BY <2>1, <4>1, <4>2
    <3>2. pc = 11
      <4>1. pc \in 1 .. 14
        BY <2>1, <3>1, AlarmUnprogrammedProgram
      <4>2. QED
        BY <2>1, <2>5, <3>1, <4>1, AlarmUnprogrammedProgram
           DEF Log, En, Ack, Acknowledge, Alarm, Time, PollCaptures, Release, Check
    <3>3. BootEnabled
      BY <2>5, <3>1, <3>2 DEF Standing, AlarmUnprogrammedAt, Holds
    <3>4. QED BY <2>3, <2>4, <3>1, <3>3 DEF BootVerdict, BootEnabled
  <2>6. CASE ~(instruction.op = "check" /\ instruction.what = "boot" /\ ~Holds("boot"))
    <3>1. boot_pass' = boot_pass
      BY <1>2, <2>6
         DEF Thread, At, WriteEnable, WriteAck, WriteAlarm, WriteTime, WriteHigh, ReadTimeStep,
             ReadHighStep, CaptureStep, ReleaseStep, PbInit, SaveRegisters, PollCaptureCount, PollCaptureTime,
             PollInterrupt, PollTime, SpinStep, SleepStep, LogStep, CheckStep, locals, verdicts
    <3>2. QED BY <2>3, <2>4, <3>1 DEF BootVerdict, BootEnabled
  <2>7. QED BY <2>5, <2>6
<1>3. QED BY <1>1, <1>2

\* The tables and the verdicts are inductive.
LEMMA VerdictsStep ==
  ASSUME Types, Registers, Verdicts, [Next]_vars
  PROVE  Verdicts'
<1>1. CASE UNCHANGED vars
  <2>1. UNCHANGED <<fault, pass>> /\ BootVerdict' = BootVerdict
    BY <1>1 DEF vars, registers, locals, verdicts, BootVerdict, BootEnabled
  <2>2. Standing => Standing'
    BY <1>1 DEF vars, registers, counter, isr, locals, Standing, BootAlarmAt, AlarmUnprogrammedAt,
       AlarmTargetZeroAt, AlarmRearmAt, AlarmAdjustPreservesPendingFlagAt, AlarmRolloverAndPeriodicityAt,
       AlarmSetInThePastAt, AlarmUnalignedTargetAt, RegisterBitmasksAt, InterruptMaskingAt,
       AlarmFlagIsSetWhileMaskedAt, AlarmFlagIsSetWhileMaskedResetTimeAt, InterruptAcknowledgeAt,
       TimeRegisterReadWriteAt, TimeRegisterRolloverAt, Captured, Ahead, Since, Gap, Within, Early, Comes,
       PollsLatched, AlarmOrCapture, PollsCaptures, Delivers, Fired, Counted, Rounds, TwoRounds, After,
       WrittenLow, WrittenHigh, Wraps, BootEnabled
  <2>3. QED BY <2>1, <2>2 DEF Verdicts
<1>2. CASE Tick \/ Interrupt \/ Thread
  <2>1. SUFFICES ASSUME fault' = "none" PROVE Standing' /\ pass' /\ BootVerdict'
    BY DEF Verdicts
  <2>2. fault = "none"
    BY <1>2, <2>1, Dispatch DEF Tick, Interrupt
  <2>3. Working /\ Standing /\ pass /\ BootVerdict
    BY <2>2 DEF Verdicts, Working
  <2>4. Standing' /\ pass' = pass
    BY <1>2, <2>3, StandingStep
  <2>5. BootVerdict'
    BY <1>2, <2>3, BootVerdictStep
  <2>6. QED BY <2>3, <2>4, <2>5
<1>3. QED BY <1>1, <1>2 DEF Next, End

\* The registers and the verdict when the program starts.
LEMMA BeginsWell == Init => Registers /\ Verdicts
<1> SUFFICES ASSUME Init PROVE Registers /\ Verdicts
  OBVIOUS
<1>1. /\ time_0 \in {0, N - 1} /\ alarm_0 \in BootAlarms /\ intr_0 \in {0, 1} /\ intr_en_0 = 0
      /\ ptimer_alarm_count = 0 /\ g_alarm_captures = <<>>
      /\ g_boot_ptimer_state = [alarm_0 |-> 0, intr_en_0 |-> 0, alarm_latched |-> FALSE]
      /\ test = 1 /\ pc = 1 /\ polled = FALSE /\ t = 0 /\ latched = FALSE
      /\ pass = TRUE /\ boot_pass = TRUE /\ elapsed = 0
  BY DEF Init
<1>2. N \in Int /\ N > 0 /\ BootAlarms \subseteq 0 .. N - 1
  BY Scale, ScaleAssumption
<1>3. time_0 \in 0 .. N - 1 /\ alarm_0 \in 0 .. N - 1 /\ t \in 0 .. N - 1 /\ 0 \in 0 .. N - 1
  BY <1>1, <1>2
<1>4. /\ elapsed \in Nat /\ ptimer_alarm_count \in Nat /\ g_alarm_captures \in Seq(Nat)
      /\ polled \in BOOLEAN /\ latched \in BOOLEAN /\ pass \in BOOLEAN /\ intr_en_0 \in {0, 1}
  <2>1. <<>> \in Seq(Nat) /\ 0 \in Nat /\ 0 \in {0, 1}
    OBVIOUS
  <2>2. TRUE \in BOOLEAN /\ FALSE \in BOOLEAN
    OBVIOUS
  <2>3. polled \in BOOLEAN /\ latched \in BOOLEAN /\ pass \in BOOLEAN
    BY <1>1, <2>2
  <2>4. QED BY <1>1, <2>1, <2>3
<1>5. g_boot_ptimer_state \in [alarm_0 : 0 .. N - 1, intr_en_0 : {0, 1}, alarm_latched : BOOLEAN]
  BY <1>1, <1>3
<1>6. Registers
  BY <1>1, <1>3, <1>4, <1>5 DEF Registers
<1>7. Standing
  BY <1>1 DEF Standing, BootAlarmAt
<1>8. QED BY <1>1, <1>6, <1>7 DEF Verdicts, BootVerdict

\* NoFalseFailure: on a PTIMER that works, with distances of the tests' order
\* and code that is not later than Delay, every check of every test holds,
\* wherever the ticks and the interrupts fall, whatever alarm the test before it
\* left and whatever pb_init made of INTR_EN_0; if it enabled the interrupt, the
\* one check of what RunPreInitBootAlarmTest saw may fail, and no other.
THEOREM NoTestFailsFalsely == Spec => []NoFalseFailure
<1>1. Init => Types /\ Registers /\ Verdicts
  BY Initially, BeginsWell DEF IInv
<1>2. Types /\ Registers /\ Verdicts /\ [Next]_vars => (Types /\ Registers /\ Verdicts)'
  BY TypesStep, RegistersStep, VerdictsStep
<1>3. Types /\ Registers /\ Verdicts => NoFalseFailure
  BY DEF Verdicts, BootVerdict, BootEnabled, NoFalseFailure
<1>4. QED BY <1>1, <1>2, <1>3, PTL DEF Spec
=============================================================================
