--------------------------- MODULE ClockMainProofs ---------------------------
(***************************************************************************)
(* Theorems about ClockMain, for a counter, an interval and a delay of any *)
(* size: types, the skew test, and the alarms, which keep their interval   *)
(* however the handler's two readings of the counter are torn.             *)
(***************************************************************************)
EXTENDS ClockMain, TLAPS

USE ScaleAssumption

T == kTicksPerInterval

Early == {"start", "ctor", "ctor_hi", "program"}    \* before PTIMER is given a ratio
Unarmed == Early \cup {"time_1", "arm", "enable"}  \* before main enables the interrupt
Looping == {"skew", "poll", "show"}

SkewTests == [start : Nat, target : Nat, end : Nat]

Ratio == [num |-> ptimer_numerator, den |-> ptimer_denominator]

\* TypeOK one variable at a time, and the types of the other variables.
Types ==
    /\ time_1 \in 0 .. HighSize - 1 /\ time_0 \in 0 .. LowSize - 1
    /\ alarm_0 \in 0 .. LowSize - 1 /\ intr_0 \in {0, 1} /\ intr_en_0 \in {0, 1}
    /\ lo \in 0 .. LowSize - 1 /\ isr_lo \in 0 .. LowSize - 1
    /\ ptimer_numerator \in 1 .. kMaxNumeratorDenominator
    /\ ptimer_denominator \in 1 .. kMaxNumeratorDenominator
    /\ running \in BOOLEAN
    /\ last_ptimer \in 0 .. Size - 1 /\ next_alarm_time_ptimer \in 0 .. Size - 1
    /\ isr \in {"none", "hi", "alarm", "ack"}
    /\ pc \in Unarmed \cup Looping \cup {"failed", "returned"}
    /\ skew_test_state \in SkewTests /\ qpc \in Nat
    /\ fired \in 0 .. 2 /\ since \in 0 .. LowSize /\ late \in 0 .. Delay /\ lateness \in Int

\* PTIMER is given the ratio that the program keeps once Program has run.
RatioInv ==
    /\ pc \in Early \cup {"failed"} => ratio = [num |-> 0, den |-> 0]
    /\ pc \in {"time_1", "arm", "enable"} \cup Looping => ratio = Ratio
    /\ pc = "returned" => ratio = Ratio

\* OnAlarmFired runs once it is installed, if the interrupt is enabled, which it is
\* from Enable at the latest until the last frame.
EnableInv ==
    /\ ~ptimer_alarm_fired_callback => isr = "none" /\ fired = 0
    /\ pc \in Looping => intr_en_0 = 1
    /\ isr # "none" => intr_en_0 = 1 /\ fired > 0
    /\ fired > 0 => intr_en_0 = 1 \/ pc = "returned"

\* The low half of a time.
LowOf(a) == a % LowSize

\* The alarm that OnAlarmFired sets is always T ticks after the last time it was
\* entered, modulo the low half, and its flag is raised when they have passed.
AlarmInv ==
    intr_en_0 = 1 /\ fired > 0 =>
      /\ isr # "none" => since = late
      /\ isr = "hi" => LowOf(isr_lo + since) = time_0
      /\ isr = "hi" /\ fired = 2 => LowOf(next_alarm_time_ptimer + lateness) = isr_lo
      /\ isr # "hi" => LowOf(next_alarm_time_ptimer + since) = LowOf(time_0 + T)
      /\ isr \in {"ack", "none"} => alarm_0 = LowOf(next_alarm_time_ptimer)
      /\ isr = "none" => IF intr_0 = 1 THEN since = T + late ELSE since < T

IInv == Types /\ RatioInv /\ EnableInv /\ AlarmInv

-----------------------------------------------------------------------------
(* Arithmetic *)

\* A number has one remainder.
LEMMA Remainder ==
  ASSUME NEW n \in Nat \ {0}, NEW q \in Int, NEW r \in 0 .. n - 1
  PROVE  (n * q + r) % n = r
<1> DEFINE a == n * q + r
           p == a \div n
           s == a % n
<1>1. a \in Int /\ n > 0
  OBVIOUS
<1>2. p \in Int /\ s \in 0 .. n - 1 /\ a = n * p + s
  BY <1>1
<1> HIDE DEF p, s
<1>3. s - r = n * (q - p)
  BY <1>2
<1>4. \A k \in Int : k >= 1 => n * k >= n
  OBVIOUS
<1>5. \A k \in Int : k <= 0 - 1 => n * k <= 0 - n
  OBVIOUS
<1>6. q - p = 0
  BY <1>2, <1>3, <1>4, <1>5
<1>7. QED BY <1>2, <1>3, <1>6 DEF s

\* Quotient and remainder.
LEMMA Division ==
  ASSUME NEW n \in Nat \ {0}, NEW a \in Int
  PROVE  a % n \in 0 .. n - 1 /\ \E q \in Int : a = n * q + (a % n)
<1>1. n > 0 /\ a \div n \in Int
  OBVIOUS
<1>2. a = n * (a \div n) + (a % n)
  BY <1>1
<1>3. QED BY <1>1, <1>2

\* Equal remainders stay equal when the same is added.
LEMMA AddBoth ==
  ASSUME NEW n \in Nat \ {0}, NEW a \in Int, NEW b \in Int, NEW c \in Int, a % n = b % n
  PROVE  (a + c) % n = (b + c) % n
<1>1. PICK p \in Int : a = n * p + (a % n)
  BY Division
<1>2. PICK q \in Int : b = n * q + (b % n)
  BY Division
<1> DEFINE r == a % n
           s == (r + c) % n
<1>3. r \in Int
  BY Division
<1>4. s \in 0 .. n - 1 /\ \E m \in Int : r + c = n * m + s
  <2> HIDE DEF r
  <2>1. r + c \in Int
    BY <1>3
  <2>2. QED BY <2>1, Division
<1> HIDE DEF s
<1>5. PICK m \in Int : r + c = n * m + s
  BY <1>4
<1>6. a = n * p + r /\ b = n * q + r
  BY <1>1, <1>2
<1> HIDE DEF r
<1>7. a + c = n * (p + m) + s /\ b + c = n * (q + m) + s
  BY <1>3, <1>4, <1>5, <1>6
<1>8. p + m \in Int /\ q + m \in Int
  OBVIOUS
<1>9. QED BY <1>4, <1>7, <1>8, Remainder

\* The low half of a 64-bit number.
LEMMA LowHalf ==
  ASSUME NEW n \in Nat \ {0}, NEW h \in Nat \ {0}, NEW a \in Int
  PROVE  (a % (h * n)) % n = a % n
<1>1. h * n \in Nat \ {0}
  OBVIOUS
<1> DEFINE t == a % (h * n)
<1>2. PICK q \in Int : a = (h * n) * q + t
  BY <1>1, Division
<1>3. t \in Int
  BY <1>1, Division
<1> HIDE DEF t
<1>4. t % n \in 0 .. n - 1
  BY <1>3, Division
<1>5. PICK m \in Int : t = n * m + (t % n)
  BY <1>3, Division
<1>6. a = n * (h * q + m) + (t % n) /\ h * q + m \in Int
  <2>1. h * q \in Int /\ (h * n) * q = n * (h * q)
    OBVIOUS
  <2>2. QED BY <1>2, <1>4, <1>5, <2>1
<1>7. QED BY <1>4, <1>6, Remainder DEF t

\* A remainder is its own.
LEMMA Small ==
  ASSUME NEW n \in Nat \ {0}, NEW r \in 0 .. n - 1
  PROVE  r % n = r
<1>1. n * 0 + r = r
  OBVIOUS
<1>2. (n * 0 + r) % n = r
  BY Remainder
<1>3. QED BY <1>1, <1>2

\* Different numbers less than n apart have different remainders.
LEMMA Apart ==
  ASSUME NEW n \in Nat \ {0}, NEW a \in Int, NEW b \in Int, a < b, b - a < n
  PROVE  a % n # b % n
<1> SUFFICES ASSUME a % n = b % n PROVE FALSE
  OBVIOUS
<1>0. 0 - a \in Int
  OBVIOUS
<1>1. (a + (0 - a)) % n = (b + (0 - a)) % n
  BY <1>0, AddBoth
<1>2. a + (0 - a) = 0 /\ b + (0 - a) = b - a /\ 0 \in 0 .. n - 1 /\ b - a \in 0 .. n - 1
  OBVIOUS
<1>3. 0 % n = 0 /\ (b - a) % n = b - a
  BY <1>2, Small
<1>4. QED BY <1>1, <1>2, <1>3

\* Numbers with the same low half, after the same has been added.
LEMMA SameLow ==
  ASSUME NEW a \in Int, NEW b \in Int, NEW d \in Int, NEW e \in Int,
         LowOf(a) = LowOf(b), d - a = e - b
  PROVE  LowOf(d) = LowOf(e)
<1> DEFINE c == d - a
<1>1. c \in Int /\ d = a + c /\ e = b + c /\ LowSize \in Nat \ {0}
  OBVIOUS
<1> HIDE DEF c
<1>2. (a + c) % LowSize = (b + c) % LowSize
  <2>1. c \in Int /\ LowSize \in Nat \ {0} /\ a % LowSize = b % LowSize
    BY <1>1 DEF LowOf
  <2>2. QED BY <2>1, AddBoth
<1>3. QED BY <1>1, <1>2 DEF LowOf

\* The low half of a low half, and of two times less than a round apart.
LEMMA LowOnly ==
  /\ \A r \in 0 .. LowSize - 1 : LowOf(r) = r
  /\ \A a \in Int : LowOf(a) \in 0 .. LowSize - 1
  /\ \A a, b \in Int : a < b /\ b - a < LowSize => LowOf(a) # LowOf(b)
<1>1. LowSize \in Nat \ {0}
  OBVIOUS
<1>2. QED BY <1>1, Small, Division, Apart DEF LowOf

\* Of two times with the same low half, after fewer ticks and after more.
LEMMA Sooner ==
  ASSUME NEW a \in Int, NEW b \in Int, NEW s \in Nat, NEW t \in Nat, s < t, t < LowSize,
         LowOf(a) = LowOf(b)
  PROVE  LowOf(a + s) # LowOf(b + t)
<1>1. a + s \in Int /\ b + s \in Int /\ b + t \in Int /\ (a + s) - a = (b + s) - b
  OBVIOUS
<1>2. b + s < b + t /\ (b + t) - (b + s) < LowSize
  OBVIOUS
<1>3. LowOf(a + s) = LowOf(b + s)
  BY <1>1, SameLow
<1>4. QED BY <1>1, <1>2, <1>3, LowOnly

\* A number of two halves has its place below Size, and the low one is its remainder.
LEMMA Joined ==
  ASSUME NEW hi \in 0 .. HighSize - 1, NEW low \in 0 .. LowSize - 1
  PROVE  Join(hi, low) \in 0 .. Size - 1 /\ Join(hi, low) % LowSize = low
<1>0. LowSize \in Nat \ {0}
  OBVIOUS
<1>1. hi * LowSize \in Int /\ hi * LowSize >= 0 /\ Size \in Int
  BY <1>0 DEF Size
<1>2. hi * LowSize <= (HighSize - 1) * LowSize
  BY <1>0
<1>3. (HighSize - 1) * LowSize = Size - LowSize
  BY <1>0 DEF Size
<1>4. Join(hi, low) \in 0 .. Size - 1
  BY <1>0, <1>1, <1>2, <1>3 DEF Join
<1>5. hi * LowSize = LowSize * hi
  BY <1>0
<1>6. QED BY <1>0, <1>4, <1>5, Remainder DEF Join

-----------------------------------------------------------------------------
(* Types, the ratio and the enable bit *)

\* The limits of the D-pad.
LEMMA Limits ==
  ASSUME NEW v \in 1 .. kMaxNumeratorDenominator
  PROVE  Lower(v) \in 1 .. kMaxNumeratorDenominator /\ Raise(v) \in 1 .. kMaxNumeratorDenominator
<1>1. v \div 10 \in Int /\ v \div 10 <= v /\ kMaxNumeratorDenominator \in Nat
  OBVIOUS
<1>2. QED BY <1>1 DEF Lower, Raise, AtLeast, AtMost

\* What the step of one action of the handler, the counter or main does to the types.
LEMMA TypesBeside ==
  ASSUME Types, Tick \/ TickQpc \/ HandlerWithoutCallback \/ HandlerLo \/ HandlerHi \/ HandlerAlarm \/ HandlerAck
  PROVE  Types'
<1>0. LowSize \in Nat \ {0} /\ HighSize \in Nat \ {0} /\ Size \in Nat \ {0}
  BY DEF Size
<1>1. CASE Tick
  <2>1. late' \in 0 .. Delay
    BY <1>1 DEF Tick, Types
  <2>2. time_0' \in 0 .. LowSize - 1
    BY <1>0, <1>1, Division DEF Tick, Types
  <2>3. time_1' \in 0 .. HighSize - 1
    <3>1. time_1 + 1 \in Int
      BY DEF Types
    <3>2. (time_1 + 1) % HighSize \in 0 .. HighSize - 1
      BY <1>0, <3>1, Division
    <3>3. QED BY <1>1, <3>2 DEF Tick, Types
  <2>4. intr_0' \in {0, 1} /\ since' \in 0 .. LowSize
    BY <1>1 DEF Tick, Types, AtMost
  <2>5. QED BY <1>1, <2>1, <2>2, <2>3, <2>4 DEF Tick, Types, settings, handler
<1>2. CASE TickQpc
  BY <1>2 DEF TickQpc, Types, counter, alarm, settings, handler, history
<1>3. CASE HandlerLo
  <2>1. fired' \in 0 .. 2 /\ lateness' \in Int /\ late' \in 0 .. Delay /\ since' \in 0 .. LowSize
    BY <1>3 DEF HandlerLo, Types, AtMost
  <2>2. QED BY <1>3, <2>1 DEF HandlerLo, Types, counter, settings
<1>4. CASE HandlerHi
  <2>1. last_alarm_ptimer_time \in Int
    BY Joined DEF last_alarm_ptimer_time, Types
  <2>2. next_alarm_time_ptimer' \in 0 .. Size - 1
    <3>1. last_alarm_ptimer_time + kTicksPerInterval \in Int
      BY <2>1
    <3>2. QED BY <1>0, <1>4, <3>1, Division DEF HandlerHi, NextAlarm
  <2>3. QED BY <1>4, <2>2 DEF HandlerHi, Types, counter, alarm, settings
<1>5. CASE HandlerAlarm
  <2>1. next_alarm_time_ptimer \in Int
    BY <1>0 DEF Types
  <2>2. alarm_0' \in 0 .. LowSize - 1
    BY <1>0, <1>5, <2>1, Division DEF HandlerAlarm
  <2>3. QED BY <1>5, <2>2 DEF HandlerAlarm, Types, counter, settings, history
<1>6. CASE HandlerAck
  BY <1>6 DEF HandlerAck, Types, counter, settings
<1>7. CASE HandlerWithoutCallback
  BY <1>7 DEF HandlerWithoutCallback, Types, counter, settings, handler
<1>8. QED BY <1>1, <1>2, <1>3, <1>4, <1>5, <1>6, <1>7

\* main keeps the types.
LEMMA TypesMain ==
  ASSUME Types, Main
  PROVE  Types'
<1>0. /\ LowSize \in Nat \ {0} /\ Size \in Nat \ {0} /\ 1 \in 0 .. HighSize - 1
      /\ kTimerSkewTestSeconds \in Nat /\ RestartSeconds \in Nat
  BY DEF Size
<1> USE DEF counter, alarm, settings, handler, history, Beside, At, Unarmed, Early, Looping
<1>1. CASE StartUp
  BY <1>1 DEF StartUp, Types
<1>2. CASE GetLo
  BY <1>2 DEF GetLo, Types
<1>3. CASE ClockStateCtor
  <2>1. last_ptimer' \in 0 .. Size - 1 /\ lo' \in 0 .. LowSize - 1
    BY <1>0, <1>3, Joined DEF ClockStateCtor, Types
  <2>2. QED BY <1>3, <2>1 DEF ClockStateCtor, Types
<1>4. CASE Program
  BY <1>0, <1>4 DEF Program, Types
<1>5. CASE SetTime1
  BY <1>0, <1>5 DEF SetTime1, Types
<1>6. CASE Arm
  <2>1. last_ptimer + First \in Int
    BY <1>0 DEF Types
  <2>2. alarm_0' = (last_ptimer + First) % LowSize /\ last_ptimer' = 0
    BY <1>6 DEF Arm
  <2>3. alarm_0' \in 0 .. LowSize - 1 /\ last_ptimer' \in 0 .. Size - 1
    <3>1. (last_ptimer + First) % LowSize \in 0 .. LowSize - 1
      BY <1>0, <2>1, Division
    <3>2. 0 \in 0 .. Size - 1
      BY <1>0
    <3>3. QED BY <2>2, <3>1, <3>2
  <2>4. QED BY <1>6, <2>3 DEF Arm, Types
<1>7. CASE Enable
  BY <1>7 DEF Enable, Types
<1>8. CASE StartSkewTest
  BY <1>0, <1>8 DEF StartSkewTest, Start, Types, SkewTests
<1>9. CASE DPad
  <2>1. /\ ptimer_numerator' \in 1 .. kMaxNumeratorDenominator
        /\ ptimer_denominator' \in 1 .. kMaxNumeratorDenominator
    BY <1>9, Limits DEF DPad, SetNumerator, SetDenominator, Types
  <2>2. running' = running
    BY <1>9 DEF DPad, SetNumerator, SetDenominator
  <2>3. QED BY <1>9, <2>1, <2>2 DEF DPad, Event, Types
<1>10. CASE ResetRatio
  BY <1>10 DEF ResetRatio, Event, Types
<1>11. CASE Restart
  BY <1>0, <1>11 DEF Restart, Event, Start, Types, SkewTests
<1>12. CASE Stop
  BY <1>12 DEF Stop, Event, Types
<1>13. CASE NoEvent
  BY <1>13 DEF NoEvent, Types
<1>14. CASE ShowFrame
  <2>1. skew_test_state' \in SkewTests
    BY <1>14 DEF ShowFrame, Update, Types, SkewTests
  <2>2. intr_en_0' \in {0, 1}
    BY <1>14 DEF ShowFrame, Types
  <2>3. pc' \in {"poll", "returned"}
    BY <1>14 DEF ShowFrame
  <2>4. QED BY <1>14, <2>1, <2>2, <2>3 DEF ShowFrame, Types
<1>15. QED
  BY <1>1, <1>2, <1>3, <1>4, <1>5, <1>6, <1>7, <1>8, <1>9, <1>10, <1>11, <1>12, <1>13, <1>14 DEF Main

\* The ratio and the enable bit follow pc.
LEMMA PlacesStep ==
  ASSUME Types, RatioInv, EnableInv, [Next]_vars
  PROVE  RatioInv' /\ EnableInv'
<1> USE DEF RatioInv, EnableInv, Ratio, Early, Unarmed, Looping, ptimer_alarm_fired_callback
<1>1. CASE Tick \/ TickQpc \/ UNCHANGED vars
  BY <1>1 DEF Tick, TickQpc, vars, counter, alarm, settings, handler, history
<1>2. CASE HandlerLo \/ HandlerHi \/ HandlerAlarm \/ HandlerAck
  <2>1. UNCHANGED <<settings, pc, intr_en_0>>
    BY <1>2 DEF HandlerLo, HandlerHi, HandlerAlarm, HandlerAck, alarm
  <2>2. fired' > 0 /\ intr_en_0 = 1 /\ ptimer_alarm_fired_callback
    BY <1>2 DEF HandlerLo, HandlerHi, HandlerAlarm, HandlerAck, Asserted, AtMost, Types, history
  <2>3. QED BY <2>1, <2>2 DEF settings, Types
<1>3. CASE StartUp \/ GetLo \/ ClockStateCtor \/ Program \/ SetTime1 \/ Arm \/ Enable \/ StartSkewTest
  BY <1>3 DEF StartUp, GetLo, ClockStateCtor, Program, SetTime1, Arm, Enable, StartSkewTest, At,
              alarm, settings, handler, history, Beside
<1>4. CASE DPad
  <2>1. pc = "poll" /\ pc' = "poll" /\ UNCHANGED <<intr_en_0, isr, fired>>
    BY <1>4 DEF DPad, Event, At, alarm, handler, history, Beside
  <2>2. ratio = Ratio
    BY <2>1
  <2>3. ratio' = Ratio'
    BY <1>4, <2>2 DEF DPad, SetNumerator, SetDenominator
  <2>4. QED BY <2>1, <2>3
<1>5. CASE ResetRatio \/ Restart \/ Stop \/ NoEvent \/ ShowFrame
  BY <1>5 DEF ResetRatio, Restart, Stop, NoEvent, ShowFrame, Event, At, alarm, settings, handler,
              history, Beside
<1>6. CASE HandlerWithoutCallback
  BY <1>6 DEF HandlerWithoutCallback, settings, handler
<1>7. QED BY <1>1, <1>2, <1>3, <1>4, <1>5, <1>6 DEF Next, Main, OnAlarmFired

-----------------------------------------------------------------------------
(* The alarm *)

\* The counter runs: the flag is raised on the tick that makes the interval full.
LEMMA AlarmTick ==
  ASSUME IInv, Tick, intr_en_0 = 1, fired > 0
  PROVE  AlarmInv'
<1> DEFINE n == next_alarm_time_ptimer
           u == time_0'
<1>0. /\ LowSize \in Nat \ {0} /\ T \in Nat /\ Delay \in Nat /\ T + 2 * Delay < LowSize /\ Delay < T
      /\ n \in Int /\ time_0 \in 0 .. LowSize - 1 /\ since \in Nat /\ late \in 0 .. Delay
      /\ isr_lo \in Int /\ isr \in {"none", "hi", "alarm", "ack"} /\ intr_0 \in {0, 1}
      /\ alarm_0 \in 0 .. LowSize - 1
  BY DEF IInv, Types, Size, T
<1>1. /\ u = LowOf(time_0 + 1) /\ late' = (IF Asserted \/ isr # "none" THEN late + 1 ELSE 0)
      /\ intr_0' = (IF u = alarm_0 THEN 1 ELSE intr_0) /\ since' = AtMost(since + 1, LowSize)
      /\ (Asserted \/ isr # "none" => late < Delay)
      /\ UNCHANGED <<alarm_0, intr_en_0, isr, isr_lo, next_alarm_time_ptimer, fired, lateness>>
  BY DEF Tick, handler, LowOf
<1>2. /\ isr # "none" => since = late
      /\ isr = "hi" => LowOf(isr_lo + since) = time_0
      /\ isr = "hi" /\ fired = 2 => LowOf(n + lateness) = isr_lo
      /\ isr # "hi" => LowOf(n + since) = LowOf(time_0 + T)
      /\ isr \in {"ack", "none"} => alarm_0 = LowOf(n)
      /\ isr = "none" => IF intr_0 = 1 THEN since = T + late ELSE since < T
  BY DEF IInv, AlarmInv
<1>3. Asserted <=> intr_0 = 1
  BY DEF Asserted
<1>4. since' = since + 1
  <2>1. since < LowSize
    BY <1>0, <1>1, <1>2, <1>3
  <2>2. QED BY <1>0, <1>1, <2>1 DEF AtMost
<1>5. u \in 0 .. LowSize - 1 /\ LowOf(u) = u /\ LowOf(time_0) = time_0
  <2>1. time_0 + 1 \in Int
    BY <1>0
  <2>2. QED BY <1>0, <1>1, <2>1, LowOnly
<1>6. LowOf(u) = LowOf(time_0 + 1)
  BY <1>1, <1>5
<1> HIDE DEF n, u
<1>i. /\ isr_lo + since \in Int /\ isr_lo + since' \in Int /\ time_0 \in Int /\ time_0 + 1 \in Int
      /\ n + since \in Int /\ n + since' \in Int /\ time_0 + T \in Int /\ u \in Int
      /\ time_0 + 1 + T \in Int /\ u + T \in Int /\ u + since' \in Int
  BY <1>0, <1>4, <1>5
<1>7. ASSUME isr = "hi" PROVE LowOf(isr_lo + since') = u
  <2>1. LowOf(isr_lo + since) = LowOf(time_0)
    BY <1>2, <1>5, <1>7
  <2>2. (isr_lo + since') - (isr_lo + since) = (time_0 + 1) - time_0
    BY <1>0, <1>4
  <2>3. LowOf(isr_lo + since') = LowOf(time_0 + 1)
    BY <1>i, <2>1, <2>2, SameLow
  <2>4. QED BY <1>1, <2>3
<1>8. ASSUME isr # "hi" PROVE LowOf(n + since') = LowOf(u + T)
  <2>1. LowOf(n + since') = LowOf(time_0 + 1 + T)
    <3>1. LowOf(n + since) = LowOf(time_0 + T)
      BY <1>2, <1>8
    <3>2. (n + since') - (n + since) = (time_0 + 1 + T) - (time_0 + T)
      BY <1>0, <1>4
    <3>3. QED BY <1>i, <3>1, <3>2, SameLow
  <2>2. LowOf(u + T) = LowOf(time_0 + 1 + T)
    <3>1. (u + T) - u = (time_0 + 1 + T) - (time_0 + 1)
      BY <1>0, <1>5
    <3>2. u \in Int /\ time_0 + 1 \in Int /\ u + T \in Int /\ time_0 + 1 + T \in Int
      BY <1>i
    <3>3. QED BY <1>6, <3>1, <3>2, SameLow
  <2>3. QED BY <2>1, <2>2
<1>9. ASSUME isr = "none" PROVE IF intr_0' = 1 THEN since' = T + late' ELSE since' < T
  <2>1. CASE intr_0 = 1
    BY <1>0, <1>1, <1>2, <1>3, <1>4, <1>9, <2>1
  <2>2. CASE intr_0 # 1
    <3>1. late' = 0 /\ since < T /\ alarm_0 = LowOf(n)
      BY <1>1, <1>2, <1>3, <1>9, <2>2
    <3>2. since' \in Nat /\ since' <= T
      BY <1>0, <1>4, <3>1
    <3>3. LowOf(n + since') = LowOf(u + T)
      BY <1>8, <1>9
    <3>4. CASE since' = T
      <4>1. n - (n + since') = u - (u + T)
        BY <1>0, <1>5, <3>4
      <4>2. LowOf(n) = LowOf(u)
        BY <1>0, <1>i, <3>3, <4>1, SameLow
      <4>3. intr_0' = 1
        BY <1>1, <1>5, <3>1, <4>2
      <4>4. QED BY <1>0, <3>1, <3>4, <4>3
    <3>5. CASE since' < T
      <4>1. u # alarm_0
        <5> SUFFICES ASSUME u = alarm_0 PROVE FALSE
          OBVIOUS
        <5>1. LowOf(n) = LowOf(u)
          BY <1>5, <3>1
        <5>2. /\ n \in Int /\ u \in Int /\ since' \in Nat /\ T \in Nat
              /\ since' < T /\ T < LowSize
          BY <1>0, <1>i, <3>2, <3>5
        <5>3. LowOf(n + since') # LowOf(u + T)
          BY <5>1, <5>2, Sooner
        <5>4. QED BY <3>3, <5>3
      <4>2. intr_0' # 1
        BY <1>1, <2>2, <4>1
      <4>3. QED BY <3>5, <4>2
    <3>6. QED BY <1>0, <3>2, <3>4, <3>5
  <2>3. QED BY <2>1, <2>2
<1>10. isr # "none" => since' = late'
  BY <1>0, <1>1, <1>2, <1>4
<1>11. QED
  BY <1>1, <1>2, <1>7, <1>8, <1>9, <1>10 DEF AlarmInv, n, u

\* The handler is entered, an interval and the delay after the last time, and
\* sets the alarm by the time it reads.
LEMMA AlarmHandler ==
  ASSUME IInv, OnAlarmFired
  PROVE  AlarmInv'
<1> DEFINE n == next_alarm_time_ptimer
<1>0. /\ LowSize \in Nat \ {0} /\ HighSize \in Nat \ {0} /\ T \in Nat /\ Delay \in Nat
      /\ T + 2 * Delay < LowSize /\ Delay < T /\ n \in Int /\ time_0 \in 0 .. LowSize - 1
      /\ since \in Nat /\ late \in 0 .. Delay /\ isr_lo \in 0 .. LowSize - 1 /\ fired \in 0 .. 2
      /\ time_1 \in 0 .. HighSize - 1
  BY DEF IInv, Types, Size, T
<1>t. LowOf(time_0) = time_0 /\ LowOf(isr_lo) = isr_lo
  BY <1>0, LowOnly
<1>1. CASE HandlerLo
  <2>1. /\ intr_en_0 = 1 /\ intr_0 = 1 /\ isr = "none" /\ isr' = "hi" /\ isr_lo' = time_0
        /\ fired' = AtMost(fired + 1, 2) /\ lateness' = since - T /\ since' = 0 /\ late' = 0
        /\ UNCHANGED <<time_0, next_alarm_time_ptimer>>
    BY <1>1 DEF HandlerLo, Asserted, counter, T
  <2>2. LowOf(isr_lo' + since') = time_0'
    <3>1. isr_lo' + since' = time_0
      BY <1>0, <2>1
    <3>2. QED BY <1>t, <2>1, <3>1
  <2>3. ASSUME fired' = 2 PROVE LowOf(n + lateness') = isr_lo'
    <3>1. fired > 0
      BY <1>0, <2>1, <2>3 DEF AtMost
    <3>2. LowOf(n + since) = LowOf(time_0 + T)
      BY <2>1, <3>1 DEF IInv, AlarmInv
    <3>3. /\ n + since \in Int /\ time_0 + T \in Int /\ n + lateness' \in Int /\ time_0 \in Int
          /\ (n + lateness') - (n + since) = time_0 - (time_0 + T)
      BY <1>0, <2>1
    <3>4. LowOf(n + lateness') = LowOf(time_0)
      BY <3>2, <3>3, SameLow
    <3>5. QED BY <1>t, <2>1, <3>4
  <2>4. QED BY <2>1, <2>2, <2>3 DEF AlarmInv
<1>2. CASE HandlerHi
  <2>1. /\ isr = "hi" /\ isr' = "alarm" /\ n' = (Join(time_1, isr_lo) + T) % Size
        /\ UNCHANGED <<time_0, intr_en_0, fired, since, late>>
    BY <1>2 DEF HandlerHi, NextAlarm, last_alarm_ptimer_time, counter, alarm, T
  <2>2. /\ intr_en_0 = 1 /\ fired > 0 /\ since = late /\ LowOf(isr_lo + since) = time_0
    BY <2>1 DEF IInv, EnableInv, AlarmInv
  <2> DEFINE j == Join(time_1, isr_lo)
  <2>3. j \in Int /\ LowOf(j) = LowOf(isr_lo)
    <3>1. j \in 0 .. Size - 1 /\ LowOf(j) = isr_lo
      BY <1>0, Joined DEF LowOf
    <3>2. QED BY <1>t, <3>1
  <2> HIDE DEF j
  <2>i. /\ j + T \in Int /\ isr_lo \in Int /\ isr_lo + T \in Int /\ isr_lo + since \in Int
        /\ time_0 \in Int /\ time_0 + T \in Int /\ isr_lo + T + since \in Int
    BY <1>0, <2>3
  <2>4. n' \in Int /\ LowOf(n') = LowOf(isr_lo + T)
    <3>1. LowOf((j + T) % Size) = LowOf(j + T)
      BY <1>0, <2>i, LowHalf DEF Size, LowOf
    <3>2. (j + T) - j = (isr_lo + T) - isr_lo
      BY <1>0, <2>3
    <3>3. LowOf(j + T) = LowOf(isr_lo + T)
      <4>1. j \in Int /\ isr_lo \in Int /\ j + T \in Int /\ isr_lo + T \in Int /\ LowOf(j) = LowOf(isr_lo)
        BY <2>3, <2>i
      <4>2. QED BY <3>2, <4>1, SameLow
    <3>4. Size \in Nat \ {0}
      BY <1>0 DEF Size
    <3>5. (j + T) % Size \in Int
      BY <2>i, <3>4, Division
    <3>6. QED BY <2>1, <3>1, <3>3, <3>5 DEF j
  <2> DEFINE m == n'
  <2> HIDE DEF n, m
  <2>5. LowOf(m + since) = LowOf(time_0 + T)
    <3>1. LowOf(m + since) = LowOf(isr_lo + T + since)
      <4>1. m \in Int /\ m + since \in Int /\ (m + since) - m = (isr_lo + T + since) - (isr_lo + T)
        BY <1>0, <2>4 DEF m
      <4>2. QED BY <2>4, <2>i, <4>1, SameLow DEF m
    <3>2. LowOf(isr_lo + T + since) = LowOf(time_0 + T)
      <4>1. (isr_lo + T + since) - (isr_lo + since) = (time_0 + T) - time_0
        BY <1>0
      <4>2. LowOf(isr_lo + since) = LowOf(time_0)
        BY <1>t, <2>2
      <4>3. QED BY <2>i, <4>1, <4>2, SameLow
    <3>3. QED BY <3>1, <3>2
  <2>6. QED BY <2>1, <2>2, <2>5 DEF AlarmInv, n, m
<1>3. CASE HandlerAlarm
  <2>1. /\ isr = "alarm" /\ isr' = "ack" /\ alarm_0' = LowOf(n)
        /\ UNCHANGED <<time_0, intr_en_0, fired, since, late, next_alarm_time_ptimer>>
    BY <1>3 DEF HandlerAlarm, counter, history, LowOf
  <2>2. QED BY <2>1 DEF IInv, AlarmInv
<1>4. CASE HandlerAck
  <2>1. /\ isr = "ack" /\ isr' = "none" /\ intr_0' = 0
        /\ UNCHANGED <<time_0, alarm_0, intr_en_0, fired, since, next_alarm_time_ptimer>>
    BY <1>4 DEF HandlerAck, counter
  <2>2. intr_en_0 = 1 /\ fired > 0 /\ since = late
    BY <2>1 DEF IInv, EnableInv, AlarmInv
  <2>3. since < T
    BY <1>0, <2>2
  <2>4. QED BY <2>1, <2>2, <2>3 DEF IInv, AlarmInv
<1>5. CASE HandlerWithoutCallback
  BY <1>5 DEF HandlerWithoutCallback, handler, IInv, EnableInv, AlarmInv
<1>6. QED BY <1>1, <1>2, <1>3, <1>4, <1>5 DEF OnAlarmFired

\* When main sets the alarm the count of alarms begins anew; what main enables was
\* enabled, or has not fired.
LEMMA AlarmMain ==
  ASSUME IInv, Main \/ TickQpc \/ UNCHANGED vars
  PROVE  AlarmInv'
<1>1. CASE UNCHANGED <<time_0, alarm_0, intr_0, intr_en_0, handler, history>>
  BY <1>1 DEF IInv, AlarmInv, handler, history
<1>2. CASE Arm
  BY <1>2 DEF Arm, AlarmInv
<1>3. CASE Enable \/ StartUp
  <2>1. (intr_en_0 = 1 /\ intr_en_0' = 1) \/ fired' = 0
    BY <1>3 DEF Enable, StartUp, At, Beside, history, IInv, Types, EnableInv, ptimer_alarm_fired_callback
  <2>2. UNCHANGED <<time_0, alarm_0, intr_0, handler, history>>
    BY <1>3 DEF Enable, StartUp, Beside, counter
  <2>3. QED BY <2>1, <2>2 DEF IInv, AlarmInv, handler, history
<1>4. CASE ShowFrame
  BY <1>1, <1>4 DEF ShowFrame, AlarmInv, counter, Beside
<1>5. CASE \/ GetLo \/ ClockStateCtor \/ Program \/ SetTime1 \/ StartSkewTest
           \/ DPad \/ ResetRatio \/ Restart \/ Stop \/ NoEvent \/ TickQpc \/ UNCHANGED vars
  BY <1>1, <1>5 DEF GetLo, ClockStateCtor, Program, SetTime1, StartSkewTest, DPad, ResetRatio,
                    Restart, Stop, NoEvent, TickQpc, Event, vars, counter, alarm, Beside
<1>6. QED BY <1>2, <1>3, <1>4, <1>5 DEF Main

-----------------------------------------------------------------------------
(* The invariant *)

\* It holds in every state the program and PTIMER can be started in.
LEMMA Initially == Init => IInv
<1> SUFFICES ASSUME Init PROVE IInv
  OBVIOUS
<1>0. LowSize \in Nat \ {0} /\ Size \in Nat \ {0} /\ LowSize - 1 \in 0 .. LowSize - 1
  BY DEF Size
<1>1. running \in BOOLEAN
  BY DEF Init
<1>2. Types
  BY <1>0, <1>1 DEF Init, Types, Unarmed, Early, SkewTests
<1>3. RatioInv /\ EnableInv /\ AlarmInv
  BY DEF Init, RatioInv, EnableInv, AlarmInv, Early, Unarmed, Looping, ptimer_alarm_fired_callback
<1>4. QED BY <1>2, <1>3 DEF IInv

\* Every step keeps it, main's, the handler's and the counter's.
LEMMA Inductive == IInv /\ [Next]_vars => IInv'
<1> SUFFICES ASSUME IInv, [Next]_vars PROVE IInv'
  OBVIOUS
<1>1. Types'
  <2>1. CASE UNCHANGED vars
    BY <2>1 DEF IInv, Types, vars, counter, alarm, settings, handler, history
  <2>2. QED BY <2>1, TypesBeside, TypesMain DEF IInv, Next, OnAlarmFired
<1>2. RatioInv' /\ EnableInv'
  BY PlacesStep DEF IInv
<1>3. AlarmInv'
  <2>1. CASE Tick
    <3>1. UNCHANGED <<intr_en_0, fired>>
      BY <2>1 DEF Tick
    <3>2. CASE intr_en_0 = 1 /\ fired > 0
      BY <2>1, <3>2, AlarmTick
    <3>3. QED BY <3>1, <3>2 DEF AlarmInv
  <2>2. QED BY <2>1, AlarmHandler, AlarmMain DEF Next
<1>4. QED BY <1>1, <1>2, <1>3 DEF IInv

\* The state of the clock program and of the alarm it keeps setting.
THEOREM Invariance == Spec => []IInv
BY Initially, Inductive, PTL DEF Spec

-----------------------------------------------------------------------------
(* The properties *)

\* TypeOK: the ratio PTIMER is given is the one the program keeps, and both its
\* parts stay between 1 and kMaxNumeratorDenominator, whatever is pressed.
THEOREM TypeCorrect == Spec => []TypeOK
<1>1. IInv => TypeOK
  <2> SUFFICES ASSUME IInv PROVE TypeOK
    OBVIOUS
  <2>1. ratio \in {[num |-> 0, den |-> 0], Ratio}
    BY DEF IInv, Types, RatioInv, Unarmed, Early, Looping
  <2>2. /\ {ptimer_numerator, ptimer_denominator} \subseteq 1 .. kMaxNumeratorDenominator
        /\ {last_ptimer, next_alarm_time_ptimer} \subseteq 0 .. Size - 1
    BY DEF IInv, Types
  <2>3. running \in BOOLEAN
    BY DEF IInv, Types
  <2>4. /\ counter \in (0 .. HighSize - 1) \X (0 .. LowSize - 1)
        /\ alarm \in (0 .. LowSize - 1) \X {0, 1} \X {0, 1}
        /\ lo \in 0 .. LowSize - 1 /\ isr_lo \in 0 .. LowSize - 1
        /\ isr \in {"none", "hi", "alarm", "ack"}
    BY DEF IInv, Types, counter, alarm
  <2>5. QED BY <2>1, <2>2, <2>3, <2>4 DEF TypeOK, Ratio
<1>2. QED BY <1>1, Invariance, PTL

\* AlarmsKeepTheirInterval: from the second alarm on since main has set one, the handler is entered an interval
\* after it was entered last, and no later than it takes to be called
\* (OnAlarmFired, clock_main.cpp:104-111).
THEOREM AlarmsAnIntervalApart == Spec => AlarmsKeepTheirInterval
<1>1. IInv /\ [Next]_vars =>
        [fired > 0 /\ HandlerLo => since \in kTicksPerInterval .. kTicksPerInterval + Delay]_vars
  <2> SUFFICES ASSUME IInv, fired > 0, HandlerLo
               PROVE  since \in kTicksPerInterval .. kTicksPerInterval + Delay
    OBVIOUS
  <2>1. intr_0 = 1 /\ intr_en_0 = 1 /\ isr = "none"
    BY DEF HandlerLo, Asserted
  <2>2. since = T + late
    BY <2>1 DEF IInv, AlarmInv
  <2>3. late \in 0 .. Delay /\ Delay \in Nat /\ kTicksPerInterval \in Nat
    BY DEF IInv, Types
  <2>4. QED BY <2>2, <2>3 DEF T
<1>2. QED BY <1>1, Invariance, PTL DEF Spec, AlarmsKeepTheirInterval

\* DeltaIsLateness: the difference that is shown is the alarm's lateness in its
\* low half, whatever became of the high half (clock_main.cpp:107-110).
THEOREM DeltaShowsLateness == Spec => DeltaIsLateness
<1>1. IInv /\ [Next]_vars => [HandlerHi /\ fired = 2 => (Delta - lateness) % LowSize = 0]_vars
  <2> SUFFICES ASSUME IInv, HandlerHi, fired = 2 PROVE LowOf(Delta - lateness) = 0
    BY DEF LowOf
  <2> DEFINE n == next_alarm_time_ptimer
             j == Join(time_1, isr_lo)
             d == (j - n) % Size
  <2>1. Delta = d
    BY DEF Delta, Minus, last_alarm_ptimer_time
  <2>2. n \in Int /\ lateness \in Int /\ LowSize \in Nat \ {0} /\ HighSize \in Nat \ {0}
    BY DEF IInv, Types, Size
  <2>3. j \in Int /\ LowOf(j) = isr_lo
    BY Joined DEF IInv, Types, LowOf
  <2>4. LowOf(n + lateness) = isr_lo
    BY DEF IInv, EnableInv, AlarmInv, HandlerHi
  <2>5. d \in Int /\ LowOf(d) = LowOf(j - n)
    <3> HIDE DEF n, j
    <3>1. j - n \in Int /\ Size \in Nat \ {0}
      BY <2>2, <2>3 DEF Size
    <3>2. d \in Int
      BY <3>1, Division
    <3>3. LowOf(d) = LowOf(j - n)
      BY <2>2, <3>1, LowHalf DEF Size, LowOf
    <3>4. QED BY <3>2, <3>3
  <2> HIDE DEF n, j, d
  <2>i. /\ j - n \in Int /\ d - lateness \in Int /\ j - n - lateness \in Int
        /\ n + lateness \in Int /\ (n + lateness) - (n + lateness) = 0 /\ 0 \in Int
    BY <2>2, <2>3, <2>5
  <2>6. LowOf(d - lateness) = LowOf(j - n - lateness)
    <3>1. (d - lateness) - d = (j - n - lateness) - (j - n)
      BY <2>2, <2>3, <2>5
    <3>2. QED BY <2>5, <2>i, <3>1, SameLow
  <2>7. LowOf(j - n - lateness) = LowOf(0)
    <3>1. (j - n - lateness) - j = 0 - (n + lateness)
      BY <2>2, <2>3
    <3>2. LowOf(j) = LowOf(n + lateness)
      BY <2>3, <2>4
    <3>3. QED BY <2>3, <2>i, <3>1, <3>2, SameLow
  <2>8. LowOf(0) = 0
    <3>1. 0 \in 0 .. LowSize - 1
      BY <2>2
    <3>2. QED BY <3>1, LowOnly
  <2>9. QED BY <2>1, <2>6, <2>7, <2>8
<1>2. QED BY <1>1, Invariance, PTL DEF Spec, DeltaIsLateness

\* SkewTestEndsOnce: the results of a skew test stay until it is started again,
\* and it does not end before its time (ClockSkewTestState::Update).
THEOREM SkewTestsEndOnce == Spec => SkewTestEndsOnce
<1> DEFINE Ends ==
      skew_test_state' # skew_test_state =>
        \/ skew_test_state'.end = 0
        \/ /\ skew_test_state.end = 0 /\ skew_test_state'.end >= skew_test_state.target
           /\ skew_test_state'.target = skew_test_state.target
<1>1. IInv /\ [Next]_vars => [Ends]_vars
  <2> SUFFICES ASSUME IInv, Next PROVE Ends
    OBVIOUS
  <2>1. skew_test_state \in SkewTests /\ qpc \in Nat
    BY DEF IInv, Types
  <2>2. CASE Tick \/ TickQpc \/ OnAlarmFired
    BY <2>2 DEF Tick, TickQpc, OnAlarmFired, HandlerWithoutCallback, HandlerLo, HandlerHi, HandlerAlarm, HandlerAck
  <2>3. CASE StartSkewTest \/ Restart
    BY <2>3 DEF StartSkewTest, Restart, Start
  <2>4. CASE ShowFrame
    BY <2>1, <2>4 DEF ShowFrame, Update, SkewTests
  <2>5. CASE \/ StartUp \/ GetLo \/ ClockStateCtor \/ Program \/ SetTime1 \/ Arm \/ Enable
             \/ DPad \/ ResetRatio \/ Stop \/ NoEvent
    BY <2>5 DEF StartUp, GetLo, ClockStateCtor, Program, SetTime1, Arm, Enable, DPad, ResetRatio,
                Stop, NoEvent, settings
  <2>6. QED BY <2>2, <2>3, <2>4, <2>5 DEF Next, Main
<1>2. QED BY <1>1, Invariance, PTL DEF Spec, SkewTestEndsOnce
=============================================================================
