------------------------- MODULE PtimerClockProofs --------------------------
(***************************************************************************)
(* Theorems about PtimerClock: for counters of any size, GetPTIMERTime     *)
(* reads the two halves as if they were one register, and the ticks that   *)
(* ClockState reports lose nothing.                                        *)
(***************************************************************************)
EXTENDS PtimerClock, TLAPS

USE SizeAssumption

IInv == TypeOK /\ HalvesBelongTogether /\ TicksAddUp

\* The number a reading stands for is an integer.
LEMMA TicksInt == \A time \in Time : Ticks(time) \in Int
BY DEF Time, High, Low, Ticks

\* The counter starts with matching halves.
LEMMA InitInv == Init => IInv
<1> SUFFICES ASSUME Init PROVE IInv
  OBVIOUS
<1>1. TypeOK
  <2>1. 0 \in High /\ 0 \in Low /\ time_1 \in High /\ time_0 \in Low
    BY DEF Init, High, Low
  <2>2. counter \in Time /\ <<0, 0>> \in Time
    BY <2>1 DEF Time, counter
  <2>3. /\ pc = "idle" /\ caller = "none" /\ <<hi1, lo>> = <<0, 0>> /\ held = {} /\ carries = 0
        /\ result = <<0, 0>> /\ torn = <<0, 0>> /\ last_ptimer = <<0, 0>> /\ ptimer_now = <<0, 0>>
        /\ ptimer_ticks = 0 /\ total = 0 /\ initialized = FALSE
    BY DEF Init
  <2>4. /\ pc = "idle" <=> caller = "none"
        /\ pc \in {"hi1", "lo", "hi2"} <=> caller \in Retrying
    BY <2>3 DEF Retrying
  <2>5. /\ result \in Time /\ torn \in Time /\ last_ptimer \in Time /\ ptimer_now \in Time
        /\ <<hi1, lo>> \in Time /\ counter \in Time
    BY <2>2, <2>3
  <2>6. ptimer_ticks \in Int /\ total \in Int /\ held \in SUBSET Time
    BY <2>3
  <2>9. initialized \in BOOLEAN
    BY <2>3, Zenon
  <2>7. carries \in 0 .. HighSize - 1
    BY <2>3
  <2>8. caller \in Callers \cup {"none"} /\ pc \in {"idle", "hi1", "lo", "hi2", "first_lo",
                                            "then_hi", "first_hi", "then_lo"}
    BY <2>3
  <2> QED BY <2>4, <2>5, <2>6, <2>7, <2>8, <2>9 DEF TypeOK
<1>2. HalvesBelongTogether /\ TicksAddUp
  BY DEF Init, HalvesBelongTogether, TicksAddUp, Retrying
<1> QED BY <1>1, <1>2 DEF IInv

\* A step of the counter.
LEMMA TickInv == IInv /\ Tick => IInv'
<1> SUFFICES ASSUME IInv, Tick PROVE IInv'
  OBVIOUS
<1>1. CASE Count
  <2>1. TypeOK'
    BY <1>1 DEF Count, IInv, TypeOK, counter, Time, High, Low, Observe, g_clock_state, Callers
  <2>2. HalvesBelongTogether'
    BY <1>1 DEF Count, IInv, HalvesBelongTogether, TypeOK, counter, Observe, Callers, Retrying
  <2>3. TicksAddUp'
    BY <1>1 DEF Count, IInv, TicksAddUp, g_clock_state, Ticks
  <2> QED BY <2>1, <2>2, <2>3 DEF IInv
<1>2. CASE Carry
  <2>1. TypeOK'
    BY <1>2 DEF Carry, IInv, TypeOK, counter, Time, High, Low, Observe, g_clock_state, Callers
  <2>2. HalvesBelongTogether'
    <3>1. (caller \in Retrying => counter \in held)'
      BY <1>2 DEF Carry, IInv, TypeOK, counter, Observe, Callers, Retrying
    <3>2. (pc \in {"lo", "hi2"} =>
            time_1 = IF hi1 + carries < HighSize THEN hi1 + carries
                                                 ELSE hi1 + carries - HighSize)'
      BY <1>2 DEF Carry, IInv, TypeOK, counter, HalvesBelongTogether, Time, High, Low
    <3>3. (pc = "hi2" /\ carries = 0 => <<hi1, lo>> \in held)'
      BY <1>2 DEF Carry, IInv, TypeOK
    <3> QED BY <3>1, <3>2, <3>3 DEF HalvesBelongTogether
  <2>3. TicksAddUp'
    BY <1>2 DEF Carry, IInv, TicksAddUp, g_clock_state, Ticks
  <2> QED BY <2>1, <2>2, <2>3 DEF IInv
<1> QED BY <1>1, <1>2 DEF Tick

\* A call begins.
LEMMA CallInv == \A c \in Callers : IInv /\ Call(c) => IInv'
<1> SUFFICES ASSUME NEW c \in Callers, IInv, Call(c) PROVE IInv'
  OBVIOUS
<1>1. TypeOK'
  BY DEF Call, FirstRead, IInv, TypeOK, counter, Time, High, Low, g_clock_state, Callers, Retrying
<1>2. HalvesBelongTogether'
  BY DEF Call, FirstRead, IInv, HalvesBelongTogether, TypeOK, counter, Callers, Retrying
<1>3. TicksAddUp'
  BY DEF Call, IInv, TicksAddUp, g_clock_state, Ticks
<1> QED BY <1>1, <1>2, <1>3 DEF IInv

\* When both readings of TIME_1 agree, nothing has carried in between: the
\* result is a value the counter held during the call.
LEMMA ReturnedValueHeld == IInv /\ ReturnTime => <<hi1, lo>> \in held
BY DEF IInv, TypeOK, HalvesBelongTogether, ReturnTime, Stable, Time, High, Low, counter

\* Returning that value keeps the invariant.
LEMMA ReturnInv == IInv /\ ReturnTime => IInv'
<1> SUFFICES ASSUME IInv, ReturnTime PROVE IInv'
  OBVIOUS
<1> DEFINE now == <<hi1, lo>>
<1>1. now \in Time /\ last_ptimer \in Time /\ caller \in Retrying
  BY DEF IInv, TypeOK, ReturnTime
<1>2. /\ last_ptimer' \in Time /\ ptimer_now' \in Time
      /\ ptimer_ticks' \in Int /\ total' \in Int /\ initialized' \in BOOLEAN
      /\ TicksAddUp'
  <2>0. /\ Ticks(now) \in Int /\ Ticks(last_ptimer) \in Int
        /\ total \in Int /\ ptimer_ticks \in Int /\ ptimer_now \in Time /\ initialized \in BOOLEAN
        /\ TicksAddUp
    BY <1>1, TicksInt DEF IInv, TypeOK
  <2>t. ASSUME last_ptimer' = now PROVE Ticks(last_ptimer)' = Ticks(now)
    BY <2>t DEF Ticks
  <2>u. ASSUME last_ptimer' = last_ptimer PROVE Ticks(last_ptimer)' = Ticks(last_ptimer)
    BY <2>u DEF Ticks
  <2>1. CASE caller = "Init"
    <3>1. InitClock(now)
      BY <2>1 DEF ReturnTime, UseReading
    <3> HIDE DEF now
    <3> QED BY <3>1, <1>1, <2>0, <2>t DEF InitClock, TicksAddUp
  <2>2. CASE caller = "Update"
    <3>1. UpdateClock(now, TRUE)
      BY <2>2 DEF ReturnTime, UseReading
    <3> HIDE DEF now
    <3>2. total' = total + (Ticks(now) - Ticks(last_ptimer)) /\ last_ptimer' = now
      BY <3>1 DEF UpdateClock
    <3>3. initialized => total' = Ticks(now)
      BY <3>2, <2>0 DEF TicksAddUp
    <3> QED BY <3>1, <3>2, <3>3, <1>1, <2>0, <2>t DEF UpdateClock, TicksAddUp
  <2>3. CASE caller = "Update(false)"
    <3>1. UpdateClock(now, FALSE)
      BY <2>3 DEF ReturnTime, UseReading
    <3> HIDE DEF now
    <3> QED BY <3>1, <1>1, <2>0, <2>u DEF UpdateClock, TicksAddUp
  <2> QED BY <1>1, <2>1, <2>2, <2>3 DEF Retrying
<1>3. TypeOK'
  BY <1>1, <1>2 DEF ReturnTime, Finish, IInv, TypeOK, counter, Time, High, Low, Callers, Retrying
<1>4. HalvesBelongTogether'
  BY DEF ReturnTime, Finish, HalvesBelongTogether, Retrying
<1> QED BY <1>2, <1>3, <1>4 DEF IInv

\* The other steps of the thread.
LEMMA ReadInv == IInv /\ Read => IInv'
<1> SUFFICES ASSUME IInv, Read PROVE IInv'
  OBVIOUS
<1> USE DEF IInv, TypeOK, HalvesBelongTogether, TicksAddUp, counter, g_clock_state, Time, High, Low,
            Callers, Retrying, Ticks
<1>1. CASE ReadHi1  BY <1>1 DEF ReadHi1
<1>2. CASE ReadLo   BY <1>2 DEF ReadLo
<1>3. CASE Retry    BY <1>3 DEF Retry
<1>4. CASE FirstLo  BY <1>4 DEF FirstLo
<1>5. CASE ThenHi   BY <1>5 DEF ThenHi, Finish
<1>6. CASE FirstHi  BY <1>6 DEF FirstHi
<1>7. CASE ThenLo   BY <1>7 DEF ThenLo, Finish
<1>8. CASE ReturnTime
  <2> HIDE DEF IInv
  <2> QED BY <1>8, ReturnInv
<1> QED BY <1>1, <1>2, <1>3, <1>4, <1>5, <1>6, <1>7, <1>8 DEF Read

\* Every tick and every step of a read keeps the invariant.
LEMMA Inductive == IInv /\ [Next]_vars => IInv'
<1> SUFFICES ASSUME IInv, [Next]_vars PROVE IInv'
  OBVIOUS
<1>1. CASE UNCHANGED vars
  BY <1>1 DEF vars, IInv, TypeOK, HalvesBelongTogether, TicksAddUp, counter, g_clock_state, Ticks
<1>2. CASE Next
  BY <1>2, TickInv, ReadInv, CallInv DEF Next
<1> QED BY <1>1, <1>2

\* The reader's locals, the counter and the ticks, in every state.
THEOREM Invariance == Spec => []IInv
BY InitInv, Inductive, PTL DEF Spec

\* The types of the reader, its locals and of g_clock_state.
THEOREM ClockTypeCorrect == Spec => []TypeOK
BY Invariance, PTL DEF IInv

\* While the two readings of TIME_1 may still agree, the halves read so far
\* are of one moment (ptimer_test_common.h:34-38).
THEOREM HalvesOfOneMoment == Spec => []HalvesBelongTogether
BY Invariance, PTL DEF IInv

\* The ticks ClockState::Update reports add up to the time since Init.
THEOREM NoTickLost == Spec => []TicksAddUp
BY Invariance, PTL DEF IInv

-----------------------------------------------------------------------------
(* The refinement *)

\* The counter and its idle reader start as the atomic register does.
LEMMA AbstractInit == Init => Abstract!Init
BY DEF Init, Abstract!Init, counter, Time, High, Low, Retrying

\* Every step is a step of the register: a change, a call, a return or nothing.
LEMMA AbstractStep ==
    IInv /\ IInv' /\ [Next]_vars => [Abstract!Next]_<<counter, IF caller \in Retrying THEN held ELSE {}, result>>
<1> DEFINE h == IF caller \in Retrying THEN held ELSE {}
<1> SUFFICES ASSUME IInv, IInv', [Next]_vars PROVE [Abstract!Next]_<<counter, h, result>>
  OBVIOUS
<1>t. counter \in Time /\ counter' \in Time /\ (caller = "none" => h = {})
  BY DEF IInv, TypeOK, Retrying
<1>1. CASE UNCHANGED vars
  BY <1>1 DEF vars, counter
<1>2. CASE Tick
  <2>1. UNCHANGED <<caller, result>> /\ held' = IF caller = "none" THEN {} ELSE held \cup {counter'}
    BY <1>2 DEF Tick, Count, Carry, Observe, counter
  <2>2. caller \in Retrying => held # {}
    BY DEF IInv, HalvesBelongTogether
  <2>3. h' = IF h = {} THEN {} ELSE h \cup {counter'}
    BY <2>1, <2>2 DEF Retrying
  <2> QED BY <1>t, <2>1, <2>3 DEF Abstract!Next, Abstract!Change
<1>3. ASSUME NEW c \in Callers, Call(c) PROVE [Abstract!Next]_<<counter, h, result>>
  <2>1. h = {} /\ UNCHANGED <<counter, result>> /\ caller' = c /\ held' = {counter}
    BY <1>3 DEF Call, counter, IInv, TypeOK, Retrying
  <2>2. h' = {counter} \/ h' = {}
    BY <2>1 DEF Retrying
  <2> QED BY <2>1, <2>2 DEF Abstract!Next, Abstract!Call
<1>4. CASE ReturnTime
  <2>1. result' = <<hi1, lo>> /\ UNCHANGED counter /\ h' = {}
    BY <1>4 DEF ReturnTime, Finish, counter, Retrying
  <2>2. <<hi1, lo>> \in h
    BY <1>4, ReturnedValueHeld DEF ReturnTime, IInv, TypeOK
  <2> QED BY <2>1, <2>2 DEF Abstract!Next, Abstract!Return
<1>5. CASE ReadHi1 \/ ReadLo \/ Retry
  <2>1. UNCHANGED <<counter, caller, held, result>>
    BY <1>5 DEF ReadHi1, ReadLo, Retry, counter
  <2> QED BY <2>1
<1>6. CASE FirstLo \/ ThenHi \/ FirstHi \/ ThenLo
  <2>1. UNCHANGED <<counter, result>> /\ caller' \notin Retrying /\ caller \notin Retrying
    BY <1>6 DEF FirstLo, ThenHi, FirstHi, ThenLo, Finish, counter, IInv, TypeOK, Retrying
  <2> QED BY <2>1
<1> QED BY <1>1, <1>2, <1>3, <1>4, <1>5, <1>6 DEF Next, Read

\* GetPTIMERTime implements an atomic read of the 64-bit counter, for halves of
\* any size, as long as the counter does not carry HighSize times within one
\* attempt (ptimer_test_common.h:32-40).
THEOREM ReadsAreAtomic == Spec => ReadIsAtomic
<1>1. Init => Abstract!Init
  BY AbstractInit
<1>2. IInv /\ IInv' /\ [Next]_vars =>
        [Abstract!Next]_<<counter, IF caller \in Retrying THEN held ELSE {}, result>>
  BY AbstractStep
<1> QED BY <1>1, <1>2, Invariance, PTL DEF Spec, ReadIsAtomic, Abstract!Spec

-----------------------------------------------------------------------------
(* The readers without retry *)

Wrapped(h) == IF h < HighSize THEN h ELSE h - HighSize

\* carries counts from the first of the two readings: where TIME_0 was read
\* first, the other half was then carries behind TIME_1; where TIME_1 was, it
\* has gone carries ahead of it.
TornInv ==
    /\ pc \in {"idle", "hi1", "first_lo", "first_hi"} => carries = 0
    /\ pc = "then_hi" => \E h \in High : <<h, lo>> \in held /\ time_1 = Wrapped(h + carries)
    /\ pc = "then_lo" => counter \in held /\ time_1 = Wrapped(hi1 + carries)

\* The reader without retry and the counter it races with.
LEMMA TornStep == IInv /\ TornInv /\ [Next]_vars => TornInv'
<1> SUFFICES ASSUME IInv, TornInv, [Next]_vars PROVE TornInv'
  OBVIOUS
<1>t. /\ carries \in 0 .. HighSize - 1 /\ time_1 \in High /\ hi1 \in High /\ HighSize \in Nat \ {0, 1}
      /\ (pc # "idle" => caller # "none") /\ counter = <<time_1, time_0>>
  BY DEF IInv, TypeOK, counter, Time
<1>1. CASE Count
  <2>1. UNCHANGED <<time_1, pc, lo, hi1, carries>>
    BY <1>1 DEF Count
  <2>2. pc # "idle" => held' = held \cup {counter'}
    BY <1>1, <1>t DEF Count, Observe, counter
  <2>3. QED BY <2>1, <2>2 DEF TornInv
<1>2. CASE Carry
  <2>1. /\ time_1' = Wrapped(time_1 + 1) /\ UNCHANGED <<pc, lo, hi1>> /\ carries < HighSize - 1
        /\ carries' = IF pc \in {"lo", "hi2", "then_hi", "then_lo"} THEN carries + 1 ELSE carries
    BY <1>2, <1>t DEF Carry, Wrapped, High
  <2>2. pc # "idle" => held' = held \cup {counter'}
    BY <1>2, <1>t DEF Carry, Observe, counter
  <2>3. \A h \in High : time_1 = Wrapped(h + carries) => time_1' = Wrapped(h + (carries + 1))
    BY <1>t, <2>1 DEF Wrapped, High
  <2>4. pc = "then_hi" => \E h \in High : <<h, lo>> \in held' /\ time_1' = Wrapped(h + (carries + 1))
    BY <2>2, <2>3 DEF TornInv
  <2>5. pc = "then_lo" => counter' \in held' /\ time_1' = Wrapped(hi1 + (carries + 1))
    BY <1>t, <2>2, <2>3 DEF TornInv
  <2>6. QED BY <2>1, <2>4, <2>5 DEF TornInv
<1>3. CASE Finish
  BY <1>3 DEF Finish, TornInv
<1>4. CASE FirstLo
  <2>1. /\ pc = "first_lo" /\ pc' = "then_hi" /\ lo' = time_0 /\ held' = {<<time_1, time_0>>}
        /\ carries' = carries /\ time_1' = time_1
    BY <1>4 DEF FirstLo, counter
  <2>2. carries' = 0 /\ <<time_1, lo'>> \in held' /\ time_1' = Wrapped(time_1 + carries')
    BY <1>t, <2>1 DEF TornInv, Wrapped, High
  <2>3. QED BY <1>t, <2>1, <2>2 DEF TornInv
<1>5. CASE FirstHi
  <2>1. /\ pc = "first_hi" /\ pc' = "then_lo" /\ hi1' = time_1 /\ held' = {counter'}
        /\ carries' = carries /\ time_1' = time_1
    BY <1>5 DEF FirstHi, counter
  <2>2. carries' = 0 /\ time_1' = Wrapped(hi1' + carries')
    BY <1>t, <2>1 DEF TornInv, Wrapped, High
  <2>3. QED BY <2>1, <2>2 DEF TornInv
<1>6. ASSUME NEW c \in Callers, Call(c) PROVE TornInv'
  <2>1. pc = "idle" /\ pc' \in {"hi1", "first_lo", "first_hi"} /\ carries' = carries
    BY <1>6 DEF Call, FirstRead
  <2>2. QED BY <2>1 DEF TornInv
<1>7. CASE ReadHi1 \/ ReadLo \/ Retry
  BY <1>7 DEF ReadHi1, ReadLo, Retry, TornInv
<1>8. CASE UNCHANGED vars
  BY <1>8 DEF vars, TornInv, counter
<1>9. QED
  BY <1>1, <1>2, <1>3, <1>4, <1>5, <1>6, <1>7, <1>8 DEF Next, Tick, Read, ReturnTime, ThenHi, ThenLo

\* What the readings of a read without retry have to do with the counter.
THEOREM TornInvariance == Spec => []TornInv
<1>1. Init => TornInv
  BY DEF Init, TornInv
<1>2. QED BY <1>1, TornStep, Invariance, PTL DEF Spec

\* A number has one remainder, and the rounds of the counter do not change it.
LEMMA Rounds ==
  ASSUME NEW n \in Nat \ {0}, NEW r \in 0 .. n - 1, NEW a \in Int, a = r \/ a = r - n
  PROVE  a % n = r
<1> DEFINE q == a \div n
           s == a % n
<1>1. q \in Int /\ s \in 0 .. n - 1 /\ a = n * q + s
  BY n > 0
<1> HIDE DEF q, s
<1>2. \A k \in Int : (k >= 1 => n * k >= n) /\ (k <= 0 - 2 => n * k <= 0 - (n + n))
  OBVIOUS
<1>3. q = 0 \/ q = 0 - 1
  BY <1>1, <1>2
<1>4. n * 0 = 0 /\ n * (0 - 1) = 0 - n
  OBVIOUS
<1>5. CASE q = 0
  BY <1>1, <1>4, <1>5 DEF s
<1>6. CASE q = 0 - 1
  BY <1>1, <1>4, <1>6 DEF s
<1>7. QED BY <1>3, <1>5, <1>6

\* How far one reading is ahead of another with the same low half.
LEMMA AheadByCarries ==
  ASSUME NEW h \in High, NEW k \in 0 .. HighSize - 1, NEW low \in Low
  PROVE  Ahead(<<h, low>>, <<Wrapped(h + k), low>>) = k * LowSize
<1> DEFINE n == HighSize * LowSize
           g == Wrapped(h + k)
           r == k * LowSize
           a == Ticks(<<g, low>>) - Ticks(<<h, low>>)
<1>1. n \in Nat \ {0} /\ g \in Int /\ (g = h + k \/ g = h + k - HighSize)
  BY DEF Wrapped, High
<1>2. r \in 0 .. n - 1
  <2>1. r \in Nat /\ r <= (HighSize - 1) * LowSize
    OBVIOUS
  <2>2. (HighSize - 1) * LowSize = n - LowSize
    OBVIOUS
  <2>3. QED BY <1>1, <2>1, <2>2
<1>3. a = (g - h) * LowSize /\ a \in Int
  <2>1. g * LowSize \in Int /\ h * LowSize \in Int /\ low \in Int
    BY <1>1 DEF High, Low
  <2>2. (g - h) * LowSize = g * LowSize - h * LowSize
    BY <1>1 DEF High
  <2>3. QED BY <2>1, <2>2 DEF Ticks
<1>4. a = r \/ a = r - n
  <2>1. CASE g = h + k
    BY <1>3, <2>1 DEF High
  <2>2. CASE g = h + k - HighSize
    <3>1. g - h = k - HighSize
      BY <2>2 DEF High
    <3>2. (k - HighSize) * LowSize = r - n
      OBVIOUS
    <3>3. QED BY <1>3, <3>1, <3>2
  <2>3. QED BY <1>1, <2>1, <2>2
<1>5. a % n = r
  <2> HIDE DEF a, n, r
  <2>1. QED BY <1>1, <1>2, <1>3, <1>4, Rounds
<1>6. QED BY <1>5 DEF Ahead

\* TornReadsMissByCarries: the readers of clock_main.cpp and pfifo_cache1_main.cpp
\* are wrong by exactly the carries between their two reads.
THEOREM TornReadsOffByCarries == Spec => TornReadsMissByCarries
<1> DEFINE Misses ==
      pc' = "idle" =>
        /\ pc = "then_hi" => \E v \in held : Ahead(v, torn') = carries * LowSize
        /\ pc = "then_lo" => \E v \in held : Ahead(torn', v) = carries * LowSize
<1>1. IInv /\ TornInv /\ [Next]_vars => [Misses]_vars
  <2> SUFFICES ASSUME IInv, TornInv, Next PROVE Misses
    OBVIOUS
  <2>t. carries \in 0 .. HighSize - 1 /\ hi1 \in High /\ lo \in Low /\ time_0 \in Low
    BY DEF IInv, TypeOK, Time, counter
  <2>1. ASSUME pc = "then_hi", pc' = "idle"
        PROVE  \E v \in held : Ahead(v, torn') = carries * LowSize
    <3>1. torn' = <<time_1, lo>>
      BY <2>1 DEF Next, Read, Tick, Count, Carry, Call, ReadHi1, ReadLo, Retry, ReturnTime, FirstLo,
                  FirstHi, ThenHi, ThenLo
    <3>2. PICK h \in High : <<h, lo>> \in held /\ time_1 = Wrapped(h + carries)
      BY <2>1 DEF TornInv
    <3>3. Ahead(<<h, lo>>, torn') = carries * LowSize
      BY <2>t, <3>1, <3>2, AheadByCarries
    <3>4. QED BY <3>2, <3>3
  <2>2. ASSUME pc = "then_lo", pc' = "idle"
        PROVE  \E v \in held : Ahead(torn', v) = carries * LowSize
    <3>1. torn' = <<hi1, time_0>>
      BY <2>2 DEF Next, Read, Tick, Count, Carry, Call, ReadHi1, ReadLo, Retry, ReturnTime, FirstLo,
                  FirstHi, ThenHi, ThenLo
    <3>2. <<time_1, time_0>> \in held /\ time_1 = Wrapped(hi1 + carries)
      BY <2>2 DEF TornInv, counter
    <3>3. Ahead(torn', <<time_1, time_0>>) = carries * LowSize
      BY <2>t, <3>1, <3>2, AheadByCarries
    <3>4. QED BY <3>2, <3>3
  <2>3. QED BY <2>1, <2>2
<1>2. QED BY <1>1, Invariance, TornInvariance, PTL DEF Spec, TornReadsMissByCarries
=============================================================================
