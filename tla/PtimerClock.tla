---------------------------- MODULE PtimerClock -----------------------------
(***************************************************************************)
(* The PTIMER counter and the code that reads it.  The counter is two      *)
(* registers, TIME_1 and TIME_0, that a program can only read one at a     *)
(* time while the hardware goes on counting.  The repository has three     *)
(* readers: GetPTIMERTime of the PTIMER suite, which reads TIME_1 again    *)
(* and retries (ptimer_test_common.h), the one of clock_main.cpp, low half *)
(* first, and the one of pfifo_cache1_main.cpp, high half first.           *)
(* ClockState turns readings into the ticks between two updates.           *)
(*                                                                         *)
(* TIME_0 counts in steps of 32; the model counts the steps.  The sizes of *)
(* the two halves are constants.                                           *)
(*                                                                         *)
(* Bound: while a read is in progress the counter carries into TIME_1 less *)
(* than HighSize times (2^29 times 4.3 seconds on the console).            *)
(***************************************************************************)
EXTENDS Integers

CONSTANTS HighSize, LowSize    \* CLOCK_HIGH_MASK + 1 and CLOCK_LOW_MASK + 1

ASSUME SizeAssumption == HighSize \in Nat \ {0, 1} /\ LowSize \in Nat \ {0}

VARIABLES time_1, time_0,      \* the counter
          pc, caller,          \* where the thread stands, and in which call
          hi1, lo,             \* GetPTIMERTime's locals
          result,              \* what the last GetPTIMERTime returned
          last_ptimer, ptimer_now, ptimer_ticks, initialized,   \* g_clock_state
          held,                \* history: what the counter held during the call
          carries,             \* history: carries since TIME_1 (or TIME_0) was first read
          torn,                \* history: what a read without retry has just returned
          total                \* history: the time of Init plus all the ticks reported

counter == <<time_1, time_0>>
g_clock_state == <<last_ptimer, ptimer_now, ptimer_ticks, initialized>>
vars == <<time_1, time_0, pc, caller, hi1, lo, result, g_clock_state, held, carries, torn, total>>

High == 0 .. HighSize - 1
Low == 0 .. LowSize - 1
Time == High \X Low

Retrying == {"Init", "Update", "Update(false)"}    \* callers of the reader that retries
Callers == Retrying \cup {"clock_main", "pfifo"}

\* (hi << 32) | lo, in steps of TIME_0
Ticks(time) == time[1] * LowSize + time[2]

Init ==
    /\ time_1 \in High /\ time_0 \in Low
    /\ pc = "idle" /\ caller = "none"
    /\ hi1 = 0 /\ lo = 0 /\ result = <<0, 0>>
    /\ last_ptimer = <<0, 0>> /\ ptimer_now = <<0, 0>> /\ ptimer_ticks = 0 /\ initialized = FALSE
    /\ held = {} /\ carries = 0 /\ torn = <<0, 0>> /\ total = 0

-----------------------------------------------------------------------------
(* The hardware *)

Observe(time) == held' = IF caller = "none" THEN {} ELSE held \cup {time}

Count ==
    /\ time_0 + 1 < LowSize
    /\ time_0' = time_0 + 1
    /\ Observe(<<time_1, time_0'>>)
    /\ UNCHANGED <<time_1, pc, caller, hi1, lo, result, g_clock_state, carries, torn, total>>

\* Mutant of Carry: TIME_1 does not wrap.
CarryNoWrap ==
    /\ time_0 + 1 = LowSize
    /\ carries < HighSize - 1
    /\ time_0' = 0 /\ time_1' = time_1 + 1
    /\ carries' = IF pc \in {"lo", "hi2", "then_hi", "then_lo"} THEN carries + 1 ELSE carries
    /\ Observe(<<time_1', 0>>)
    /\ UNCHANGED <<pc, caller, hi1, lo, result, g_clock_state, torn, total>>

Carry ==
    /\ time_0 + 1 = LowSize
    /\ carries < HighSize - 1
    /\ time_0' = 0
    /\ time_1' = IF time_1 + 1 = HighSize THEN 0 ELSE time_1 + 1
    /\ carries' = IF pc \in {"lo", "hi2", "then_hi", "then_lo"} THEN carries + 1 ELSE carries
    /\ Observe(<<time_1', 0>>)
    /\ UNCHANGED <<pc, caller, hi1, lo, result, g_clock_state, torn, total>>

Tick == Count \/ Carry

-----------------------------------------------------------------------------
(* The calls *)

FirstRead(c) ==
    IF c \in Retrying THEN "hi1" ELSE IF c = "clock_main" THEN "first_lo" ELSE "first_hi"

\* Init runs once, from post_init_; every update comes after it.
Call(c) ==
    /\ pc = "idle"
    /\ c = "Init" => ~initialized
    /\ c \in {"Update", "Update(false)"} => initialized
    /\ caller' = c /\ pc' = FirstRead(c)
    /\ held' = {counter} /\ torn' = <<0, 0>>
    /\ UNCHANGED <<time_1, time_0, hi1, lo, result, g_clock_state, carries, total>>

\* What ClockState does with the reading.
InitClock(now) ==
    /\ initialized' = TRUE
    /\ last_ptimer' = now
    /\ total' = Ticks(now)
    /\ UNCHANGED <<ptimer_now, ptimer_ticks>>

\* Mutant of UpdateClock: a frozen update forgets the ticks it does not show.
UpdateClockDropsFrozen(now, update_deltas) ==
    /\ ptimer_now' = now
    /\ last_ptimer' = now
    /\ ptimer_ticks' = IF update_deltas THEN Ticks(now) - Ticks(last_ptimer) ELSE ptimer_ticks
    /\ total' = IF update_deltas THEN total + ptimer_ticks' ELSE total
    /\ UNCHANGED initialized

UpdateClock(now, update_deltas) ==
    /\ ptimer_now' = now
    /\ IF update_deltas
       THEN /\ ptimer_ticks' = Ticks(now) - Ticks(last_ptimer)
            /\ last_ptimer' = now
            /\ total' = total + ptimer_ticks'
       ELSE UNCHANGED <<ptimer_ticks, last_ptimer, total>>
    /\ UNCHANGED initialized

UseReading(now) ==
    \/ caller = "Init" /\ InitClock(now)
    \/ caller = "Update" /\ UpdateClock(now, TRUE)
    \/ caller = "Update(false)" /\ UpdateClock(now, FALSE)

Finish ==
    /\ pc' = "idle" /\ caller' = "none" /\ held' = {}
    /\ hi1' = 0 /\ lo' = 0 /\ carries' = 0
    /\ UNCHANGED <<time_1, time_0>>

-----------------------------------------------------------------------------
(* GetPTIMERTime of ptimer_test_common.h *)

ReadHi1 ==
    /\ pc = "hi1" /\ pc' = "lo"
    /\ hi1' = time_1
    /\ carries' = 0
    /\ UNCHANGED <<time_1, time_0, caller, lo, result, g_clock_state, held, torn, total>>

ReadLo ==
    /\ pc = "lo" /\ pc' = "hi2"
    /\ lo' = time_0
    /\ UNCHANGED <<time_1, time_0, caller, hi1, result, g_clock_state, held, carries, torn, total>>

\* Mutants of Stable: TIME_1 is not compared; TIME_0 must not have moved either.
StableAlways(hi2) == hi2 \in High
StableBoth(hi2) == hi2 = hi1 /\ time_0 = lo

Stable(hi2) == hi2 = hi1

\* Mutant of Retry: TIME_1 is read once, before the loop.
RetryWithOldHigh ==
    /\ pc = "hi2" /\ ~Stable(time_1)
    /\ pc' = "lo"
    /\ lo' = 0 /\ carries' = 0
    /\ UNCHANGED <<time_1, time_0, caller, hi1, result, g_clock_state, held, torn, total>>

Retry ==
    /\ pc = "hi2" /\ ~Stable(time_1)
    /\ pc' = "hi1"
    /\ hi1' = 0 /\ lo' = 0 /\ carries' = 0
    /\ UNCHANGED <<time_1, time_0, caller, result, g_clock_state, held, torn, total>>

ReturnTime ==
    /\ pc = "hi2" /\ Stable(time_1)
    /\ result' = <<hi1, lo>>
    /\ UseReading(<<hi1, lo>>)
    /\ Finish
    /\ UNCHANGED torn

-----------------------------------------------------------------------------
(* The readers without retry *)

\* GetPTIMERTime of clock_main.cpp: TIME_0, then TIME_1.
FirstLo ==
    /\ pc = "first_lo" /\ pc' = "then_hi"
    /\ lo' = time_0 /\ held' = {counter}
    /\ UNCHANGED <<time_1, time_0, caller, hi1, result, g_clock_state, carries, torn, total>>

ThenHi ==
    /\ pc = "then_hi"
    /\ torn' = <<time_1, lo>>
    /\ Finish
    /\ UNCHANGED <<result, g_clock_state, total>>

\* GetNV2ATime of pfifo_cache1_main.cpp: TIME_1, then TIME_0.
\* Mutant of FirstHi: TIME_1 is not read, the time has 32 bits.
FirstHiMissing ==
    /\ pc = "first_hi" /\ pc' = "then_lo"
    /\ hi1' = 0 /\ held' = {counter}
    /\ UNCHANGED <<time_1, time_0, caller, lo, result, g_clock_state, carries, torn, total>>

FirstHi ==
    /\ pc = "first_hi" /\ pc' = "then_lo"
    /\ hi1' = time_1 /\ held' = {counter}
    /\ UNCHANGED <<time_1, time_0, caller, lo, result, g_clock_state, carries, torn, total>>

ThenLo ==
    /\ pc = "then_lo"
    /\ torn' = <<hi1, time_0>>
    /\ Finish
    /\ UNCHANGED <<result, g_clock_state, total>>

-----------------------------------------------------------------------------
Read == ReadHi1 \/ ReadLo \/ Retry \/ ReturnTime \/ FirstLo \/ ThenHi \/ FirstHi \/ ThenLo

Next == Tick \/ Read \/ \E c \in Callers : Call(c)

Spec == Init /\ [][Next]_vars

\* The thread is never suspended for good.  Nothing is assumed of the counter.
FairSpec == Spec /\ WF_vars(Read)

-----------------------------------------------------------------------------
(* Properties *)

\* Types and ranges; what the locals are outside a call.
TypeOK ==
    /\ counter \in Time /\ <<hi1, lo>> \in Time
    /\ caller \in Callers \cup {"none"}
    /\ pc \in {"idle", "hi1", "lo", "hi2", "first_lo", "then_hi", "first_hi", "then_lo"}
    /\ pc = "idle" <=> caller = "none"
    /\ pc \in {"hi1", "lo", "hi2"} <=> caller \in Retrying
    /\ result \in Time /\ torn \in Time /\ last_ptimer \in Time /\ ptimer_now \in Time
    /\ ptimer_ticks \in Int /\ total \in Int /\ initialized \in BOOLEAN
    /\ held \in SUBSET Time
    /\ carries \in 0 .. HighSize - 1

\* GetPTIMERTime returns a value the counter had between call and return, as
\* if the two registers were read in one piece, wherever the carries fall:
\* the loop (ptimer_test_common.h:34-38) implements AtomicRegister.
Abstract == INSTANCE AtomicRegister WITH
    Value <- Time, register <- counter, result <- result,
    held <- IF caller \in Retrying THEN held ELSE {}
ReadIsAtomic == Abstract!Spec

\* Why it does: while the two readings of TIME_1 may still agree, nothing has
\* carried, and the halves read so far are of one moment of the call.
HalvesBelongTogether ==
    /\ caller \in Retrying => counter \in held
    /\ pc \in {"lo", "hi2"} =>
        time_1 = IF hi1 + carries < HighSize THEN hi1 + carries ELSE hi1 + carries - HighSize
    /\ pc = "hi2" /\ carries = 0 => <<hi1, lo>> \in held

\* A read without retry is wrong by whole carries only, and by none if the
\* counter did not carry between its two reads: low half first
\* (clock_main.cpp:31-36, also CapturingAlarmCallback), it runs ahead of the
\* value the counter had at the first read; high half first
\* (pfifo_cache1_main.cpp:229-233), it lags behind one it had at the second.
Ahead(a, b) == (Ticks(b) - Ticks(a)) % (HighSize * LowSize)
TornReadsMissByCarries ==
    [][pc' = "idle" =>
        /\ pc = "then_hi" => \E v \in held : Ahead(v, torn') = carries * LowSize
        /\ pc = "then_lo" => \E v \in held : Ahead(torn', v) = carries * LowSize]_vars

\* The ticks ClockState reports (ptimer_test_common.cpp:47-78) add up to the
\* time that has passed since Init, whatever updates were frozen in between.
TicksAddUp == initialized => total = Ticks(last_ptimer)

\* GetPTIMERTime returns, unless a carry comes between its two readings of
\* TIME_1 again and again: a counter that merely runs does not hold it up.
CarryInRead == Carry /\ pc \in {"lo", "hi2"}
ReadReturns ==
    \/ (caller \in Retrying) ~> (caller = "none")
    \/ []<><<CarryInRead>>_vars
=============================================================================
