---------------------------- MODULE PfifoCache1 -----------------------------
(***************************************************************************)
(* pfifo_cache1_main.cpp: a program that submits push buffers and watches  *)
(* them go by way of CACHE1, the FIFO between the DMA pusher, which        *)
(* fetches commands from memory, and the puller, which hands them to the   *)
(* graphics engine.  A test is a program: a sequence of instructions.  The *)
(* thread executes them one register access at a time while the pusher,    *)
(* the puller and the engine run beside it.                                *)
(*                                                                         *)
(* A command is one entry of CACHE1, and only the number of commands       *)
(* matters: one that has to wait for the engine (WAIT_FOR_IDLE, a second   *)
(* CLEAR_SURFACE) is a Pull that comes later, or never.  GET and PUT are   *)
(* counted from the last pb_reset; the ring of CACHE1 only shows where     *)
(* they are compared.  Of an entry of the state buffer the model has GET   *)
(* and PUT of CACHE1; the measured times (PtimerClock has GetNV2ATime) are *)
(* left out.                                                               *)
(***************************************************************************)
EXTENDS Integers, Sequences, SequencesExt

CONSTANTS RingSize,               \* entries of CACHE1
          kNumLoops, kPushSetsPerLoop, kNumEntries, kStateBufferEntries,
          EmptyRounds, kMaxLoops  \* 0x800 in EmptyCache1; in SpinUntilEmptyCache1

ASSUME SizeAssumption ==
    /\ {RingSize, kNumLoops, kPushSetsPerLoop, kNumEntries, kStateBufferEntries} \subseteq Nat \ {0}
    /\ RingSize > 1 /\ EmptyRounds \in Nat /\ kMaxLoops \in Nat

VARIABLES dma, cache,             \* commands submitted and not fetched, and those in CACHE1
          pulled,                 \* how many have left it
          suite, test, pc,        \* where the thread stands
          step, i,                \* in the instruction: the next access, the round
          entry, state_buffer,
          get_or_put,             \* the side of GET == PUT that was read
          emptied,
          at_round                \* history: entered and unprocessed when the round began

hardware == <<dma, cache, pulled>>
vars == <<hardware, suite, test, pc, step, i, entry, state_buffer, get_or_put, emptied, at_round>>

Entered == pulled + cache                  \* CACHE1 PUT, and DMA GET
LowMarkEmpty == cache = 0

-----------------------------------------------------------------------------
(* Instructions and tests *)

Empty         == [op |-> "empty"]                    \* EmptyCache1
Submit(count) == [op |-> "submit", count |-> count]  \* pb_begin ... pb_end
Fill          == [op |-> "fill"]                     \* FillStateBuffer
Show          == [op |-> "show"]                     \* PrintStateBuffer of each
Spin          == [op |-> "spin"]                     \* SpinUntilEmptyCache1
Reset         == [op |-> "reset"]                    \* pb_reset, Pushbuffer::Flush

Times(n, list) == FlattenSeq([k \in 1 .. n |-> list])
TestTinyPushbufferDoesNotAutoKickoff == <<Empty, Fill, Show, Submit(2), Fill, Show, Reset>>

Looped ==
    <<Empty>> \o Times(kNumLoops, <<Submit(3 * kPushSetsPerLoop), Fill>>)
              \o <<Show, Fill, Show, Reset>>
TestLoopedBatchingWithoutWaitForIdle == Looped
TestLoopedBatchingWithWaitForIdle == Looped

VeryLargeFlatBuffer ==
    <<Empty, Submit(3 * kNumLoops * kPushSetsPerLoop)>> \o Times(kNumLoops, <<Fill>>)
        \o <<Spin, Show, Reset>>
TestVeryLargeFlatBufferWithNoWait == VeryLargeFlatBuffer
TestVeryLargeFlatBufferWithWaits == VeryLargeFlatBuffer

\* perform_test, for WAIT_FOR_IDLE and for NO_OPERATION
PerformTest(count) == <<Empty, Submit(count), Fill, Spin, Show, Reset>>
CompareWaitForIdleAndNopTime == Times(2, PerformTest(kNumEntries)) \o <<Reset>>
CompareWaitForIdleAndNopTimeWithClears == Times(2, PerformTest(2 * kNumEntries)) \o <<Reset>>

\* What main calls, and what it has commented out.
Suites ==
    {<<TestVeryLargeFlatBufferWithNoWait, TestVeryLargeFlatBufferWithWaits,
       CompareWaitForIdleAndNopTime, CompareWaitForIdleAndNopTimeWithClears>>,
     <<TestTinyPushbufferDoesNotAutoKickoff, TestLoopedBatchingWithoutWaitForIdle,
       TestLoopedBatchingWithWaitForIdle>>}

Ended == test > Len(suite)
instruction == suite[test][pc]
At(op) == ~Ended /\ instruction.op = op
Waiting == At("empty") \/ At("spin")

-----------------------------------------------------------------------------
(* PFIFO *)

Aside == <<suite, test, pc, step, i, entry, state_buffer, get_or_put, emptied>>

Fetch ==
    /\ dma > 0 /\ cache < RingSize - 1
    /\ dma' = dma - 1 /\ cache' = cache + 1
    /\ UNCHANGED <<pulled, at_round, Aside>>

Pull ==
    /\ cache > 0
    /\ cache' = cache - 1 /\ pulled' = pulled + 1
    /\ UNCHANGED <<dma, at_round, Aside>>

Gpu == Fetch \/ Pull

-----------------------------------------------------------------------------
(* The thread *)

Advance ==
    /\ IF pc < Len(suite[test]) THEN pc' = pc + 1 /\ UNCHANGED test
                                ELSE pc' = 1 /\ test' = test + 1
    /\ step' = 1 /\ i' = 0 /\ UNCHANGED suite

Access(next) == step' = next /\ UNCHANGED <<suite, test, pc>>

NoSide == [side |-> "none", value |-> 0]

Nothing == [cache_get |-> 0, cache_put |-> 0]

SubmitStep ==
    /\ At("submit") /\ Advance
    /\ dma' = dma + instruction.count
    /\ state_buffer' = <<>>
    /\ UNCHANGED <<cache, pulled, entry, get_or_put, emptied, at_round>>

\* EmptyCache1: submits, then polls the status, with a limit.
EmptySubmit ==
    /\ At("empty") /\ step = 1 /\ Access(2)
    /\ dma' = dma + 1
    /\ UNCHANGED <<cache, pulled, i, entry, state_buffer, get_or_put, emptied, at_round>>

\* Mutant of EmptyPoll: no limit.
EmptyPollUnlimited ==
    /\ At("empty") /\ step = 2
    /\ IF ~LowMarkEmpty THEN Access(2) /\ UNCHANGED i ELSE Advance
    /\ UNCHANGED <<hardware, entry, state_buffer, get_or_put, emptied, at_round>>

EmptyPoll ==
    /\ At("empty") /\ step = 2
    /\ IF i < EmptyRounds /\ ~LowMarkEmpty THEN i' = i + 1 /\ Access(2) ELSE Advance
    /\ UNCHANGED <<hardware, entry, state_buffer, get_or_put, emptied, at_round>>

\* FillStateBuffer reads an entry register by register.  The model
\* keeps a buffer until the thread does something else: the lines that show it,
\* later, depend on nothing but the buffer.
\* Mutant of Order: PUT before GET.
OrderPutFirst == <<"cache_put", "cache_get">>

Order == <<"cache_get", "cache_put">>

Register(name) == IF name = "cache_get" THEN pulled ELSE Entered

\* Mutant of More: one entry too many.
MoreOrEqual(done) == done + 1 <= kStateBufferEntries

More(done) == done + 1 < kStateBufferEntries

FillStateBuffer ==
    /\ At("fill")
    /\ LET read == [entry EXCEPT ![Order[step]] = Register(Order[step])]
       IN  IF step < Len(Order)
           THEN Access(step + 1) /\ entry' = read /\ UNCHANGED <<i, state_buffer>>
           ELSE /\ state_buffer' = Append(IF i = 0 THEN <<>> ELSE state_buffer, read)
                /\ entry' = Nothing
                /\ IF More(i) THEN i' = i + 1 /\ Access(1) ELSE Advance
    /\ UNCHANGED <<hardware, get_or_put, emptied, at_round>>

\* PrintStateBuffer: an entry, or how often the last one is repeated.
Line(repeats) == IF repeats > 0 THEN <<[repeated |-> repeats]>> ELSE <<>>

\* Mutant of Fold: the count of repeats is not reset.
FoldRepeatsKept(lines, buffer, k) ==
    LET same == k > 1 /\ buffer[k] = lines.last
    IN  IF same THEN [lines EXCEPT !.num_repeats = @ + 1]
        ELSE [out |-> lines.out \o Line(lines.num_repeats) \o <<buffer[k]>>,
              last |-> buffer[k], num_repeats |-> lines.num_repeats]

Fold(lines, buffer, k) ==
    LET same == k > 1 /\ buffer[k] = lines.last
    IN  IF same THEN [lines EXCEPT !.num_repeats = @ + 1]
        ELSE [out |-> lines.out \o Line(lines.num_repeats) \o <<buffer[k]>>,
              last |-> buffer[k], num_repeats |-> 0]

\* What is printed after each of the first entries of a buffer.
Printed(buffer) ==
    LET printed[k \in 0 .. Len(buffer)] ==
            IF k = 0 THEN [out |-> <<>>, last |-> Nothing, num_repeats |-> 0] ELSE Fold(printed[k - 1], buffer, k)
    IN  printed

Lines(buffer) ==
    LET end == Printed(buffer)[Len(buffer)]
    IN  end.out \o Line(end.num_repeats)

ShowStep ==
    /\ At("show") /\ Advance
    /\ state_buffer' = <<>>
    /\ UNCHANGED <<hardware, entry, get_or_put, emptied, at_round>>

\* SpinUntilEmptyCache1: the status, then the two pointers, in either order.
SpinReturns(result) == Advance /\ emptied' = result

SpinStatus ==
    /\ At("spin") /\ step = 1
    /\ IF i >= kMaxLoops THEN SpinReturns(FALSE) /\ UNCHANGED at_round
       ELSE IF LowMarkEmpty THEN SpinReturns(TRUE) /\ UNCHANGED at_round
       ELSE Access(2) /\ at_round' = Entered /\ UNCHANGED <<i, emptied>>
    /\ state_buffer' = <<>>
    /\ UNCHANGED <<hardware, entry, get_or_put>>

SpinFirst ==
    /\ At("spin") /\ step = 2 /\ Access(3)
    /\ get_or_put' \in {[side |-> "get", value |-> pulled], [side |-> "put", value |-> Entered]}
    /\ UNCHANGED <<hardware, i, entry, state_buffer, emptied, at_round>>

\* Mutant of SameSlot: GET beyond PUT, as if the ring never came round.
SameSlotOrBeyond(get, put) == get % RingSize >= put % RingSize

SameSlot(get, put) == get % RingSize = put % RingSize

SpinSecond ==
    /\ At("spin") /\ step = 3
    /\ IF IF get_or_put.side = "get" THEN SameSlot(get_or_put.value, Entered)
                                     ELSE SameSlot(pulled, get_or_put.value)
       THEN SpinReturns(TRUE)
       ELSE i' = i + 1 /\ Access(1) /\ UNCHANGED emptied
    /\ get_or_put' = NoSide /\ at_round' = 0
    /\ UNCHANGED <<hardware, entry, state_buffer>>

\* pb_reset goes back to the head of the push buffer once it is fetched.
ResetStep ==
    /\ At("reset") /\ dma = 0 /\ Advance
    /\ pulled' = 0 - cache
    /\ emptied' = FALSE
    /\ UNCHANGED <<dma, cache, entry, state_buffer, get_or_put, at_round>>

Thread ==
    \/ SubmitStep \/ EmptySubmit \/ EmptyPoll \/ FillStateBuffer \/ ShowStep
    \/ SpinStatus \/ SpinFirst \/ SpinSecond \/ ResetStep

-----------------------------------------------------------------------------
Init ==
    /\ dma = 0 /\ cache = 0 /\ pulled = 0
    /\ suite \in Suites /\ test = 1 /\ pc = 1 /\ step = 1 /\ i = 0
    /\ entry = Nothing /\ state_buffer = <<>> /\ get_or_put = NoSide /\ emptied = FALSE
    /\ at_round = 0

Done == Ended /\ UNCHANGED vars

Next == Gpu \/ Thread \/ Done

Spec == Init /\ [][Next]_vars

\* The thread is scheduled; nothing is assumed of the GPU.
FairSpec == Spec /\ WF_vars(Thread)

-----------------------------------------------------------------------------
(* Properties *)

\* Reading what PrintStateBuffer has printed, line by line.
Reread(buffer, line) ==
    IF DOMAIN line = {"repeated"} THEN buffer \o [k \in 1 .. line.repeated |-> Last(buffer)] ELSE Append(buffer, line)
Expanded(lines) ==
    LET expanded[k \in 0 .. Len(lines)] == IF k = 0 THEN <<>> ELSE Reread(expanded[k - 1], lines[k])
    IN  expanded
Expand(lines) == Expanded(lines)[Len(lines)]

\* What PrintStateBuffer prints is what was captured: the lines, each repeated
\* as often as they say, give the buffer back.
LinesGiveBuffer == Expand(Lines(state_buffer)) = state_buffer

\* An entry is read in several accesses while CACHE1 moves, and yet GET never
\* passes PUT in it, and no pointer ever seems to go back; and the buffer is
\* never filled past its end.
CapturesMakeSense ==
    LET b == state_buffer
    IN  /\ Len(b) <= kStateBufferEntries
        /\ \A k \in DOMAIN b : b[k].cache_get <= b[k].cache_put
        /\ \A k \in 2 .. Len(b) : /\ b[k - 1].cache_get <= b[k].cache_get
                                   /\ b[k - 1].cache_put <= b[k].cache_put

\* SpinUntilEmptyCache1 returns true only if what CACHE1 held when its last
\* round began has left it: GET and PUT are two reads, in either order, of
\* moving pointers.  The one exception: the ring has come round between them.
EmptiedIsEmpty ==
    [][At("spin") /\ emptied' /\ ~emptied =>
        \/ pulled >= at_round
        \/ get_or_put.side = "get" /\ Entered - get_or_put.value >= RingSize]_vars

\* Neither wait of a test lasts for ever, even if the GPU is stuck.
WaitsEnd == Waiting ~> ~Waiting
=============================================================================
