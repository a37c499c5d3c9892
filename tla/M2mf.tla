-------------------------------- MODULE M2mf --------------------------------
(***************************************************************************)
(* The M2MF suite: the nineteen tests of m2mf_main.cpp, which let the GPU  *)
(* copy memory and look at what it has copied, at what it should have left *)
(* alone, and at the record it writes when it is done.  A test allocates   *)
(* buffers, writes into them, hands transfers to the GPU, waits, compares  *)
(* and frees the buffers, whichever way it goes.                           *)
(*                                                                         *)
(* A byte has kByteSize values instead of 256.  Sizes, pitches and numbers *)
(* of lines are scaled down; pitches in proportion to kByteSize, because   *)
(* the period of M2MFFillPattern is kByteSize.  What the CPU writes before *)
(* a transfer is one step.                                                 *)
(*                                                                         *)
(* Bounds: one thing goes wrong in a run besides what the GPU does: an     *)
(* initialization or an allocation fails, or gpum_copy gives up on a GPU   *)
(* that is late.                                                           *)
(***************************************************************************)
EXTENDS Integers, Sequences, SequencesExt

CONSTANTS kByteSize, kCanarySize

ASSUME SizeAssumption == kByteSize \in {16, 32, 64, 128, 256} /\ kCanarySize \in Nat \ {0}

VARIABLES held, memory,            \* the buffers that are allocated, and all contents
          pushbuffer, live,        \* the GPU: commands, and the live notifier record
          channel,                 \* the notifier DMA_NOTIFY selects
          fault,                   \* what is wrong with the GPU
          test, pc, armed,         \* where the thread stands; gpum_copy waits
          prev_rec,
          excused, gave_up,        \* history: something else has gone wrong; it was gpum_copy
          pass

buffers == <<held, memory>>
gpu == <<pushbuffer, live, channel>>
position == <<test, pc, armed>>
vars == <<buffers, gpu, fault, position, prev_rec, excused, gave_up, pass>>

-----------------------------------------------------------------------------
(* Patterns *)

\* Exclusive or of two bytes, bit by bit.
Differ(a, b, weight) == weight * (((a \div weight) + (b \div weight)) % 2)
Xor(a, b) ==
    LET D(weight) == Differ(a, b, weight)
    IN  D(1) + D(2) + D(4) + D(8) + D(16) + D(32) + D(64) + D(128)

\* The byte of M2MFFillPattern i bytes after byte first, which is val, if a byte
\* has n values.
ByteAfter(first, val, i, n) ==
    LET following[v \in 0 .. n - 1, j \in 0 .. n - 1] == Xor((v * 109 + 89) % n, j)
        byte[j \in Nat] == IF j = 0 THEN val ELSE following[byte[j - 1], (first + j - 1) % n]
    IN  byte[i]

kMaxSpan == 8 * kByteSize
Patterns ==
    [seed \in 0 .. kByteSize - 1 |-> [i \in 0 .. kMaxSpan - 1 |-> ByteAfter(0, seed, i, kByteSize)]]

M2MFFillPattern(size, seed) == [i \in 0 .. size - 1 |-> Patterns[seed % kByteSize][i]]

\* With bytes of 8 bits, as with fewer, the pattern begins again after as many
\* bytes as a byte has values, here reached in two halves: what is scaled down
\* keeps its place in it.
ASSUME PatternRepeats ==
    \A n \in {kByteSize, 256}, seed \in {3, 60, 129, 90} :
        \E middle \in {ByteAfter(0, seed % n, n \div 2, n)} :
            ByteAfter(n \div 2, middle, n \div 2, n) = seed % n

-----------------------------------------------------------------------------
(* What the tests do *)

\* Bytes size of buffer buf from at: set to a value, or filled with a pattern.
Set(buf, at, size, value) ==
    [buf |-> buf, at |-> at, bytes |-> [i \in 0 .. size - 1 |-> value % kByteSize]]
Fill(buf, at, size, seed) == [buf |-> buf, at |-> at, bytes |-> M2MFFillPattern(size, seed)]

\* A transfer, from byte so of src to byte do of dst.
Strided(dst, do, src, so, len, lines, pitch_in, pitch_out, stride_in, stride_out) ==
    [cmd |-> "transfer", dst |-> dst, do |-> do, src |-> src, so |-> so, len |-> len, lines |-> lines,
     pitch_in |-> pitch_in, pitch_out |-> pitch_out, stride_in |-> stride_in, stride_out |-> stride_out]
PitchedCopy(dst, do, src, so, len, lines, pitch_in, pitch_out) ==
    Strided(dst, do, src, so, len, lines, pitch_in, pitch_out, 1, 1)
Linear(dst, do, src, so, size) == PitchedCopy(dst, do, src, so, size, 1, size, size)
DmaNotify(to) == [cmd |-> "notify", channel |-> to]

\* Line y of a transfer has arrived: dst is as src.
Lines(t) == {[line |-> t, y |-> y] : y \in 0 .. t.lines - 1}
\* The bytes between the lines are still as they were set.
Gaps(t, value) ==
    {Set(t.dst, t.do + y * t.pitch_out + t.len, t.pitch_out - t.len, value) : y \in 0 .. t.lines - 1}

\* Instructions.  Prepare writes in turn; Check compares the bytes, and is passed
\* over with what else skip says if gpum_copy returns null.
Prepare(writes) == <<[op |-> "prepare", writes |-> writes]>>
GpumCopySkipping(t, skip) == <<[op |-> "copy", transfer |-> t, skip |-> skip]>>
GpumCopy(t) == GpumCopySkipping(t, 1)
Push(commands) == <<[op |-> "push", commands |-> commands], [op |-> "busy_wait"]>>
Check(conditions) == <<[op |-> "check", conditions |-> conditions]>>
Record(condition) == <<[op |-> "record", condition |-> condition]>>

\* M2MFInit and the allocations begin a test, the frees end it.
TestOn(sizes, body) ==
    <<[op |-> "init"], [op |-> "allocate", sizes |-> sizes]>> \o body \o <<[op |-> "free"]>>
Two(n) == [buf \in {"src", "dst"} |-> n]

\* A destination of size bytes between guards.
Before(at) == Set("dst", 0, at, 85)
Behind(at) == Set("dst", at, kCanarySize, 170)
Guards(at, size) == {Before(at), Behind(at + size)}
Around(at, size, filler) == <<Set("dst", at, size, filler), Before(at), Behind(at + size)>>
Span(size) == size + 2 * kCanarySize

\* Fill the source, copy it whole, compare with the pattern.
Whole(t, size, filler, seed) ==
    Prepare(Around(t.do, size, filler) \o <<Fill("src", t.so, size, seed)>>) \o GpumCopy(t)
        \o Check({Fill("dst", t.do, size, seed)} \cup Guards(t.do, size))

\* Copy lines, compare them with the source, and the gaps.
Rows(t, seed) ==
    Prepare(Around(t.do, t.pitch_out * t.lines, 238) \o <<Fill("src", t.so, t.pitch_in * t.lines, seed)>>)
        \o GpumCopy(t)
        \o Check(Lines(t) \cup Gaps(t, 238) \cup Guards(t.do, t.pitch_out * t.lines))
RowsOf(len, lines, pitch_in, pitch_out) ==
    PitchedCopy("dst", kCanarySize, "src", kCanarySize, len, lines, pitch_in, pitch_out)

-----------------------------------------------------------------------------
(* The tests, in the order of m2mf_main.cpp.  u is what 16 bytes scale to. *)

u == kByteSize \div 16
Unaligned(s_off, d_off, size) == Linear("dst", kCanarySize + d_off, "src", kCanarySize + s_off, size)

TestM2MFAlignmentOddSizes ==
    TestOn(Two(Span(7) + 3),
           Whole(Unaligned(0, 0, 1), 1, 204, 154) \o Whole(Unaligned(3, 1, 5), 5, 204, 158)
               \o Whole(Unaligned(1, 3, 7), 7, 204, 156))

TestM2MFAlignmentPhases ==
    TestOn(Two(Span(7) + 1),
           LET Phase(s_off, d_off) == Whole(Unaligned(s_off, d_off, 7), 7, 204, 16 * s_off + d_off)
           IN  Phase(0, 0) \o Phase(0, 1) \o Phase(1, 0) \o Phase(1, 1))

kChainSize == 2 * kByteSize

\* Mutant of TestM2MFBatchingCausalChain: B is made with the pattern.
TestM2MFBatchingCausalChainFilled ==
    TestOn([buf \in {"a", "b", "c"} |-> kChainSize],
           Prepare(<<Fill("a", 0, kChainSize, 131), Fill("b", 0, kChainSize, 131), Set("c", 0, kChainSize, 34)>>)
               \o Push(<<Linear("b", 0, "a", 0, kChainSize), Linear("c", 0, "b", 0, kChainSize)>>)
               \o Check({Fill("b", 0, kChainSize, 131), Fill("c", 0, kChainSize, 131)}))

TestM2MFBatchingCausalChain ==
    TestOn([buf \in {"a", "b", "c"} |-> kChainSize],
           Prepare(<<Fill("a", 0, kChainSize, 131), Set("b", 0, kChainSize, 17), Set("c", 0, kChainSize, 34)>>)
               \o Push(<<Linear("b", 0, "a", 0, kChainSize), Linear("c", 0, "b", 0, kChainSize)>>)
               \o Check({Fill("b", 0, kChainSize, 131), Fill("c", 0, kChainSize, 131)}))

kNumChunks == 3
kChunkSize == kByteSize
TestM2MFBatchingIndependent ==
    LET Chunk(i) == (i - 1) * kChunkSize
    IN  TestOn(Two(kNumChunks * kChunkSize),
               Prepare(<<Set("dst", 0, kNumChunks * kChunkSize, 204)>>
                           \o [i \in 1 .. kNumChunks |-> Fill("src", Chunk(i), kChunkSize, i + 6)])
                   \o Push([i \in 1 .. kNumChunks |-> Linear("dst", Chunk(i), "src", Chunk(i), kChunkSize)])
                   \o Check({Fill("dst", Chunk(i), kChunkSize, i + 6) : i \in 1 .. kNumChunks}))

kFormatSpan == 4 * kByteSize
FormatCase(stride_in, stride_out, lines) ==
    LET t == Strided("dst", kCanarySize, "src", kCanarySize, u + 3, lines,
                     lines * (u + 3) * stride_in, lines * (u + 3) * stride_out, stride_in, stride_out)
        rising == [i \in 0 .. lines * t.pitch_in - 1 |-> (16 + i) % kByteSize]
        written == {y * t.pitch_out + x * stride_out : y \in 0 .. lines - 1, x \in 0 .. t.len - 1}
        left == [i \in (0 .. kFormatSpan - 1) \ written |-> 204 % kByteSize]
    IN  Prepare(Around(kCanarySize, kFormatSpan, 204)
                    \o <<Set("src", 0, Span(kFormatSpan), 0), [buf |-> "src", at |-> kCanarySize, bytes |-> rising]>>)
            \o GpumCopy(t)
            \o Check(Lines(t) \cup {[buf |-> "dst", at |-> kCanarySize, bytes |-> left]}
                         \cup Guards(kCanarySize, kFormatSpan))

\* stride_in, stride_out, lines: dispersal, gathering, both, and unlike ratios.
TestM2MFFormat ==
    TestOn(Two(Span(kFormatSpan)),
           FormatCase(1, 2, 1) \o FormatCase(1, 2, 2) \o FormatCase(2, 1, 1) \o FormatCase(2, 2, 1)
               \o FormatCase(1, 4, 1) \o FormatCase(4, 2, 1))

TestM2MFFramebuffer ==
    LET n == 2 * kByteSize
    IN  <<[op |-> "init"], [op |-> "framebuffer"], [op |-> "allocate", sizes |-> [src |-> Span(n)]]>>
            \o Prepare(<<Fill("src", kCanarySize, n, 119)>>)
            \o GpumCopy(Linear("framebuffer", 0, "src", kCanarySize, n))
            \o Check({Fill("framebuffer", 0, n, 119)}) \o <<[op |-> "free"]>>

kLargePitch == 2 * kByteSize                            \* 16384, 64 * 256
TestM2MFLargePitch == TestOn(Two(Span(3 * kLargePitch)), Rows(RowsOf(4 * u, 3, kLargePitch, kLargePitch), 129))

\* Also the source is compared.
TestM2MFLinearCopy ==
    LET n == 2 * kByteSize
    IN  TestOn(Two(Span(n)),
               Prepare(Around(kCanarySize, n, 204) \o <<Fill("src", kCanarySize, n, 90)>>)
                   \o GpumCopy(Linear("dst", kCanarySize, "src", kCanarySize, n))
                   \o Check({Fill("dst", kCanarySize, n, 90), Fill("src", kCanarySize, n, 90)}
                                \cup Guards(kCanarySize, n)))

kMaxLines == 12
TestM2MFMaxLineCount ==
    TestOn(Two(Span(kMaxLines * 2 * u)),
           Whole(RowsOf(2 * u, kMaxLines, 2 * u, 2 * u), kMaxLines * 2 * u, 204, 77))

TestM2MFMinTransfer ==
    TestOn(Two(Span(1)),
           Prepare(Around(kCanarySize, 1, 0) \o <<Set("src", kCanarySize, 1, 126)>>)
               \o GpumCopy(RowsOf(1, 1, 1, 1))
               \o Check({Set("dst", kCanarySize, 1, 126)} \cup Guards(kCanarySize, 1)))

TestM2MFNotifierRecord ==
    TestOn(Two(4), Prepare(<<Set("src", 0, 4, 51), Set("dst", 0, 4, 0)>>)
                       \o GpumCopy(Linear("dst", 0, "src", 0, 1)) \o Record("written"))

TestM2MFNotifierSwitching ==
    LET t == Linear("dst", 0, "src", 0, 2)
    IN  TestOn(Two(4), Prepare(<<Set("src", 0, 4, 51), Set("dst", 0, 4, 0)>>)
                           \o GpumCopySkipping(Linear("dst", 0, "src", 0, 4), 7)
                           \o <<[op |-> "dump"]>>
                           \o Push(<<DmaNotify("scratch"), t>>) \o Record("unchanged")
                           \o Push(<<DmaNotify("live"), t>>) \o Record("advanced"))

TestM2MFPitchedAsymmetric ==
    TestOn(Two(Span(4 * kByteSize)),
           Rows(RowsOf(2 * u, 3, 16 * u, 4 * u), 0) \o Rows(RowsOf(3 * u, 3, 4 * u, 8 * u), 64))

TestM2MFPitchedPacking ==
    TestOn(Two(Span(2 * kByteSize)),
           Rows(RowsOf(4 * u, 2, 4 * u, 8 * u), 0) \o Rows(RowsOf(4 * u, 2, 8 * u, 4 * u), 1))

TestM2MFPitchedSymmetric == TestOn(Two(Span(24 * u)), Rows(RowsOf(4 * u, 3, 8 * u, 8 * u), 60))

\* The caches of the CPU and what flushes them are not modelled.
Upload(seed) ==
    LET n == 2 * kByteSize
    IN  TestOn(Two(Span(n)), Whole(Linear("dst", kCanarySize, "src", kCanarySize, n), n, 0, seed))
TestM2MFSysmemToVram == Upload(42)
TestM2MFVramToSysmem == Upload(95)
TestM2MFVramToVram == Upload(145)

TestM2MFZeroSize ==
    LET Case(len, lines) ==
            Prepare(<<Set("dst", 0, 16, 204), Set("src", 0, 16, 85)>>)
                \o GpumCopy(PitchedCopy("dst", 0, "src", 0, len, lines, 4, 4)) \o Check({Set("dst", 0, 16, 204)})
    IN  TestOn(Two(16), Case(4, 0) \o Case(0, 2))

kTests ==
    <<TestM2MFAlignmentOddSizes, TestM2MFAlignmentPhases, TestM2MFBatchingCausalChain,
      TestM2MFBatchingIndependent, TestM2MFFormat, TestM2MFFramebuffer, TestM2MFLargePitch,
      TestM2MFLinearCopy, TestM2MFMaxLineCount, TestM2MFMinTransfer, TestM2MFNotifierRecord,
      TestM2MFNotifierSwitching, TestM2MFPitchedAsymmetric, TestM2MFPitchedPacking,
      TestM2MFPitchedSymmetric, TestM2MFSysmemToVram, TestM2MFVramToSysmem, TestM2MFVramToVram,
      TestM2MFZeroSize>>

Ended == test > Len(kTests)
instruction == kTests[test][pc]
At(op) == ~Ended /\ instruction.op = op

-----------------------------------------------------------------------------
(* The GPU *)

Faults ==
    {"short", "overrun", "zero_is_one", "ignores_strides", "ignores_pitch_in", "swaps_pitches", "one_line",
     "wraps_pitch_out", "reorders", "silent", "notifies_live"}

OrOne(n) == IF n = 0 THEN 1 ELSE n

\* The transfer a GPU makes of t.
Performed(t, wrong) ==
    CASE wrong = "short" -> [t EXCEPT !.len = IF t.len = 0 THEN 0 ELSE t.len - 1]
      [] wrong = "overrun" -> [t EXCEPT !.len = t.len + 1]
      [] wrong = "zero_is_one" -> [t EXCEPT !.len = OrOne(t.len), !.lines = OrOne(t.lines)]
      [] wrong = "ignores_strides" -> [t EXCEPT !.stride_in = 1, !.stride_out = 1]
      [] wrong = "ignores_pitch_in" -> [t EXCEPT !.pitch_in = t.len * t.stride_in]
      [] wrong = "swaps_pitches" -> [t EXCEPT !.pitch_in = t.pitch_out, !.pitch_out = t.pitch_in]
      [] wrong = "one_line" -> [t EXCEPT !.lines = IF t.lines = 0 THEN 0 ELSE 1]
      [] wrong = "wraps_pitch_in" -> [t EXCEPT !.pitch_in = t.pitch_in % kLargePitch]
      [] wrong = "wraps_pitch_out" -> [t EXCEPT !.pitch_out = t.pitch_out % kLargePitch]
      [] OTHER -> t

From(t, x, y) == t.so + y * t.pitch_in + x * t.stride_in
Into(t, x, y) == t.do + y * t.pitch_out + x * t.stride_out

\* dst of m after t; of several bytes written to one place that of the last line
\* stays.
Copied(m, t) ==
    LET src == m[t.src]
        Reach(i, y) == {x \in 0 .. t.len - 1 : Into(t, x, y) = i}
        New(i, y) == LET from == From(t, Max(Reach(i, y)), y) IN IF from \in DOMAIN src THEN src[from] ELSE 0
        Reached(i) == {y \in 0 .. t.lines - 1 : Reach(i, y) # {}}
    IN  [i \in DOMAIN m[t.dst] |-> IF Reached(i) = {} THEN m[t.dst][i] ELSE New(i, Max(Reached(i)))]

\* The next command; a GPU that reorders takes two transfers the wrong way.
Turned ==
    /\ fault = "reorders" /\ Len(pushbuffer) > 1
    /\ pushbuffer[1].cmd = "transfer" /\ pushbuffer[2].cmd = "transfer"
chosen == IF Turned THEN 2 ELSE 1

GpuNotify ==
    /\ pushbuffer # <<>> /\ Head(pushbuffer).cmd = "notify"
    /\ channel' = Head(pushbuffer).channel
    /\ pushbuffer' = Tail(pushbuffer)
    /\ UNCHANGED <<buffers, live, fault, position, prev_rec, excused, gave_up, pass>>

GpuTransfer ==
    /\ pushbuffer # <<>> /\ pushbuffer[chosen].cmd = "transfer"
    /\ LET t == Performed(pushbuffer[chosen], fault) IN memory' = [memory EXCEPT ![t.dst] = Copied(memory, t)]
    /\ live' = IF fault # "silent" /\ (channel = "live" \/ fault = "notifies_live")
               THEN [status |-> 0, ptimer |-> 1 + (live.ptimer % 2)] ELSE live
    /\ pushbuffer' = RemoveAt(pushbuffer, chosen)
    /\ UNCHANGED <<held, channel, fault, position, prev_rec, excused, gave_up, pass>>

Gpu == GpuNotify \/ GpuTransfer

-----------------------------------------------------------------------------
(* The thread *)

Step == test' = test /\ pc' = pc + 1
NextTest == test' = test + 1 /\ pc' = 1

M2MFInit ==
    /\ At("init")
    /\ Step
    /\ UNCHANGED <<buffers, gpu, fault, armed, prev_rec, excused, gave_up, pass>>

M2MFInitFails ==
    /\ At("init") /\ ~excused
    /\ NextTest
    /\ excused' = TRUE /\ pass' = FALSE
    /\ UNCHANGED <<buffers, gpu, fault, armed, prev_rec, gave_up>>

\* pb_FBAddr may be zero: the test is skipped.
Framebuffer ==
    /\ At("framebuffer")
    /\ Step \/ NextTest
    /\ UNCHANGED <<buffers, gpu, fault, armed, prev_rec, excused, gave_up, pass>>

sizes == instruction.sizes

Allocate ==
    /\ At("allocate")
    /\ held' = held \cup DOMAIN sizes
    /\ memory' = [buf \in DOMAIN memory |->
                     IF buf \in DOMAIN sizes THEN [i \in 0 .. sizes[buf] - 1 |-> -1] ELSE memory[buf]]
    /\ Step
    /\ UNCHANGED <<gpu, fault, armed, prev_rec, excused, gave_up, pass>>

\* Mutant of Released: after a failure only the destination is freed.
ReleasedOne(got) == got \cap {"dst", "c"}

\* The buffers a test frees, of those it has got.
Released(got) == got

\* Mutant of AllocateFails: the test goes on with what has been freed.
AllocateFailsGoesOn ==
    /\ At("allocate") /\ ~excused
    /\ Step
    /\ excused' = TRUE /\ pass' = FALSE
    /\ UNCHANGED <<buffers, gpu, fault, armed, prev_rec, gave_up>>

AllocateFails ==
    /\ At("allocate") /\ ~excused
    /\ \E got \in SUBSET DOMAIN sizes :
          /\ got # DOMAIN sizes
          /\ held' = (held \cup got) \ Released(got)
    /\ NextTest
    /\ excused' = TRUE /\ pass' = FALSE
    /\ UNCHANGED <<memory, gpu, fault, armed, prev_rec, gave_up>>

\* m with the bytes of the writes in their place; of several writes to one place
\* the last stays.
Written(m, writes) ==
    LET Hits(buf, i) == {k \in DOMAIN writes : writes[k].buf = buf /\ i - writes[k].at \in DOMAIN writes[k].bytes}
        New(w, i) == w.bytes[i - w.at]
    IN  [buf \in DOMAIN m |->
            [i \in DOMAIN m[buf] |-> IF Hits(buf, i) = {} THEN m[buf][i] ELSE New(writes[Max(Hits(buf, i))], i)]]

PrepareStep ==
    /\ At("prepare")
    /\ memory' = Written(memory, instruction.writes)
    /\ Step
    /\ UNCHANGED <<held, gpu, fault, armed, prev_rec, excused, gave_up, pass>>

\* gpum_copy: the record is armed, the transfer is pushed, the record awaited.
GpumCopyStarts ==
    /\ At("copy") /\ ~armed
    /\ live' = [live EXCEPT !.status = -1]
    /\ pushbuffer' = Append(pushbuffer, instruction.transfer)
    /\ armed' = TRUE
    /\ UNCHANGED <<buffers, channel, fault, test, pc, prev_rec, excused, gave_up, pass>>

GpumCopyReturns ==
    /\ At("copy") /\ armed /\ live.status = 0
    /\ armed' = FALSE
    /\ Step
    /\ UNCHANGED <<buffers, gpu, fault, prev_rec, excused, gave_up, pass>>

\* It returns null: the GPU is late, or will not answer at all.
GpumCopyGivesUp ==
    /\ At("copy") /\ armed /\ live.status # 0
    /\ fault = "silent" \/ ~excused
    /\ armed' = FALSE
    /\ excused' = TRUE /\ gave_up' = TRUE /\ pass' = FALSE
    /\ test' = test /\ pc' = pc + 1 + instruction.skip
    /\ UNCHANGED <<buffers, gpu, fault, prev_rec>>

PushStep ==
    /\ At("push")
    /\ pushbuffer' = pushbuffer \o instruction.commands
    /\ Step
    /\ UNCHANGED <<buffers, live, channel, fault, armed, prev_rec, excused, gave_up, pass>>

\* Mutant of Drained: nothing is waited for.
DrainedAtOnce == TRUE

Drained == pushbuffer = <<>>

PBKitBusyWait ==
    /\ At("busy_wait") /\ Drained
    /\ Step
    /\ UNCHANGED <<buffers, gpu, fault, armed, prev_rec, excused, gave_up, pass>>

\* M2MFVerifyPattern, M2MFVerifyCanaries; or memcmp with the line of the source.
Holds(m, c) ==
    IF "line" \in DOMAIN c
    THEN \A x \in 0 .. c.line.len - 1 :
            m[c.line.dst][Into(c.line, x, c.y)] = m[c.line.src][From(c.line, x, c.y)]
    ELSE \A i \in DOMAIN c.bytes : m[c.buf][c.at + i] = c.bytes[i]

CheckStep ==
    /\ At("check")
    /\ pass' = (pass /\ \A c \in instruction.conditions : Holds(memory, c))
    /\ Step
    /\ UNCHANGED <<buffers, gpu, fault, armed, prev_rec, excused, gave_up>>

RecordHolds ==
    CASE instruction.condition = "written" -> live.status = 0 /\ live.ptimer # 0
      [] instruction.condition = "unchanged" -> live = prev_rec
      [] instruction.condition = "advanced" -> live.status = 0 /\ live.ptimer # prev_rec.ptimer

RecordStep ==
    /\ At("record")
    /\ pass' = (pass /\ RecordHolds)
    /\ Step
    /\ UNCHANGED <<buffers, gpu, fault, armed, prev_rec, excused, gave_up>>

Dump ==
    /\ At("dump")
    /\ prev_rec' = live
    /\ Step
    /\ UNCHANGED <<buffers, gpu, fault, armed, excused, gave_up, pass>>

Free ==
    /\ At("free")
    /\ held' = {}
    /\ NextTest
    /\ UNCHANGED <<memory, gpu, fault, armed, prev_rec, excused, gave_up, pass>>

Thread ==
    \/ M2MFInit \/ M2MFInitFails \/ Framebuffer \/ Allocate \/ AllocateFails \/ PrepareStep
    \/ GpumCopyStarts \/ GpumCopyReturns \/ GpumCopyGivesUp \/ PushStep \/ PBKitBusyWait
    \/ CheckStep \/ RecordStep \/ Dump \/ Free

-----------------------------------------------------------------------------
Init ==
    /\ held = {}
    /\ memory = [buf \in {"src", "dst", "a", "b", "c", "framebuffer"} |->
                    [i \in 0 .. (IF buf = "framebuffer" THEN kMaxSpan ELSE 0) - 1 |-> 0]]
    /\ pushbuffer = <<>> /\ live = [status |-> 0, ptimer |-> 0] /\ channel = "live"
    /\ fault \in Faults \cup {"none", "wraps_pitch_in"}
    /\ test = 1 /\ pc = 1 /\ armed = FALSE
    /\ prev_rec = [status |-> 0, ptimer |-> 0] /\ excused = FALSE /\ gave_up = FALSE /\ pass = TRUE

\* M2MFTeardown waits once more.
End == Ended /\ Drained /\ UNCHANGED vars

Next == Gpu \/ Thread \/ End

Spec == Init /\ [][Next]_vars

-----------------------------------------------------------------------------
(* Properties *)

\* On a GPU that works, answers in time and has the memory, every test passes:
\* no test compares before the GPU has written, or finds what the test before
\* it left.
NoFalseFailure == fault = "none" /\ ~excused => pass

\* A GPU with one of Faults does not pass the suite.
FaultsAreDetected == Ended /\ fault \in Faults => ~pass

\* No transfer waits for the GPU on a buffer that is not allocated, unless
\* gpum_copy has given up: an initialization or an allocation that fails is no
\* reason for one.  And a test leaves none allocated, whichever way it ends,
\* half-way through its allocations included.
BuffersAreOwned ==
    /\ \A k \in DOMAIN pushbuffer :
          pushbuffer[k].cmd = "transfer" =>
              {pushbuffer[k].src, pushbuffer[k].dst} \subseteq held \cup {"framebuffer"} \/ gave_up
    /\ pc = 1 => held = {}

\* test_m2mf_large_pitch.h:4-9: large pitches are handled "without register
\* overflow or row calculation errors"; transfers with a pitch of 16384 "step
\* accurately row-by-row".  If the pitch of the source overflowed, the suite
\* would say so.
LargePitchStepsAreSeen == Ended /\ fault = "wraps_pitch_in" => ~pass
=============================================================================
